------------------------------- MODULE MCTask -------------------------------
(***************************************************************************)
(* Instances of Task for TLC. The .cfg files give the constants their       *)
(* values, all of them small: IInv comes along from TaskProofs so that TLC  *)
(* checks the inductive invariant the proofs rest on.                       *)
(***************************************************************************)
EXTENDS TaskProofs, TLC

\* The dev-mode placeholders differ in nothing but their names.
Placeholders == Permutations(Devs)
=============================================================================
