------------------------------ MODULE MCWebUI ------------------------------
(***************************************************************************)
(* Two stacks with the same two tasks, which are interchangeable.           *)
(***************************************************************************)
EXTENDS WebUIProofs, TLC

CONSTANTS s1, s2, a, b, nowhere

Symmetry == Permutations({a, b})
=============================================================================
