------------------------------ MODULE MCStartup ------------------------------
(***************************************************************************)
(* Instances of Startup for TLC: two stacks; two tasks of the first, one of *)
(* them with two repositories, share a directory with each other and with   *)
(* the second stack.                                                        *)
(***************************************************************************)
EXTENDS StartupProofs

CONSTANTS s1, s2, t1, t2, t3, d1, d2

MCStackOf == [t \in {t1, t2, t3} |-> IF t = t3 THEN s2 ELSE s1]
MCClones == [t \in {t1, t2, t3} |-> IF t = t1 THEN <<d1, d2>> ELSE IF t = t2 THEN <<d2>> ELSE <<d1>>]
=============================================================================
