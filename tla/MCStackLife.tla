----------------------------- MODULE MCStackLife -----------------------------
(***************************************************************************)
(* A stack with one service, that persists or not, and two users who may be *)
(* exchanged.                                                              *)
(***************************************************************************)
EXTENDS StackLifeProofs, TLC

CONSTANTS web, h1, h2, main

Users == Permutations(Handlers)
=============================================================================
