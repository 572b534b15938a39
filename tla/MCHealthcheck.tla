---------------------------- MODULE MCHealthcheck ----------------------------
(***************************************************************************)
(* Instances of Healthcheck for TLC, together with the inductive invariant  *)
(* the proofs rest on. The second check turns an instance unhealthy at the  *)
(* score at which it should reap it, and so never reaps it.                 *)
(***************************************************************************)
EXTENDS HealthcheckProofs

MCHealthy == <<1, 1>>
MCUnhealthy == <<1, 2>>
MCReap == <<2, 2>>
=============================================================================
