------------------------- MODULE MCLoadBalancerLog -------------------------
(***************************************************************************)
(* An instance of LoadBalancerLog for TLC.                                  *)
(***************************************************************************)
EXTENDS LoadBalancerLogProofs

MCMessages == MessagesOf(Callers)
=============================================================================
