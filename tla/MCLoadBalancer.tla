--------------------------- MODULE MCLoadBalancer ---------------------------
(***************************************************************************)
(* Instances of LoadBalancer for TLC: the first connection talks, and the   *)
(* others only come and go.                                                 *)
(***************************************************************************)
EXTENDS LoadBalancer

CONSTANT c1

Client == {<<c1, "l">>}
Server == {<<c1, "r">>}
Both == Client \cup Server
=============================================================================
