------------------------------ MODULE BoundedLog ------------------------------
(***************************************************************************)
(* What the load balancer's log promises (load-balancer/index.md, Logging): *)
(* it keeps the last Limit messages, in the order they were logged.         *)
(***************************************************************************)
EXTENDS Naturals, Sequences

CONSTANTS Messages, Limit

VARIABLE log

LastOf(s) == SubSeq(s, IF Len(s) > Limit THEN Len(s) - Limit + 1 ELSE 1, Len(s))

Init == log = <<>>

Add(m) == log' = LastOf(Append(log, m))

Next == \E m \in Messages : Add(m)

Spec == Init /\ [][Next]_log
=============================================================================
