--------------------------- MODULE LoadBalancerLog ---------------------------
(***************************************************************************)
(* The load balancer's log and the log driver together: a caller of Message *)
(* sends its message to the driver while it holds the write lock of the     *)
(* ring, between the two halves of its update. Tails share the driver.      *)
(***************************************************************************)
EXTENDS LogRing, LogDriver

ASSUME CallersAssumption ==
    Writers = Callers /\ Messages = MessagesOf(Callers)

logVars == <<vars, driverVars>>

LogInit == Init /\ DriverInit

MessageOf(c) == [from |-> c, n |-> sender[c].n + 1]

\* lbLogger.Message: the call, ...
CallMessage(c) == Call(c) /\ writer'[c].msg = MessageOf(c) /\ UNCHANGED driverVars

\* ... the lock, the next slot and SendPBMessage, ...
LockAndSend(c) == LockAndAdvance(c) /\ HasMessage(c)

\* ... which returns or panics and recovers; then the slot is filled.
SentAndStore(c) == (Send(c) \/ SendPanics(c)) /\ Store(c)

Tailing(t) == (HasMessage(t) \/ Send(t) \/ SendPanics(t)) /\ UNCHANGED vars

Logging(r) == (CallLog(r) \/ StartLog(r) \/ Scan(r) \/ EndLog(r)) /\ UNCHANGED driverVars

Driving == (Driver \/ Stop) /\ UNCHANGED vars

LogNext ==
    \/ \E c \in Callers : CallMessage(c) \/ LockAndSend(c) \/ SentAndStore(c)
    \/ \E t \in Tails : Tailing(t)
    \/ \E r \in Readers : Logging(r)
    \/ Driving

LogSpec == LogInit /\ [][LogNext]_logVars

-----------------------------------------------------------------------------
(* Fairness. Goroutines are scheduled, and Go's RWMutex lets a waiting      *)
(* writer in before later readers; its select chooses at random among the   *)
(* channels that are ready. Logstash does not fail for ever: the comment in *)
(* SendPBMessage says that paasbox blocks if it does. Nobody has to call    *)
(* Message, Log or Stop. The number of calls is bounded, so that some       *)
(* caller getting the lock whenever it is free is as good as each of them.  *)

FairSender(s) == WF_logVars((Send(s) \/ SendPanics(s)) /\ UNCHANGED vars)
FairCallers ==
    /\ SF_logVars(\E c \in Callers : LockAndSend(c))
    /\ WF_logVars(\E c \in Callers : SentAndStore(c))
FairReader(r) ==
    WF_logVars((StartLog(r) \/ Scan(r) \/ EndLog(r)) /\ UNCHANGED driverVars)
FairDriver ==
    /\ WF_logVars((Start \/ Retry) /\ UNCHANGED vars)
    /\ SF_logVars(PostSucceeds /\ UNCHANGED vars)
    /\ \A c \in Channels : /\ SF_logVars(Receive(c) /\ UNCHANGED vars)
                           /\ WF_logVars(CloseChannel(c) /\ UNCHANGED vars)

Fairness ==
    /\ \A t \in Tails : FairSender(t)
    /\ FairCallers
    /\ \A r \in Readers : FairReader(r)
    /\ FairDriver

FairSpec == LogSpec /\ Fairness

-----------------------------------------------------------------------------
(* Properties.                                                              *)

\* Every variable keeps its type: no channel outgrows its buffer, writers and
\* readers exclude each other, and who holds the lock is sending.
TypeOK ==
    /\ RingTypeOK /\ DriverTypeOK
    /\ \A c \in Callers : writer[c].pc = "store" <=> sender[c].pc = "send"

\* Nobody waits for ever in SendAppMessage or Message, where a full channel keeps
\* the ring locked, nor in Log, also when Stop closes the channels meanwhile: the
\* calls, of which each sender makes a bounded number, have all returned at last, and
\* a reader is done again and again.
EveryoneReturns ==
    /\ []<>(\A s \in Senders : sender[s].pc = "idle" /\ (s \in Callers => writer[s].pc = "idle"))
    /\ \A r \in Readers : []<>(reader[r].pc = "idle")
=============================================================================
