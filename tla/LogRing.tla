------------------------------- MODULE LogRing -------------------------------
(***************************************************************************)
(* The load balancer's log in memory (sysd/loadbalancer/logger.go, Log in   *)
(* loadbalancer.go): a ring of Limit slots behind a RWMutex. Message moves  *)
(* Pos on, sends the message to the log driver, and stores it, all under    *)
(* the write lock; Log reads the ring slot by slot under the read lock.     *)
(***************************************************************************)
EXTENDS Integers, FiniteSets, SequencesExt

CONSTANTS
    Messages,   \* each is logged at most once
    Writers, Readers,
    Limit,      \* lbLogger.Limit
    Nil         \* an empty slot

ASSUME RingAssumption == Limit \in Nat \ {0} /\ Nil \notin Messages

Slots == 0..Limit - 1

VARIABLES
    ring, pos,
    writer,     \* what each caller of Message logs, and whether it holds the lock
    reader,     \* where each caller of Log is, and what it has read
    unused      \* messages nobody has logged yet

vars == <<ring, pos, writer, reader, unused>>

NoMessage == [pc |-> "idle", msg |-> Nil]
NoRead == [pc |-> "idle", left |-> 0, output |-> <<>>]

Init ==
    /\ ring = [k \in Slots |-> Nil] /\ pos = 0
    /\ writer = [w \in Writers |-> NoMessage]
    /\ reader = [r \in Readers |-> NoRead]
    /\ unused = Messages

Writing == \E w \in Writers : writer[w].pc = "store"
Reading == \E r \in Readers : reader[r].pc = "scan"

\* The message is dated before the lock is taken.
Call(w) ==
    /\ writer[w] = NoMessage
    /\ \E m \in unused :
         /\ unused' = unused \ {m}
         /\ writer' = [writer EXCEPT ![w] = [pc |-> "lock", msg |-> m]]
    /\ UNCHANGED <<ring, pos, reader>>

\* Mutant: one slot of the ring is never used.
AdvanceShort(p) == IF p + 2 >= Limit THEN 0 ELSE p + 1

Advance(p) == IF p + 1 >= Limit THEN 0 ELSE p + 1

CanWrite == ~Writing /\ ~Reading

LockAndAdvance(w) ==
    /\ writer[w].pc = "lock" /\ CanWrite
    /\ pos' = Advance(pos)
    /\ writer' = [writer EXCEPT ![w].pc = "store"]
    /\ UNCHANGED <<ring, reader, unused>>

\* Between the two steps the log driver may keep the writer waiting.
Store(w) ==
    /\ writer[w].pc = "store"
    /\ ring' = [ring EXCEPT ![pos] = writer[w].msg]
    /\ writer' = [writer EXCEPT ![w] = NoMessage]
    /\ UNCHANGED <<pos, reader, unused>>

CallLog(r) ==
    /\ reader[r].pc = "idle"
    /\ reader' = [reader EXCEPT ![r].pc = "lock"]
    /\ UNCHANGED <<ring, pos, writer, unused>>

StartLog(r) ==
    /\ reader[r].pc = "lock" /\ ~Writing
    /\ reader' = [reader EXCEPT ![r] = [pc |-> "scan", left |-> Limit, output |-> <<>>]]
    /\ UNCHANGED <<ring, pos, writer, unused>>

\* Mutant: a scan that does not start at Pos.
ScannedFromStart(r) == Limit - reader[r].left

\* From Pos to the end of the ring, then from its start up to Pos.
Scanned(r) == (pos + Limit - reader[r].left) % Limit

Scan(r) ==
    /\ reader[r].pc = "scan" /\ reader[r].left > 0
    /\ LET m == ring[Scanned(r)] IN
         reader' = [reader EXCEPT ![r].left = @ - 1,
                                  ![r].output = IF m = Nil THEN @ ELSE Append(@, m)]
    /\ UNCHANGED <<ring, pos, writer, unused>>

EndLog(r) ==
    /\ reader[r].pc = "scan" /\ reader[r].left = 0
    /\ reader' = [reader EXCEPT ![r] = NoRead]
    /\ UNCHANGED <<ring, pos, writer, unused>>

Next ==
    \/ \E w \in Writers : Call(w) \/ LockAndAdvance(w) \/ Store(w)
    \/ \E r \in Readers : CallLog(r) \/ StartLog(r) \/ Scan(r) \/ EndLog(r)

Spec == Init /\ [][Next]_vars

-----------------------------------------------------------------------------
(* Properties.                                                              *)

RingTypeOK ==
    /\ ring \in [Slots -> Messages \cup {Nil}] /\ pos \in Slots
    /\ writer \in [Writers -> [pc : {"idle", "lock", "store"}, msg : Messages \cup {Nil}]]
    /\ reader \in [Readers -> [pc : {"idle", "lock", "scan"}, left : 0..Limit, output : Seq(Messages)]]
    /\ \A r \in Readers : Len(reader[r].output) <= Limit
    /\ unused \subseteq Messages
    /\ ~(Writing /\ Reading)

\* How many messages the ring holds, and the slot of the oldest: Pos is the newest one,
\* or, while a writer has moved it and has not stored yet, the oldest.
Held == Cardinality({k \in Slots : ring[k] # Nil})
Oldest == IF Writing THEN pos ELSE pos + 1

\* The messages of the ring, the oldest first. Slots are filled in turn, so that those
\* that are still empty come before the oldest message.
Chronicle == [k \in 1..Held |-> ring[(Oldest + Limit - Held + k - 1) % Limit]]

Bounded == INSTANCE BoundedLog WITH log <- Chronicle

\* The ring implements the bounded log: it keeps the last Limit messages in the
\* order they were logged, however writers and readers interleave.
RingIsBoundedLog == Bounded!Spec

\* Log returns what the ring holds at one moment: the newest message first, then
\* the others from the oldest on.
LogIsWhole ==
    \A r \in Readers : reader[r].pc = "scan" /\ reader[r].left = 0 =>
        reader[r].output = IF Chronicle = <<>> THEN <<>> ELSE <<Last(Chronicle)>> \o Front(Chronicle)
=============================================================================
