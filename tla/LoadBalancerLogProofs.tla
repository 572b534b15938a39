------------------------ MODULE LoadBalancerLogProofs ------------------------
(***************************************************************************)
(* For any number of slots, writers and readers: the ring implements the    *)
(* bounded log, and a reader gets it whole. For any senders, message counts *)
(* and channel sizes: the log driver loses nothing it has accepted, and     *)
(* logstash gets the messages of each sender in order, however often a      *)
(* request is repeated and whenever Stop comes.                             *)
(***************************************************************************)
EXTENDS LoadBalancerLog, FiniteSetTheorems, SequenceTheorems, TLAPS

(* The ring.                                                                *)

\* The number of slots in use, from slot 1 on; slot 0 is the last one to be filled.
Used ==
    IF ring[0] # Nil THEN Limit
    ELSE IF ~Writing THEN pos
    ELSE IF pos = 0 THEN Limit - 1 ELSE pos - 1

\* Once the ring has wrapped around no slot is empty.
Filled == \A k \in Slots : ring[k] # Nil <=> (ring[0] # Nil \/ k \in 1..Used)

\* The lock of the ring.
Locked ==
    /\ \A v, w \in Writers : writer[v].pc = "store" /\ writer[w].pc = "store" => v = w
    /\ \A w \in Writers : writer[w].pc # "idle" => writer[w].msg \in Messages

\* What a scan has passed: the slot at Pos, and then those from the oldest message on.
Passed(r) == Limit - reader[r].left
SeenOf(n) == IF n = 0 \/ Used = 0 THEN 0 ELSE IF n <= Limit - Used + 1 THEN 1 ELSE n - (Limit - Used)
SlotOf(j) == IF j = 1 THEN pos ELSE (pos + Limit - Used + j - 1) % Limit
Scanning == \A r \in Readers : reader[r].pc = "scan" =>
    /\ Len(reader[r].output) = SeenOf(Passed(r))
    /\ \A j \in 1..SeenOf(Passed(r)) : reader[r].output[j] = ring[SlotOf(j)]

\* The inductive invariant of the ring.
RingInv == RingTypeOK /\ Filled /\ Locked /\ Scanning

-----------------------------------------------------------------------------
(* The log driver.                                                          *)

\* Only a request that is not answered yet has a message in hand.
HandEmpty == driver.pc \in {"off", "select"} => driver.msg = Zero

\* What waits, or is stored, was accepted, by its sender's channel.
WaitingAccepted ==
    /\ \A s \in Senders : \A i \in 1..Len(stored[s]) : [from |-> s, n |-> stored[s][i]] \in accepted
    /\ driver.msg # Zero => driver.msg \in accepted
    /\ \A c \in Channels : \A k \in 1..Len(queue[c]) :
         queue[c][k] \in accepted /\ ChannelOf(queue[c][k].from) = c

\* Messages are accepted without a gap: a channel that was closed never opens again.
NoGap ==
    /\ \A s \in Senders : sender[s].pc = "send" => sender[s].n > 0
    /\ \A m \in accepted : /\ m.n <= sender[m.from].n
                           /\ sender[m.from].pc = "send" => m.n < sender[m.from].n
                           /\ m.n > 1 => [from |-> m.from, n |-> m.n - 1] \in accepted
    /\ \A s \in Senders : open[ChannelOf(s)] =>
         \A n \in 1..sender[s].n : sender[s].pc = "idle" \/ n < sender[s].n =>
             [from |-> s, n |-> n] \in accepted

\* A sender's messages wait in order, the one in hand before those in the channel.
Sorted ==
    \A c \in Channels : \A j, k \in 1..Len(queue[c]) :
        j < k /\ queue[c][j].from = queue[c][k].from => queue[c][j].n < queue[c][k].n
InHandFirst ==
    driver.msg # Zero => \A c \in Channels : \A k \in 1..Len(queue[c]) :
        queue[c][k].from = driver.msg.from => driver.msg.n < queue[c][k].n

\* What is stored is older than what waits; only the one in hand may be stored already.
Behind ==
    \A s \in Senders : \A i \in 1..Len(stored[s]) :
        /\ \A c \in Channels : \A k \in 1..Len(queue[c]) :
             queue[c][k].from = s => stored[s][i] < queue[c][k].n
        /\ driver.msg # Zero /\ driver.msg.from = s => stored[s][i] <= driver.msg.n
        /\ \A j \in 1..Len(stored[s]) : i <= j => stored[s][i] <= stored[s][j]

\* The inductive invariant of the log driver.
DInv ==
    /\ DriverTypeOK /\ HandEmpty /\ WaitingAccepted /\ NoGap
    /\ Sorted /\ InHandFirst /\ Behind /\ NothingLost /\ InOrder

-----------------------------------------------------------------------------
(* The steps of the ring.                                                   *)

\* Around the ring.
LEMMA Wrap ==
    ASSUME NEW x \in Nat, x < 2 * Limit
    PROVE  x % Limit = IF x < Limit THEN x ELSE x - Limit
<1>1. Limit \in Nat /\ Limit > 0
  BY RingAssumption
<1>2. CASE x < Limit
  BY <1>1, <1>2
<1>3. CASE x >= Limit
  <2>1. x - Limit \in Nat /\ x - Limit < Limit /\ x = Limit * 1 + (x - Limit)
    BY <1>1, <1>3
  <2> QED
    BY <1>1, <1>3, <2>1
<1> QED
  BY <1>1, <1>2, <1>3

LEMMA UsedFacts ==
    ASSUME RingTypeOK, Filled
    PROVE  Used \in 0..Limit /\ Held = Used
<1>1. Limit \in Nat /\ Limit > 0 /\ pos \in 0..Limit - 1 /\ 0 \in Slots
  BY RingAssumption DEF RingTypeOK, Slots
<1>2. Used \in 0..Limit
  BY <1>1 DEF Used
<1>3. CASE ring[0] # Nil
  <2>1. {k \in Slots : ring[k] # Nil} = 0..Limit - 1
    BY <1>3 DEF Filled, Slots
  <2>2. Cardinality(0..Limit - 1) = Limit
    BY <1>1, FS_Interval
  <2> QED
    BY <1>2, <1>3, <2>1, <2>2 DEF Held, Used
<1>4. CASE ring[0] = Nil
  <2>0. Used <= Limit - 1
    BY <1>1, <1>4 DEF Used
  <2>1. {k \in Slots : ring[k] # Nil} = 1..Used
    BY <1>1, <1>2, <1>4, <2>0 DEF Filled, Slots
  <2>2. Cardinality(1..Used) = Used
    BY <1>2, FS_Interval
  <2> QED
    BY <1>2, <2>1, <2>2 DEF Held
<1> QED
  BY <1>3, <1>4

\* The messages in the ring.
SlotAt(k) == (Oldest + Limit - Used + k - 1) % Limit

LEMMA SlotFacts ==
    ASSUME RingTypeOK, Filled, NEW k \in 1..Used
    PROVE  SlotAt(k) \in Slots /\ ring[SlotAt(k)] \in Messages
<1>1. Limit \in Nat /\ Limit > 0 /\ pos \in 0..Limit - 1 /\ 0 \in Slots /\ Used \in 0..Limit
  BY RingAssumption, UsedFacts DEF RingTypeOK, Slots
<1>2. Oldest \in 0..Limit
  BY <1>1 DEF Oldest
<1>3. PICK x \in Nat : x = Oldest + Limit - Used + k - 1 /\ x < 2 * Limit
  BY <1>1, <1>2
<1>4. SlotAt(k) = IF x < Limit THEN x ELSE x - Limit
  BY <1>3, Wrap DEF SlotAt
<1>5. SlotAt(k) \in Slots
  BY <1>1, <1>3, <1>4 DEF Slots
<1>6. ring[0] = Nil => SlotAt(k) \in 1..Used
  <2> SUFFICES ASSUME ring[0] = Nil PROVE SlotAt(k) \in 1..Used
    OBVIOUS
  <2>1. CASE Writing
    BY <1>1, <1>3, <1>4, <2>1 DEF Oldest, Used
  <2>2. CASE ~Writing
    BY <1>1, <1>3, <1>4, <2>2 DEF Oldest, Used
  <2> QED
    BY <2>1, <2>2
<1>7. ring[SlotAt(k)] # Nil
  BY <1>5, <1>6 DEF Filled
<1> QED
  BY <1>5, <1>7 DEF RingTypeOK

LEMMA ChronicleFacts == RingTypeOK /\ Filled =>
    /\ Chronicle \in Seq(Messages) /\ Len(Chronicle) = Used
    /\ Chronicle = [k \in 1..Used |-> ring[SlotAt(k)]]
<1> SUFFICES ASSUME RingTypeOK, Filled
             PROVE  /\ Chronicle \in Seq(Messages) /\ Len(Chronicle) = Used
                    /\ Chronicle = [k \in 1..Used |-> ring[SlotAt(k)]]
  OBVIOUS
<1>1. Used \in Nat /\ Held = Used
  BY UsedFacts
<1>2. Chronicle = [k \in 1..Used |-> ring[SlotAt(k)]]
  BY <1>1 DEF Chronicle, SlotAt
<1> QED
  BY <1>1, <1>2, SlotFacts

LEMMA ChronicleNext == (RingTypeOK /\ Filled)' =>
    /\ Chronicle' \in Seq(Messages) /\ Len(Chronicle') = Used'
    /\ Chronicle' = [k \in 1..Used' |-> ring'[SlotAt(k)']]
<1>1. (RingTypeOK /\ Filled =>
         /\ Chronicle \in Seq(Messages) /\ Len(Chronicle) = Used
         /\ Chronicle = [k \in 1..Used |-> ring[SlotAt(k)]])'
  BY ChronicleFacts, PTL
<1> QED
  BY <1>1

\* A step that moves no message.
LEMMA RingStays ==
    ASSUME UNCHANGED <<ring, pos>>, Writing' <=> Writing
    PROVE  /\ Used' = Used /\ Chronicle' = Chronicle
           /\ Filled => Filled'
           /\ \A j : SlotOf(j)' = SlotOf(j)
<1>1. Used' = Used
  BY DEF Used
<1>2. Oldest' = Oldest
  BY DEF Oldest
<1>3. Held' = Held
  BY DEF Held
<1>4. Chronicle' = Chronicle
  BY <1>2, <1>3 DEF Chronicle
<1> QED
  BY <1>1, <1>4 DEF Filled, SlotOf

LEMMA InitRing == Init => RingInv /\ Chronicle = <<>>
<1> SUFFICES ASSUME Init PROVE RingInv /\ Chronicle = <<>>
  OBVIOUS
<1>1. Limit \in Nat /\ Limit > 0 /\ 0 \in Slots
  BY RingAssumption DEF Slots
<1>2. ~Writing /\ ~Reading
  BY DEF Init, Writing, Reading, NoMessage, NoRead
<1>3. RingTypeOK
  <2>1. <<>> \in Seq(Messages) /\ Len(<<>>) = 0
    BY EmptySeq
  <2>2. \A r \in Readers : reader[r] = [pc |-> "idle", left |-> 0, output |-> <<>>]
    BY DEF Init, NoRead
  <2>3. \A w \in Writers : writer[w] \in [pc : {"idle", "lock", "store"}, msg : Messages \cup {Nil}]
    BY DEF Init, NoMessage
  <2>4. writer \in [Writers -> [pc : {"idle", "lock", "store"}, msg : Messages \cup {Nil}]]
    BY <2>3 DEF Init
  <2>5. ring \in [Slots -> Messages \cup {Nil}] /\ pos \in Slots /\ unused \subseteq Messages
    BY <1>1 DEF Init
  <2>6. ASSUME NEW r \in Readers
        PROVE  /\ reader[r] \in [pc : {"idle", "lock", "scan"}, left : 0..Limit, output : Seq(Messages)]
               /\ Len(reader[r].output) <= Limit
    <3>1. reader[r].pc = "idle" /\ reader[r].left = 0 /\ reader[r].output = <<>>
      BY <2>2
    <3>2. reader[r].output \in Seq(Messages) /\ Len(reader[r].output) = 0
      BY <2>1, <3>1, Zenon
    <3> QED
      BY <1>1, <2>1, <2>2, <3>2
  <2>7. reader \in [Readers -> [pc : {"idle", "lock", "scan"}, left : 0..Limit, output : Seq(Messages)]]
    BY <2>6 DEF Init
  <2> QED
    BY <1>2, <2>4, <2>5, <2>6, <2>7 DEF RingTypeOK
<1>4. Used = 0
  BY <1>1, <1>2 DEF Init, Used
<1>5. Filled
  BY <1>1, <1>4 DEF Init, Filled, Slots
<1>6. Locked /\ Scanning
  BY DEF Init, Locked, Scanning, NoMessage, NoRead
<1>7. Chronicle = <<>>
  BY <1>3, <1>4, <1>5, ChronicleFacts
<1> QED
  BY <1>3, <1>5, <1>6, <1>7 DEF RingInv

LEMMA CallRing ==
    ASSUME RingInv, NEW w \in Writers, Call(w)
    PROVE  RingInv' /\ Chronicle' = Chronicle
<1> USE DEF RingInv
<1>1. PICK m \in Messages : /\ unused' \subseteq unused
                            /\ writer' = [writer EXCEPT ![w] = [pc |-> "lock", msg |-> m]]
  BY DEF Call, RingTypeOK
<1>2. writer[w].pc = "idle" /\ UNCHANGED <<ring, pos, reader>>
  BY DEF Call, NoMessage
<1>3. \A v \in Writers : writer'[v].pc = "store" <=> writer[v].pc = "store"
  BY <1>1, <1>2 DEF RingTypeOK
<1>4. (Writing' <=> Writing) /\ (Reading' <=> Reading)
  BY <1>2, <1>3 DEF Writing, Reading
<1>5. RingTypeOK'
  BY <1>1, <1>2, <1>4 DEF RingTypeOK
<1>6. Locked'
  BY <1>1, <1>2, <1>3 DEF Locked, RingTypeOK
<1>7. Scanning'
  BY <1>2, <1>4, RingStays DEF Scanning, SeenOf, Passed
<1> QED
  BY <1>2, <1>4, <1>5, <1>6, <1>7, RingStays

LEMMA LockAndAdvanceRing ==
    ASSUME RingInv, NEW w \in Writers, LockAndAdvance(w)
    PROVE  RingInv' /\ Chronicle' = Chronicle
<1> USE DEF RingInv
<1>1. Limit \in Nat /\ Limit > 0 /\ pos \in 0..Limit - 1 /\ 0 \in Slots
  BY RingAssumption DEF RingTypeOK, Slots
<1>2. /\ writer[w].pc = "lock" /\ ~Writing /\ ~Reading
      /\ pos' = IF pos + 1 >= Limit THEN 0 ELSE pos + 1
      /\ writer' = [writer EXCEPT ![w].pc = "store"]
      /\ UNCHANGED <<ring, reader, unused>>
  BY DEF LockAndAdvance, CanWrite, Advance
<1>3. pos' \in 0..Limit - 1
  BY <1>1, <1>2
<1>4. Writing' /\ ~Reading'
  BY <1>2 DEF Writing, Reading, RingTypeOK
<1>5. RingTypeOK'
  BY <1>1, <1>2, <1>3, <1>4 DEF RingTypeOK, Slots
<1>6. Locked'
  BY <1>2 DEF Locked, Writing, RingTypeOK
<1>7. Used' = Used
  BY <1>1, <1>2, <1>4 DEF Used
<1>8. Filled'
  BY <1>2, <1>7 DEF Filled
<1>9. Scanning'
  BY <1>4 DEF Scanning, Reading
<1>10. ASSUME NEW k \in 1..Used PROVE SlotAt(k)' = SlotAt(k)
  <2>1. Used \in 0..Limit /\ k \in Int
    BY UsedFacts
  <2>2. PICK x \in Nat : x = pos + 1 + Limit - Used + k - 1 /\ x < 2 * Limit
    BY <1>1, <2>1
  <2>3. PICK y \in Nat : y = pos' + Limit - Used + k - 1 /\ y < 2 * Limit
    <3>1. \A p \in 0..Limit - 1 : p + Limit - Used + k - 1 \in Nat /\ p + Limit - Used + k - 1 < 2 * Limit
      BY <1>1, <2>1
    <3> QED
      BY <1>3, <3>1
  <2>4. SlotAt(k) = IF x < Limit THEN x ELSE x - Limit
    BY <1>2, <2>2, Wrap DEF SlotAt, Oldest
  <2>5. SlotAt(k)' = IF y < Limit THEN y ELSE y - Limit
    BY <1>4, <1>7, <2>3, Wrap DEF SlotAt, Oldest
  <2>6. y = x \/ (x >= Limit /\ y = x - Limit /\ y < Limit)
    BY <1>1, <1>2, <2>1, <2>2, <2>3
  <2> QED
    BY <1>1, <2>2, <2>3, <2>4, <2>5, <2>6
<1>11. Chronicle' = Chronicle
  <2>1. Chronicle = [k \in 1..Used |-> ring[SlotAt(k)]]
    BY ChronicleFacts
  <2>2. Chronicle' = [k \in 1..Used |-> ring[SlotAt(k)']]
    BY <1>2, <1>5, <1>7, <1>8, ChronicleNext
  <2> QED
    BY <1>10, <2>1, <2>2
<1> QED
  BY <1>5, <1>6, <1>8, <1>9, <1>11

\* The only step that moves a message: what the log promises of it.
LEMMA StoreRing ==
    ASSUME RingInv, NEW w \in Writers, Store(w)
    PROVE  RingInv' /\ Bounded!Add(writer[w].msg) /\ writer[w].msg \in Messages
<1> USE DEF RingInv
<1> DEFINE m == writer[w].msg
<1>1. Limit \in Nat /\ Limit > 0 /\ pos \in 0..Limit - 1 /\ 0 \in Slots /\ pos \in Slots /\ Nil \notin Messages
  BY RingAssumption DEF RingTypeOK, Slots
<1>2. /\ writer[w].pc = "store" /\ ring' = [ring EXCEPT ![pos] = m]
      /\ writer' = [writer EXCEPT ![w] = [pc |-> "idle", msg |-> Nil]]
      /\ UNCHANGED <<pos, reader, unused>>
  BY DEF Store, NoMessage
<1>3. m \in Messages
  BY <1>2 DEF Locked
<1>4. Writing /\ ~Reading
  BY <1>2 DEF Writing, RingTypeOK
<1>5. ~Writing' /\ ~Reading'
  BY <1>2, <1>4 DEF Writing, Reading, Locked, RingTypeOK
<1>6. RingTypeOK'
  BY <1>2, <1>3, <1>5 DEF RingTypeOK
<1>7. Locked'
  BY <1>2 DEF Locked, RingTypeOK
<1>8. Scanning'
  BY <1>5 DEF Scanning, Reading
<1>9. \A k \in Slots : ring'[k] = IF k = pos THEN m ELSE ring[k]
  BY <1>2 DEF RingTypeOK
<1>10. Used \in 0..Limit /\ Used' = IF Used = Limit THEN Limit ELSE Used + 1
  <2>1. CASE ring[0] # Nil
    BY <1>1, <1>3, <1>9, <2>1 DEF Used
  <2>2. CASE ring[0] = Nil /\ pos = 0
    BY <1>1, <1>3, <1>4, <1>9, <2>2 DEF Used
  <2>3. CASE ring[0] = Nil /\ pos # 0
    BY <1>1, <1>2, <1>3, <1>4, <1>5, <1>9, <2>3 DEF Used
  <2> QED
    BY <2>1, <2>2, <2>3
<1>11. Filled'
  <2> SUFFICES ASSUME NEW k \in Slots
               PROVE  ring'[k] # Nil <=> (ring'[0] # Nil \/ k \in 1..Used')
    BY DEF Filled
  <2>0. k \in 0..Limit - 1 /\ (ring[k] # Nil <=> (ring[0] # Nil \/ k \in 1..Used))
    BY DEF Slots, Filled
  <2>1. CASE ring[0] # Nil
    BY <1>1, <1>3, <1>9, <2>0, <2>1
  <2>2. CASE ring[0] = Nil /\ pos = 0
    BY <1>1, <1>3, <1>4, <1>9, <2>0, <2>2 DEF Used
  <2>3. CASE ring[0] = Nil /\ pos # 0
    <3>1. Used = pos - 1 /\ Used' = pos /\ ring'[0] = Nil
      BY <1>1, <1>2, <1>4, <1>5, <1>9, <2>3 DEF Used
    <3> QED
      BY <1>1, <1>3, <1>9, <2>0, <2>3, <3>1
  <2> QED
    BY <2>1, <2>2, <2>3
<1>12. RingInv'
  BY <1>6, <1>7, <1>8, <1>11
<1> DEFINE old == Chronicle
           both == Append(old, m)
<1>13. /\ old \in Seq(Messages) /\ Len(old) = Used
       /\ both \in Seq(Messages) /\ Len(both) = Used + 1
       /\ \A k \in 1..Used : both[k] = ring[SlotAt(k)]
       /\ both[Used + 1] = m
  BY <1>3, <1>10, ChronicleFacts
<1>14. Chronicle' = [k \in 1..Used' |-> ring'[SlotAt(k)']] /\ Chronicle' \in Seq(Messages) /\ Len(Chronicle') = Used'
  BY <1>6, <1>11, ChronicleNext
<1> PICK u \in 0..Limit, v \in 1..Limit :
         u = Used /\ v = Used' /\ v = (IF u = Limit THEN Limit ELSE u + 1)
  BY <1>1, <1>10
<1> PICK next : next = Chronicle'
  OBVIOUS
<1>15. ASSUME NEW k \in 1..v
       PROVE  next[k] = both[k + (u + 1 - v)]
  <2>1. k \in 1..Limit /\ k \in Int
    BY <1>1
  <2>2. PICK y \in Nat : y = pos + 1 + Limit - v + k - 1 /\ y < 2 * Limit
    BY <1>1, <2>1
  <2>3. SlotAt(k)' = IF y < Limit THEN y ELSE y - Limit
    BY <1>2, <1>5, <2>2, Wrap DEF SlotAt, Oldest
  <2>4. next[k] = ring'[SlotAt(k)']
    BY <1>14
  <2>5. SlotAt(k)' \in Slots
    BY <1>1, <2>2, <2>3 DEF Slots
  <2>6. CASE k = v
    <3>1. SlotAt(k)' = pos
      BY <1>1, <2>1, <2>2, <2>3, <2>6
    <3>2. k + (u + 1 - v) = u + 1
      BY <1>1, <2>6
    <3> QED
      BY <1>1, <1>9, <1>13, <2>4, <3>1, <3>2
  <2>7. CASE k < v
    <3>1. k + (u + 1 - v) \in 1..u
      BY <1>1, <2>1, <2>7
    <3>2. PICK x \in Nat : x = pos + Limit - u + (k + (u + 1 - v)) - 1 /\ x < 2 * Limit
      BY <1>1, <3>1
    <3>3. SlotAt(k + (u + 1 - v)) = IF x < Limit THEN x ELSE x - Limit
      BY <1>4, <3>2, Wrap DEF SlotAt, Oldest
    <3>4. x = y
      BY <1>1, <2>1, <2>2, <3>2
    <3>5. SlotAt(k)' = SlotAt(k + (u + 1 - v)) /\ SlotAt(k)' # pos
      BY <1>1, <2>1, <2>2, <2>3, <2>7, <3>3, <3>4
    <3> QED
      BY <1>9, <1>13, <2>4, <2>5, <3>1, <3>5
  <2>8. k = v \/ k < v
    BY <1>1, <2>1
  <2> QED
    BY <2>6, <2>7, <2>8
<1>16. next = Bounded!LastOf(both)
  <2>1. CASE u < Limit
    <3>1. Bounded!LastOf(both) = SubSeq(both, 1, u + 1)
      BY <1>1, <1>13, <2>1 DEF Bounded!LastOf
    <3>2. SubSeq(both, 1, u + 1) = both
      BY <1>13, SubSeqFull
    <3>3. v = u + 1 /\ \A k \in 1..u + 1 : k + (u + 1 - v) = k
      BY <1>1, <2>1
    <3>4. \A k \in 1..u + 1 : next[k] = both[k]
      BY <1>15, <3>3
    <3>5. next \in Seq(Messages) /\ Len(next) = u + 1
      BY <1>14, <3>3
    <3>6. next = both
      <4> HIDE DEF both
      <4> QED
        BY <1>13, <3>4, <3>5, SeqEqual
    <3> QED
      BY <3>1, <3>2, <3>6
  <2>2. CASE u = Limit
    <3>1. Bounded!LastOf(both) = SubSeq(both, 2, Limit + 1)
      BY <1>1, <1>13, <2>2 DEF Bounded!LastOf
    <3>2. /\ SubSeq(both, 2, Limit + 1) \in Seq(Messages) /\ Len(SubSeq(both, 2, Limit + 1)) = Limit
          /\ \A k \in 1..Limit : SubSeq(both, 2, Limit + 1)[k] = both[k + 1]
      BY <1>1, <1>13, <2>2
    <3>3. v = Limit /\ \A k \in 1..Limit : k + (u + 1 - v) = k + 1
      BY <1>1, <2>2
    <3>4. \A k \in 1..Limit : next[k] = both[k + 1]
      BY <1>15, <3>3
    <3>5. next \in Seq(Messages) /\ Len(next) = Limit
      BY <1>14, <3>3
    <3> DEFINE rest == SubSeq(both, 2, Limit + 1)
    <3>6. \A k \in 1..Limit : next[k] = rest[k]
      BY <3>2, <3>4
    <3>7. next = rest
      <4>1. rest \in Seq(Messages) /\ Len(rest) = Limit
        BY <3>2
      <4> HIDE DEF rest
      <4> QED
        BY <3>5, <3>6, <4>1, SeqEqual
    <3> QED
      BY <3>1, <3>7
  <2> QED
    BY <1>1, <2>1, <2>2
<1> QED
  BY <1>3, <1>12, <1>16 DEF Bounded!Add

\* A caller of Log does not disturb the ring, nor another one.
LEMMA ReaderRing ==
    ASSUME RingInv, NEW r \in Readers,
           UNCHANGED <<ring, pos, writer, unused>>,
           NEW next, reader' = [reader EXCEPT ![r] = next],
           next \in [pc : {"idle", "lock", "scan"}, left : 0..Limit, output : Seq(Messages)],
           Len(next.output) <= Limit,
           next.pc = "scan" =>
             /\ ~Writing
             /\ Len(next.output) = SeenOf(Limit - next.left)
             /\ \A j \in 1..SeenOf(Limit - next.left) : next.output[j] = ring[SlotOf(j)]
    PROVE  RingInv' /\ Chronicle' = Chronicle
<1> USE DEF RingInv
<1>1. Writing' <=> Writing
  BY DEF Writing
<1>2. \A q \in Readers : reader'[q] = next \/ reader'[q] = reader[q]
  BY DEF RingTypeOK
<1>3. ~(Writing' /\ Reading')
  BY <1>1, <1>2 DEF RingTypeOK, Writing, Reading
<1>4. RingTypeOK'
  BY <1>2, <1>3 DEF RingTypeOK
<1>5. Locked'
  BY DEF Locked
<1>6. Used' = Used /\ Chronicle' = Chronicle /\ Filled' /\ \A j : SlotOf(j)' = SlotOf(j)
  BY <1>1, RingStays
<1>7. Scanning'
  <2> SUFFICES ASSUME NEW q \in Readers, reader'[q].pc = "scan"
               PROVE  /\ Len(reader'[q].output) = SeenOf(Passed(q))'
                      /\ \A j \in 1..SeenOf(Passed(q))' : reader'[q].output[j] = ring[SlotOf(j)]
    BY <1>6 DEF Scanning
  <2>1. SeenOf(Passed(q))' = SeenOf(Limit - reader'[q].left)
    BY <1>6 DEF SeenOf, Passed
  <2> QED
    BY <1>2, <2>1 DEF Scanning, Passed
<1> QED
  BY <1>4, <1>5, <1>6, <1>7

LEMMA CallLogRing ==
    ASSUME RingInv, NEW r \in Readers, CallLog(r) \/ EndLog(r)
    PROVE  RingInv' /\ Chronicle' = Chronicle
<1>1. CASE CallLog(r)
  <2>1. PICK next : reader' = [reader EXCEPT ![r] = next] /\ next = [reader[r] EXCEPT !.pc = "lock"]
    BY <1>1 DEF CallLog
  <2>2. next.pc = "lock" /\ next.left = reader[r].left /\ next.output = reader[r].output
    BY <2>1
  <2> QED
    BY <1>1, <2>1, <2>2, ReaderRing DEF CallLog, RingInv, RingTypeOK
<1>2. CASE EndLog(r)
  <2>1. PICK next : reader' = [reader EXCEPT ![r] = next] /\ next = NoRead
    BY <1>2 DEF EndLog
  <2>2. next.pc = "idle" /\ next.left = 0 /\ next.output = <<>>
    BY <2>1 DEF NoRead
  <2>3. next.output \in Seq(Messages) /\ Len(next.output) = 0
    BY <2>2, EmptySeq, Zenon
  <2>4. /\ next \in [pc : {"idle", "lock", "scan"}, left : 0..Limit, output : Seq(Messages)]
        /\ Len(next.output) <= Limit
    BY <2>1, <2>3, RingAssumption DEF NoRead
  <2> QED
    BY <1>2, <2>1, <2>2, <2>4, ReaderRing DEF EndLog
<1> QED
  BY <1>1, <1>2

LEMMA StartLogRing ==
    ASSUME RingInv, NEW r \in Readers, StartLog(r)
    PROVE  RingInv' /\ Chronicle' = Chronicle
<1>1. PICK next : reader' = [reader EXCEPT ![r] = next] /\ next = [pc |-> "scan", left |-> Limit, output |-> <<>>]
  BY DEF StartLog
<1>2. next.pc = "scan" /\ next.left = Limit /\ next.output = <<>> /\ ~Writing
  BY <1>1 DEF StartLog
<1>3. next.output \in Seq(Messages) /\ Len(next.output) = 0
  BY <1>2, EmptySeq, Zenon
<1>4. Limit \in Nat /\ Limit - next.left = 0 /\ SeenOf(0) = 0
  BY <1>2, RingAssumption DEF SeenOf
<1>5. /\ next \in [pc : {"idle", "lock", "scan"}, left : 0..Limit, output : Seq(Messages)]
      /\ Len(next.output) <= Limit
  BY <1>1, <1>3, <1>4
<1>6. /\ Len(next.output) = SeenOf(Limit - next.left)
      /\ \A j \in 1..SeenOf(Limit - next.left) : next.output[j] = ring[SlotOf(j)]
  BY <1>3, <1>4
<1>7. next.pc = "scan" =>
        /\ ~Writing
        /\ Len(next.output) = SeenOf(Limit - next.left)
        /\ \A j \in 1..SeenOf(Limit - next.left) : next.output[j] = ring[SlotOf(j)]
  BY <1>2, <1>6
<1>8. UNCHANGED <<ring, pos, writer, unused>>
  BY DEF StartLog
<1> QED
  BY <1>1, <1>5, <1>7, <1>8, ReaderRing, Zenon

LEMMA ScanRing ==
    ASSUME RingInv, NEW r \in Readers, Scan(r)
    PROVE  RingInv' /\ Chronicle' = Chronicle
<1> USE DEF RingInv
<1>1. Limit \in Nat /\ Limit > 0 /\ pos \in 0..Limit - 1 /\ 0 \in Slots /\ pos \in Slots
  BY RingAssumption DEF RingTypeOK, Slots
<1>2. PICK n \in 0..Limit - 1 : n = Passed(r)
  BY <1>1 DEF Scan, RingTypeOK, Passed
<1>3. reader[r].pc = "scan" /\ ~Writing /\ reader[r].left = Limit - n /\ Scanned(r) = (pos + n) % Limit
  BY <1>1, <1>2 DEF Scan, RingTypeOK, Writing, Reading, Passed, Scanned
<1> PICK u \in 0..Limit, output \in Seq(Messages) : u = Used /\ output = reader[r].output
  BY UsedFacts DEF RingTypeOK
<1> PICK m : m = ring[Scanned(r)]
  OBVIOUS
<1>4. PICK next : /\ reader' = [reader EXCEPT ![r] = next]
                  /\ next = [pc |-> "scan", left |-> Limit - n - 1, output |-> IF m = Nil THEN output ELSE Append(output, m)]
  <2>1. reader' = [reader EXCEPT ![r].left = @ - 1, ![r].output = IF m = Nil THEN @ ELSE Append(@, m)]
    BY DEF Scan
  <2>2. /\ reader[r] \in [pc : {"idle", "lock", "scan"}, left : 0..Limit, output : Seq(Messages)]
        /\ r \in DOMAIN reader
    BY DEF RingTypeOK
  <2>3. reader[r] = [pc |-> reader[r].pc, left |-> reader[r].left, output |-> reader[r].output]
    BY <2>2
  <2>4. PICK next : /\ next = [reader[r] EXCEPT !.left = @ - 1, !.output = IF m = Nil THEN @ ELSE Append(@, m)]
                    /\ reader' = [reader EXCEPT ![r] = next]
    BY <2>1, <2>2
  <2>5. next = [pc |-> reader[r].pc, left |-> reader[r].left - 1,
                output |-> IF m = Nil THEN reader[r].output ELSE Append(reader[r].output, m)]
    BY <2>3, <2>4
  <2> QED
    BY <1>1, <1>2, <1>3, <2>4, <2>5
<1>5. PICK x \in Nat : x = pos + n /\ x < 2 * Limit
  BY <1>1, <1>2
<1>6. Scanned(r) = IF x < Limit THEN x ELSE x - Limit
  BY <1>3, <1>5, Wrap
<1>7. Scanned(r) \in Slots
  BY <1>1, <1>5, <1>6 DEF Slots
<1>8. m # Nil <=> IF n = 0 THEN u > 0 ELSE n > Limit - u
  <2>1. m # Nil <=> (ring[0] # Nil \/ Scanned(r) \in 1..u)
    BY <1>7 DEF Filled
  <2>2. CASE ring[0] # Nil
    BY <1>1, <1>2, <2>1, <2>2 DEF Used
  <2>3. CASE ring[0] = Nil
    <3>1. u = pos
      BY <1>3, <2>3 DEF Used
    <3> QED
      BY <1>1, <1>2, <1>5, <1>6, <2>1, <2>3, <3>1
  <2> QED
    BY <2>2, <2>3
<1>9. m \in Messages \cup {Nil}
  BY <1>7 DEF RingTypeOK
<1> DEFINE seen == IF n = 0 \/ u = 0 THEN 0 ELSE IF n <= Limit - u + 1 THEN 1 ELSE n - (Limit - u)
<1>10. Len(output) = seen /\ \A j \in 1..seen : output[j] = ring[SlotOf(j)]
  BY <1>2, <1>3 DEF Scanning, SeenOf
<1>11. seen \in 0..Limit - 1
  BY <1>1, <1>2
<1>12. SeenOf(n + 1) = IF m = Nil THEN seen ELSE seen + 1
  BY <1>1, <1>2, <1>8 DEF SeenOf
<1>13. m # Nil => SlotOf(seen + 1) = Scanned(r)
  BY <1>1, <1>3, <1>5, <1>6, <1>8 DEF SlotOf
<1>16. UNCHANGED <<ring, pos, writer, unused>>
  BY DEF Scan
<1>14. CASE m = Nil
  <2>1. next.pc = "scan" /\ next.left = Limit - n - 1 /\ next.output = output
    BY <1>4, <1>14
  <2>2. Limit - next.left = n + 1 /\ next.left \in 0..Limit /\ SeenOf(n + 1) = seen /\ Len(output) <= Limit
    BY <1>1, <1>2, <1>10, <1>11, <1>12, <1>14, <2>1
  <2>3. next \in [pc : {"idle", "lock", "scan"}, left : 0..Limit, output : Seq(Messages)]
    BY <1>4, <1>14, <2>1, <2>2
  <2>4. /\ Len(next.output) = SeenOf(Limit - next.left)
        /\ \A j \in 1..SeenOf(Limit - next.left) : next.output[j] = ring[SlotOf(j)]
    <3> HIDE DEF seen
    <3> QED
      BY <1>10, <2>1, <2>2
  <2>8. next.pc = "scan" =>
          /\ ~Writing
          /\ Len(next.output) = SeenOf(Limit - next.left)
          /\ \A j \in 1..SeenOf(Limit - next.left) : next.output[j] = ring[SlotOf(j)]
    BY <1>3, <2>4, Zenon
  <2>9. Len(next.output) <= Limit
    BY <2>1, <2>2, Zenon
  <2> QED
    BY <1>4, <1>16, <2>3, <2>8, <2>9, ReaderRing, Zenon
<1>15. CASE m # Nil
  <2>1. next.pc = "scan" /\ next.left = Limit - n - 1 /\ next.output = Append(output, m)
    BY <1>4, <1>15
  <2>2. /\ next.output \in Seq(Messages) /\ Len(next.output) = seen + 1
        /\ \A j \in 1..seen : next.output[j] = output[j]
        /\ next.output[seen + 1] = m
    BY <1>9, <1>10, <1>11, <1>15, <2>1, AppendProperties
  <2>3. ASSUME NEW j \in 1..seen + 1 PROVE next.output[j] = ring[SlotOf(j)]
    <3>1. CASE j = seen + 1
      BY <1>13, <1>15, <2>2, <3>1
    <3>2. CASE j # seen + 1
      <4>1. j \in 1..seen
        BY <1>11, <3>2
      <4> QED
        BY <1>10, <2>2, <4>1
    <3> QED
      BY <3>1, <3>2
  <2>4. Limit - next.left = n + 1 /\ next.left \in 0..Limit
    BY <1>1, <1>2, <2>1
  <2>5. SeenOf(n + 1) = seen + 1 /\ Len(next.output) <= Limit
    BY <1>1, <1>11, <1>12, <1>15, <2>2
  <2>6. next \in [pc : {"idle", "lock", "scan"}, left : 0..Limit, output : Seq(Messages)]
    BY <1>4, <1>15, <2>1, <2>2, <2>4
  <2>7. /\ Len(next.output) = SeenOf(Limit - next.left)
        /\ \A j \in 1..SeenOf(Limit - next.left) : next.output[j] = ring[SlotOf(j)]
    <3> HIDE DEF seen
    <3> QED
      BY <2>2, <2>3, <2>4, <2>5
  <2>8. next.pc = "scan" =>
          /\ ~Writing
          /\ Len(next.output) = SeenOf(Limit - next.left)
          /\ \A j \in 1..SeenOf(Limit - next.left) : next.output[j] = ring[SlotOf(j)]
    BY <1>3, <2>7, Zenon
  <2>9. Len(next.output) <= Limit
    BY <2>1, <2>5, Zenon
  <2> QED
    BY <1>4, <1>16, <2>6, <2>8, <2>9, ReaderRing, Zenon
<1> QED
  BY <1>14, <1>15

\* Every step is one of the log, or leaves the log as it is.
LEMMA RingStep == RingInv /\ [Next]_vars => RingInv' /\ [Bounded!Next]_Chronicle
<1> SUFFICES ASSUME RingInv, [Next]_vars PROVE RingInv' /\ [Bounded!Next]_Chronicle
  OBVIOUS
<1>1. ASSUME NEW w \in Writers, Call(w) \/ LockAndAdvance(w) PROVE RingInv' /\ Chronicle' = Chronicle
  BY <1>1, CallRing, LockAndAdvanceRing
<1>2. ASSUME NEW w \in Writers, Store(w) PROVE RingInv' /\ Bounded!Next
  BY <1>2, StoreRing DEF Bounded!Next
<1>3. ASSUME NEW r \in Readers, CallLog(r) \/ StartLog(r) \/ Scan(r) \/ EndLog(r)
      PROVE  RingInv' /\ Chronicle' = Chronicle
  BY <1>3, CallLogRing, StartLogRing, ScanRing
<1>4. CASE UNCHANGED vars
  <2>1. (Writing' <=> Writing) /\ (Reading' <=> Reading)
    BY <1>4 DEF vars, Writing, Reading
  <2>2. RingTypeOK' /\ Locked'
    BY <1>4, <2>1 DEF vars, RingInv, RingTypeOK, Locked
  <2>3. Scanning'
    BY <1>4, <2>1, RingStays DEF vars, RingInv, Scanning, SeenOf, Passed
  <2> QED
    BY <1>4, <2>1, <2>2, <2>3, RingStays DEF vars, RingInv
<1> QED
  BY <1>1, <1>2, <1>3, <1>4 DEF Next

\* A scan that has passed every slot.
LEMMA RingLog == RingInv => LogIsWhole
<1> SUFFICES ASSUME RingInv, NEW r \in Readers, reader[r].pc = "scan", reader[r].left = 0
             PROVE  reader[r].output = IF Chronicle = <<>> THEN <<>> ELSE <<Last(Chronicle)>> \o Front(Chronicle)
  BY DEF LogIsWhole
<1> USE DEF RingInv
<1>1. Limit \in Nat /\ Limit > 0 /\ pos \in 0..Limit - 1 /\ ~Writing
  BY RingAssumption DEF RingTypeOK, Slots, Reading
<1> PICK u \in 0..Limit, output \in Seq(Messages), log \in Seq(Messages) :
         u = Used /\ output = reader[r].output /\ log = Chronicle
  BY UsedFacts, ChronicleFacts DEF RingTypeOK
<1>2. Len(log) = u /\ \A k \in 1..u : log[k] = ring[SlotAt(k)]
  BY ChronicleFacts
<1>3. SeenOf(Passed(r)) = u
  BY <1>1 DEF SeenOf, Passed
<1>4. Len(output) = u /\ \A j \in 1..u : output[j] = ring[SlotOf(j)]
  BY <1>3 DEF Scanning
<1>5. CASE u = 0
  BY <1>2, <1>4, <1>5
<1>6. CASE u > 0
  <2>1. log # <<>> /\ Last(log) = log[u] /\ Front(log) = SubSeq(log, 1, u - 1)
    BY <1>2, <1>6 DEF Last, Front
  <2>2. SlotAt(u) = pos
    <3>1. PICK x \in Nat : x = pos + Limit /\ x < 2 * Limit
      BY <1>1
    <3> QED
      BY <1>1, <3>1, Wrap DEF SlotAt, Oldest
  <2>3. \A j \in 2..u : SlotAt(j - 1) = SlotOf(j)
    BY <1>1 DEF SlotAt, SlotOf, Oldest
  <2> DEFINE whole == <<Last(log)>> \o Front(log)
  <2>4. whole \in Seq(Messages) /\ Len(whole) = u /\ whole[1] = log[u] /\ \A j \in 2..u : whole[j] = log[j - 1]
    BY <1>1, <1>2, <1>6, <2>1
  <2>5. \A j \in 1..u : output[j] = whole[j]
    <3>1. output[1] = whole[1]
      BY <1>2, <1>4, <1>6, <2>2, <2>4 DEF SlotOf
    <3>2. ASSUME NEW j \in 2..u PROVE output[j] = whole[j]
      <4>1. j \in 1..u /\ j - 1 \in 1..u
        OBVIOUS
      <4> HIDE DEF whole
      <4> QED
        BY <1>2, <1>4, <2>3, <2>4, <4>1
    <3> HIDE DEF whole
    <3>3. \A j \in 1..u : j = 1 \/ j \in 2..u
      OBVIOUS
    <3> QED
      BY <3>1, <3>2, <3>3
  <2>6. output = whole
    <3> HIDE DEF whole
    <3> QED
      BY <1>4, <2>4, <2>5, SeqEqual
  <2> QED
    BY <2>1, <2>6
<1> QED
  BY <1>5, <1>6

-----------------------------------------------------------------------------
(* Sequences, constants and the writers of the driver's variables.          *)

LEMMA AppendFacts ==
    ASSUME NEW S, NEW q \in Seq(S), NEW m \in S
    PROVE  /\ Append(q, m) \in Seq(S) /\ Len(Append(q, m)) = Len(q) + 1
           /\ Append(q, m)[Len(q) + 1] = m
           /\ \A k \in 1..Len(q) : Append(q, m)[k] = q[k]
           /\ ToSet(Append(q, m)) = ToSet(q) \cup {m}
<1>1. /\ Append(q, m) \in Seq(S) /\ Len(Append(q, m)) = Len(q) + 1
      /\ Append(q, m)[Len(q) + 1] = m
      /\ \A k \in 1..Len(q) : Append(q, m)[k] = q[k]
      /\ Len(q) \in Nat /\ DOMAIN q = 1..Len(q)
      /\ DOMAIN Append(q, m) = 1..(Len(q) + 1)
  OBVIOUS
<1>2. \A k : k \in 1..(Len(q) + 1) <=> k \in 1..Len(q) \/ k = Len(q) + 1
  BY <1>1
<1> QED
  BY <1>1, <1>2 DEF ToSet

LEMMA TailFacts ==
    ASSUME NEW S, NEW q \in Seq(S), q # <<>>
    PROVE  /\ Head(q) \in S /\ Head(q) = q[1] /\ 1 \in 1..Len(q)
           /\ Tail(q) \in Seq(S) /\ Len(Tail(q)) = Len(q) - 1
           /\ \A k \in 1..Len(Tail(q)) : k + 1 \in 1..Len(q) /\ Tail(q)[k] = q[k + 1]
           /\ ToSet(q) = ToSet(Tail(q)) \cup {Head(q)}
<1>1. /\ Head(q) \in S /\ Head(q) = q[1] /\ 1 \in 1..Len(q)
      /\ Tail(q) \in Seq(S) /\ Len(Tail(q)) = Len(q) - 1
      /\ Len(q) \in Nat \ {0}
      /\ DOMAIN q = 1..Len(q) /\ DOMAIN Tail(q) = 1..(Len(q) - 1)
  OBVIOUS
<1>2. \A k \in 1..(Len(q) - 1) : k + 1 \in 1..Len(q) /\ Tail(q)[k] = q[k + 1]
  BY <1>1
<1>3. \A k \in 1..Len(q) : k = 1 \/ (k - 1 \in 1..(Len(q) - 1) /\ Tail(q)[k - 1] = q[k])
  BY <1>1
<1>4. ToSet(q) \subseteq ToSet(Tail(q)) \cup {Head(q)}
  <2> SUFFICES ASSUME NEW k \in 1..Len(q) PROVE q[k] \in ToSet(Tail(q)) \cup {Head(q)}
    BY <1>1 DEF ToSet
  <2>1. CASE k = 1
    BY <2>1, <1>1
  <2>2. CASE k # 1
    <3>1. k - 1 \in DOMAIN Tail(q) /\ Tail(q)[k - 1] = q[k]
      BY <2>2, <1>1, <1>3
    <3> QED
      BY <3>1 DEF ToSet
  <2> QED
    BY <2>1, <2>2
<1>5. ToSet(Tail(q)) \cup {Head(q)} \subseteq ToSet(q)
  BY <1>1, <1>2 DEF ToSet
<1> QED
  BY <1>1, <1>2, <1>4, <1>5

LEMMA MessageFacts ==
    /\ \A m : m \in Message <=> \E s \in Senders : \E n \in 1..Bound(s) : m = [from |-> s, n |-> n]
    /\ \A m \in Message : /\ m.from \in Senders /\ m.n \in 1..Bound(m.from)
                          /\ m = [from |-> m.from, n |-> m.n]
                          /\ m.n \in Nat /\ m.n > 0 /\ m # Zero
    /\ \A s \in Senders : Bound(s) \in Nat /\ ChannelOf(s) \in Channels
<1>1. \A s \in Senders : Bound(s) \in Nat /\ ChannelOf(s) \in Channels
  BY RoomAssumption DEF Bound, ChannelOf, Channels
<1>2. \A m : m \in Message <=> \E s \in Senders : \E n \in 1..Bound(s) : m = [from |-> s, n |-> n]
  BY DEF Message, MessagesOf
<1>3. Zero.n = 0
  BY DEF Zero
<1> QED
  BY <1>1, <1>2, <1>3

\* A step of LogNext changes the driver's variables by one of its own actions.
DriverStep ==
    \/ UNCHANGED driverVars
    \/ \E s \in Senders : HasMessage(s) \/ Send(s) \/ SendPanics(s)
    \/ Driver \/ Stop

LEMMA DriverSteps == [LogNext]_logVars => DriverStep
<1> SUFFICES ASSUME [LogNext]_logVars PROVE DriverStep
  OBVIOUS
<1>1. CASE UNCHANGED logVars
  BY <1>1 DEF logVars, DriverStep
<1>2. ASSUME NEW c \in Callers, CallMessage(c) \/ LockAndSend(c) \/ SentAndStore(c) PROVE DriverStep
  BY <1>2 DEF CallMessage, LockAndSend, SentAndStore, DriverStep, Senders
<1>3. ASSUME NEW t \in Tails, Tailing(t) PROVE DriverStep
  BY <1>3 DEF Tailing, DriverStep, Senders
<1>4. ASSUME NEW r \in Readers, Logging(r) PROVE DriverStep
  BY <1>4 DEF Logging, DriverStep
<1>5. CASE Driving
  BY <1>5 DEF Driving, DriverStep
<1> QED
  BY <1>1, <1>2, <1>3, <1>4, <1>5 DEF LogNext

-----------------------------------------------------------------------------
LEMMA InitDInv == DriverInit => DInv
<1> SUFFICES ASSUME DriverInit PROVE DInv
  OBVIOUS
<1> USE DEF DriverInit
<1>1. /\ \A c \in Channels : queue[c] = <<>> /\ Len(queue[c]) = 0
      /\ \A s \in Senders : stored[s] = <<>> /\ Len(stored[s]) = 0 /\ sender[s].n = 0 /\ sender[s].pc = "idle"
      /\ accepted = {} /\ driver.msg = Zero
  OBVIOUS
<1>2. DriverTypeOK
  <2>1. queue \in [Channels -> Seq(Message)] /\ \A c \in Channels : Len(queue[c]) <= Room(c)
    BY <1>1, RoomAssumption DEF Room, Channels
  <2>2. open \in [Channels -> BOOLEAN]
    OBVIOUS
  <2>3. sender \in [Senders -> [pc : {"idle", "send"}, n : Nat]] /\ \A s \in Senders : sender[s].n <= Bound(s)
    BY MessageFacts
  <2>4. stored \in [Senders -> Seq(Nat)]
    OBVIOUS
  <2>5. driver \in [pc : {"off", "select", "post", "sleep"}, msg : Message \cup {Zero}]
    OBVIOUS
  <2>6. lost \in 0..MaxLost
    BY RoomAssumption
  <2> QED
    BY <2>1, <2>2, <2>3, <2>4, <2>5, <2>6 DEF DriverTypeOK
<1> HIDE DEF DriverInit
<1>3. HandEmpty /\ WaitingAccepted /\ Sorted /\ InHandFirst /\ Behind
  BY <1>1 DEF HandEmpty, WaitingAccepted, Sorted, InHandFirst, Behind
<1>4. NoGap
  BY <1>1 DEF NoGap
<1>5. NothingLost /\ InOrder
  BY <1>1 DEF NothingLost, InOrder
<1> QED
  BY <1>2, <1>3, <1>4, <1>5 DEF DInv

LEMMA HasMessageDInv == ASSUME DInv, NEW s \in Senders, HasMessage(s) PROVE DInv'
<1> USE DEF HasMessage
<1>0. /\ sender \in [Senders -> [pc : {"idle", "send"}, n : Nat]]
      /\ sender[s].pc = "idle" /\ sender[s].n < Bound(s) /\ accepted \subseteq Message
      /\ sender' = [sender EXCEPT ![s] = [pc |-> "send", n |-> sender[s].n + 1]]
  BY DEF DInv, DriverTypeOK
<1>1. sender'[s] = [pc |-> "send", n |-> sender[s].n + 1] /\ \A r \in Senders : r # s => sender'[r] = sender[r]
  BY <1>0
<1>2. DriverTypeOK'
  <2>1. sender' \in [Senders -> [pc : {"idle", "send"}, n : Nat]] /\ \A r \in Senders : sender'[r].n <= Bound(r)
    BY <1>0, <1>1, MessageFacts DEF DInv, DriverTypeOK
  <2> QED
    BY <2>1 DEF DInv, DriverTypeOK
<1>3. NoGap'
  <2>1. \A m \in accepted : m.from \in Senders /\ m.n \in Nat
    BY <1>0, MessageFacts
  <2>2. ASSUME NEW m \in accepted
        PROVE  m.n <= sender'[m.from].n /\ (sender'[m.from].pc = "send" => m.n < sender'[m.from].n)
    <3>1. m.n <= sender[m.from].n /\ (sender[m.from].pc = "send" => m.n < sender[m.from].n)
      BY DEF DInv, NoGap
    <3>2. CASE m.from = s
      BY <3>1, <3>2, <2>1, <1>0, <1>1
    <3>3. CASE m.from # s
      BY <3>1, <3>3, <2>1, <1>1
    <3> QED
      BY <3>2, <3>3
  <2>3. \A r \in Senders : open[ChannelOf(r)] =>
          \A n \in 1..sender'[r].n : sender'[r].pc = "idle" \/ n < sender'[r].n =>
              [from |-> r, n |-> n] \in accepted
    BY <1>0, <1>1 DEF DInv, NoGap
  <2> QED
    BY <2>2, <2>3, <1>0, <1>1 DEF DInv, NoGap
<1>4. (HandEmpty /\ WaitingAccepted /\ Sorted /\ InHandFirst /\ Behind /\ NothingLost /\ InOrder)'
  BY DEF DInv, HandEmpty, WaitingAccepted, Sorted, InHandFirst, Behind, NothingLost, InOrder, Waiting
<1> QED
  BY <1>2, <1>3, <1>4 DEF DInv

LEMMA SendPanicsDInv == ASSUME DInv, NEW s \in Senders, SendPanics(s) PROVE DInv'
<1> USE DEF SendPanics
<1>0. /\ sender \in [Senders -> [pc : {"idle", "send"}, n : Nat]]
      /\ sender[s].pc = "send" /\ ~open[ChannelOf(s)] /\ accepted \subseteq Message
  BY DEF DInv, DriverTypeOK
<1>1. sender'[s] = [pc |-> "idle", n |-> sender[s].n] /\ \A r \in Senders : r # s => sender'[r] = sender[r]
  BY <1>0
<1>2. DriverTypeOK'
  <2>1. sender' \in [Senders -> [pc : {"idle", "send"}, n : Nat]] /\ \A r \in Senders : sender'[r].n <= Bound(r)
    BY <1>0, <1>1 DEF DInv, DriverTypeOK
  <2> QED
    BY <2>1 DEF DInv, DriverTypeOK
<1>3. NoGap'
  <2>1. \A m \in accepted : m.from \in Senders /\ m.n \in Nat
    BY <1>0, MessageFacts
  <2>2. ASSUME NEW m \in accepted
        PROVE  m.n <= sender'[m.from].n /\ (sender'[m.from].pc = "send" => m.n < sender'[m.from].n)
    <3>1. m.n <= sender[m.from].n /\ (sender[m.from].pc = "send" => m.n < sender[m.from].n)
      BY DEF DInv, NoGap
    <3>2. CASE m.from = s
      BY <3>1, <3>2, <2>1, <1>0, <1>1
    <3>3. CASE m.from # s
      BY <3>1, <3>3, <2>1, <1>1
    <3> QED
      BY <3>2, <3>3
  <2>3. \A r \in Senders : open[ChannelOf(r)] => r # s
    BY <1>0
  <2> QED
    BY <2>2, <2>3, <1>0, <1>1 DEF DInv, NoGap
<1>4. (HandEmpty /\ WaitingAccepted /\ Sorted /\ InHandFirst /\ Behind /\ NothingLost /\ InOrder)'
  BY DEF DInv, HandEmpty, WaitingAccepted, Sorted, InHandFirst, Behind, NothingLost, InOrder, Waiting
<1> QED
  BY <1>2, <1>3, <1>4 DEF DInv

\* The message joins the end of its channel, behind all that its sender has sent.
LEMMA SendDInv == ASSUME DInv, NEW s \in Senders, Send(s) PROVE DInv'
<1> DEFINE c == ChannelOf(s)
           m == [from |-> s, n |-> sender[s].n]
<1>0. /\ sender \in [Senders -> [pc : {"idle", "send"}, n : Nat]]
      /\ sender[s].pc = "send" /\ open[c] /\ Len(queue[c]) < Room(c) /\ c \in Channels
      /\ queue' = [queue EXCEPT ![c] = Append(queue[c], m)]
      /\ accepted' = accepted \cup {m}
      /\ sender' = [sender EXCEPT ![s].pc = "idle"]
      /\ UNCHANGED <<open, driver, stopping, stored, lost>>
      /\ accepted \subseteq Message /\ sender[s].n \in Nat
  BY MessageFacts DEF Send, HasRoom, DInv, DriverTypeOK
<1>1. sender'[s] = [pc |-> "idle", n |-> sender[s].n] /\ \A r \in Senders : r # s => sender'[r] = sender[r]
  BY <1>0
<1>2. m \in Message /\ m.from = s /\ m.n = sender[s].n /\ m # Zero
  <2>1. sender[s].n > 0 /\ sender[s].n <= Bound(s)
    <3>1. sender[s].n <= Bound(s)
      BY DEF DInv, DriverTypeOK
    <3>2. sender[s].n > 0
      BY <1>0 DEF DInv, NoGap
    <3> QED
      BY <3>1, <3>2
  <2>2. sender[s].n \in 1..Bound(s)
    BY <2>1, <1>0, MessageFacts
  <2>3. m \in Message
    BY <2>2, MessageFacts
  <2> QED
    BY <2>3, MessageFacts
<1> DEFINE q == queue[c]
<1>3. /\ q \in Seq(Message) /\ queue'[c] = Append(q, m)
      /\ \A d \in Channels : d # c => queue'[d] = queue[d]
      /\ Len(q) \in Nat
  <2>1. q \in Seq(Message) /\ queue \in [Channels -> Seq(Message)]
    BY <1>0 DEF DInv, DriverTypeOK
  <2> QED
    BY <2>1, <1>0
<1>4. /\ queue'[c] \in Seq(Message) /\ Len(queue'[c]) = Len(q) + 1
      /\ queue'[c][Len(q) + 1] = m
      /\ \A k \in 1..Len(q) : queue'[c][k] = q[k]
      /\ ToSet(queue'[c]) = ToSet(q) \cup {m}
  BY <1>2, <1>3, AppendFacts
<1>5. \A d \in Channels : \A k \in 1..Len(queue'[d]) :
        \/ k \in 1..Len(queue[d]) /\ queue'[d][k] = queue[d][k]
        \/ d = c /\ k = Len(q) + 1 /\ queue'[d][k] = m
  <2> SUFFICES ASSUME NEW d \in Channels, NEW k \in 1..Len(queue'[d])
               PROVE  \/ k \in 1..Len(queue[d]) /\ queue'[d][k] = queue[d][k]
                      \/ d = c /\ k = Len(q) + 1 /\ queue'[d][k] = m
    OBVIOUS
  <2>1. CASE d = c
    BY <2>1, <1>3, <1>4
  <2>2. CASE d # c
    BY <2>2, <1>3
  <2> QED
    BY <2>1, <2>2
<1>6. \A x \in accepted : x.from = s => x.n < m.n
  BY <1>0, <1>2, MessageFacts DEF DInv, NoGap
<1>7. \A d \in Channels : \A k \in 1..Len(queue[d]) :
        queue[d][k] \in accepted /\ ChannelOf(queue[d][k].from) = d
  BY DEF DInv, WaitingAccepted
<1> HIDE DEF c, m, q
<1>8. DriverTypeOK'
  <2>1. queue' \in [Channels -> Seq(Message)]
    BY <1>0, <1>4 DEF DInv, DriverTypeOK
  <2>2. ASSUME NEW d \in Channels PROVE Len(queue'[d]) <= Room(d)
    <3>1. Room(c) \in Nat
      BY RoomAssumption DEF Room
    <3>2. CASE d = c
      BY <3>1, <3>2, <1>0, <1>3, <1>4 DEF q
    <3>3. CASE d # c
      BY <3>3, <1>3 DEF DInv, DriverTypeOK
    <3> QED
      BY <3>2, <3>3
  <2>3. sender' \in [Senders -> [pc : {"idle", "send"}, n : Nat]] /\ \A r \in Senders : sender'[r].n <= Bound(r)
    BY <1>0, <1>1 DEF DInv, DriverTypeOK
  <2>4. accepted' \subseteq Message
    BY <1>0, <1>2
  <2> QED
    BY <2>1, <2>2, <2>3, <2>4, <1>0 DEF DInv, DriverTypeOK
<1>9. HandEmpty'
  BY <1>0 DEF DInv, HandEmpty
<1>10. WaitingAccepted'
  <2>1. ChannelOf(m.from) = c
    BY <1>2 DEF c
  <2> QED
    BY <2>1, <1>0, <1>5, <1>7 DEF DInv, WaitingAccepted
<1>11. NoGap'
  <2>1. \A x \in accepted : x.from \in Senders /\ x.n \in Nat
    BY <1>0, MessageFacts
  <2>2. ASSUME NEW x \in accepted'
        PROVE  /\ x.n <= sender'[x.from].n /\ (sender'[x.from].pc = "send" => x.n < sender'[x.from].n)
               /\ x.n > 1 => [from |-> x.from, n |-> x.n - 1] \in accepted'
    <3>1. CASE x \in accepted
      <4>1. /\ x.n <= sender[x.from].n /\ (sender[x.from].pc = "send" => x.n < sender[x.from].n)
            /\ x.n > 1 => [from |-> x.from, n |-> x.n - 1] \in accepted
        BY <3>1 DEF DInv, NoGap
      <4>2. sender'[x.from].n = sender[x.from].n /\ (sender'[x.from].pc = "send" => sender[x.from].pc = "send")
        BY <3>1, <2>1, <1>1
      <4> QED
        BY <4>1, <4>2, <1>0
    <3>2. CASE x = m
      <4>1. \A n \in 1..sender[s].n : n < sender[s].n => [from |-> s, n |-> n] \in accepted
        BY <1>0 DEF DInv, NoGap, c
      <4>2. m.n > 1 => m.n - 1 \in 1..sender[s].n /\ m.n - 1 < sender[s].n
        BY <1>0, <1>2
      <4>3. x.n > 1 => [from |-> x.from, n |-> x.n - 1] \in accepted'
        BY <4>1, <4>2, <3>2, <1>0, <1>2
      <4> QED
        BY <4>3, <3>2, <1>0, <1>1, <1>2
    <3> QED
      BY <3>1, <3>2, <1>0
  <2>3. ASSUME NEW r \in Senders, open[ChannelOf(r)], NEW n \in 1..sender'[r].n,
               sender'[r].pc = "idle" \/ n < sender'[r].n
        PROVE  [from |-> r, n |-> n] \in accepted'
    <3>1. CASE r = s /\ n = sender[s].n
      BY <3>1, <1>0 DEF m
    <3>2. CASE ~(r = s /\ n = sender[s].n)
      <4>1. n \in 1..sender[r].n /\ (sender[r].pc = "idle" \/ n < sender[r].n)
        BY <3>2, <2>3, <1>0, <1>1
      <4> QED
        BY <4>1, <2>3, <1>0 DEF DInv, NoGap
    <3> QED
      BY <3>1, <3>2
  <2>4. \A r \in Senders : sender'[r].pc = "send" => sender'[r].n > 0
    BY <1>1 DEF DInv, NoGap
  <2> QED
    BY <2>2, <2>3, <2>4, <1>0 DEF NoGap
<1>12. Sorted'
  <2> SUFFICES ASSUME NEW d \in Channels, NEW j \in 1..Len(queue'[d]), NEW k \in 1..Len(queue'[d]),
                      j < k, queue'[d][j].from = queue'[d][k].from
               PROVE  queue'[d][j].n < queue'[d][k].n
    BY DEF Sorted
  <2>1. j \in 1..Len(queue[d]) /\ queue'[d][j] = queue[d][j]
    BY <1>3, <1>4, <1>5
  <2>2. CASE k \in 1..Len(queue[d]) /\ queue'[d][k] = queue[d][k]
    BY <2>1, <2>2 DEF DInv, Sorted
  <2>3. CASE queue'[d][k] = m
    BY <2>1, <2>3, <1>2, <1>6, <1>7
  <2> QED
    BY <2>2, <2>3, <1>5
<1>13. InHandFirst'
  BY <1>0, <1>2, <1>5, <1>6 DEF DInv, InHandFirst, WaitingAccepted
<1>14. Behind'
  <2>1. ASSUME NEW i \in 1..Len(stored[s]) PROVE stored[s][i] < m.n
    <3>1. [from |-> s, n |-> stored[s][i]] \in accepted
      BY DEF DInv, WaitingAccepted
    <3> QED
      BY <3>1, <1>6
  <2> SUFFICES ASSUME NEW r \in Senders, NEW i \in 1..Len(stored[r])
               PROVE  /\ \A d \in Channels : \A k \in 1..Len(queue'[d]) :
                           queue'[d][k].from = r => stored[r][i] < queue'[d][k].n
                      /\ driver.msg # Zero /\ driver.msg.from = r => stored[r][i] <= driver.msg.n
                      /\ \A j \in 1..Len(stored[r]) : i <= j => stored[r][i] <= stored[r][j]
    BY <1>0 DEF Behind
  <2>2. /\ \A d \in Channels : \A k \in 1..Len(queue[d]) :
             queue[d][k].from = r => stored[r][i] < queue[d][k].n
        /\ driver.msg # Zero /\ driver.msg.from = r => stored[r][i] <= driver.msg.n
        /\ \A j \in 1..Len(stored[r]) : i <= j => stored[r][i] <= stored[r][j]
    BY DEF DInv, Behind
  <2> QED
    BY <2>1, <2>2, <1>2, <1>5
<1>15. NothingLost'
  <2>1. Waiting' = Waiting \cup {m}
    BY <1>0, <1>3, <1>4 DEF Waiting, Channels, q
  <2> QED
    BY <2>1, <1>0 DEF DInv, NothingLost
<1>16. InOrder'
  BY <1>0 DEF DInv, InOrder
<1> QED
  BY <1>8, <1>9, <1>10, <1>11, <1>12, <1>13, <1>14, <1>15, <1>16 DEF DInv

\* Nothing is lost, and nothing said twice, when the driver's goroutine moves a message
\* from a channel to its hand.
LEMMA ReceiveDInv == ASSUME DInv, NEW c \in Channels, Receive(c) PROVE DInv'
<1> DEFINE q == queue[c]
<1>0. /\ driver.msg = Zero /\ driver.pc = "select"
      /\ driver' = [pc |-> "post", msg |-> IF q = <<>> THEN Zero ELSE Head(q)]
      /\ queue' = [queue EXCEPT ![c] = IF q = <<>> THEN q ELSE Tail(q)]
      /\ UNCHANGED <<open, sender, stopping, accepted, stored, lost>>
      /\ q \in Seq(Message) /\ queue \in [Channels -> Seq(Message)]
  BY DEF Receive, DInv, HandEmpty, DriverTypeOK
<1>1. CASE q = <<>>
  <2>1. queue' = queue /\ driver' = [pc |-> "post", msg |-> Zero]
    BY <1>0, <1>1
  <2>2. DriverTypeOK'
    BY <2>1, <1>0 DEF DInv, DriverTypeOK
  <2>3. NoGap'
    BY <1>0 DEF DInv, NoGap
  <2>4. driver'.msg = driver.msg /\ driver'.pc = "post"
    BY <2>1, <1>0
  <2>5. (HandEmpty /\ WaitingAccepted /\ Sorted /\ InHandFirst /\ Behind /\ NothingLost /\ InOrder)'
    BY <1>0, <2>1, <2>4 DEF DInv, HandEmpty, WaitingAccepted, Sorted, InHandFirst, Behind, NothingLost, InOrder, Waiting
  <2> QED
    BY <2>2, <2>3, <2>5 DEF DInv
<1>2. CASE q # <<>>
  <2>1. /\ Head(q) \in Message /\ Head(q) = q[1] /\ 1 \in 1..Len(q)
        /\ Tail(q) \in Seq(Message) /\ Len(Tail(q)) = Len(q) - 1
        /\ \A k \in 1..Len(Tail(q)) : k + 1 \in 1..Len(q) /\ Tail(q)[k] = q[k + 1]
        /\ ToSet(q) = ToSet(Tail(q)) \cup {Head(q)}
    BY <1>0, <1>2, TailFacts
  <2>2. /\ queue'[c] = Tail(q) /\ \A d \in Channels : d # c => queue'[d] = queue[d]
        /\ driver'.pc = "post" /\ driver'.msg = q[1] /\ driver'.msg # Zero /\ q[1] \in Message
    BY <1>0, <1>2, <2>1, MessageFacts
  <2>3. \A d \in Channels : \A k \in 1..Len(queue'[d]) :
          \E l \in 1..Len(queue[d]) : /\ queue'[d][k] = queue[d][l]
                                      /\ l = IF d = c THEN k + 1 ELSE k
    BY <2>1, <2>2
  <2>4. q[1] \in accepted /\ ChannelOf(q[1].from) = c
    BY <2>1 DEF DInv, WaitingAccepted
  <2>5. Len(q) \in Nat
    BY <1>0
  <2>6. DriverTypeOK'
    <3>1. queue' \in [Channels -> Seq(Message)]
      BY <1>0, <1>2, <2>1
    <3>2. \A d \in Channels : Len(queue'[d]) <= Room(d)
      BY <2>1, <2>2, <2>5, RoomAssumption DEF DInv, DriverTypeOK, Room
    <3> QED
      BY <3>1, <3>2, <1>0, <2>1, <1>2 DEF DInv, DriverTypeOK
  <2>7. HandEmpty' /\ NoGap'
    BY <2>2, <1>0 DEF DInv, HandEmpty, NoGap
  <2>8. WaitingAccepted'
    BY <2>2, <2>3, <2>4, <1>0 DEF DInv, WaitingAccepted
  <2>9. Sorted'
    <3> SUFFICES ASSUME NEW d \in Channels, NEW j \in 1..Len(queue'[d]), NEW k \in 1..Len(queue'[d]),
                        j < k, queue'[d][j].from = queue'[d][k].from
                 PROVE  queue'[d][j].n < queue'[d][k].n
      BY DEF Sorted
    <3>1. PICK i, l \in 1..Len(queue[d]) :
            queue'[d][j] = queue[d][i] /\ queue'[d][k] = queue[d][l] /\ i < l
      BY <2>3
    <3> QED
      BY <3>1 DEF DInv, Sorted
  <2>10. InHandFirst'
    <3> SUFFICES ASSUME NEW d \in Channels, NEW k \in 1..Len(queue'[d]), queue'[d][k].from = q[1].from
                 PROVE  q[1].n < queue'[d][k].n
      BY <2>2 DEF InHandFirst
    <3>1. PICK l \in 1..Len(queue[d]) :
            queue'[d][k] = queue[d][l] /\ l = IF d = c THEN k + 1 ELSE k
      BY <2>3
    <3>2. d = c
      BY <3>1, <2>4 DEF DInv, WaitingAccepted
    <3>3. 1 < l
      BY <3>1, <3>2
    <3> QED
      BY <3>1, <3>2, <3>3, <2>1 DEF DInv, Sorted
  <2>11. Behind'
    <3> SUFFICES ASSUME NEW r \in Senders, NEW i \in 1..Len(stored[r])
                 PROVE  /\ \A d \in Channels : \A k \in 1..Len(queue'[d]) :
                             queue'[d][k].from = r => stored[r][i] < queue'[d][k].n
                        /\ q[1].from = r => stored[r][i] <= q[1].n
                        /\ \A j \in 1..Len(stored[r]) : i <= j => stored[r][i] <= stored[r][j]
      <4>1. stored' = stored /\ driver'.msg = q[1]
        BY <1>0, <2>2
      <4> HIDE DEF q
      <4> QED
        BY <4>1 DEF Behind
    <3>1. /\ \A d \in Channels : \A k \in 1..Len(queue[d]) :
               queue[d][k].from = r => stored[r][i] < queue[d][k].n
          /\ \A j \in 1..Len(stored[r]) : i <= j => stored[r][i] <= stored[r][j]
      BY DEF DInv, Behind
    <3>2. q[1].from = r => stored[r][i] < q[1].n
      BY <3>1, <2>1
    <3>3. stored[r] \in Seq(Nat)
      BY DEF DInv, DriverTypeOK
    <3>4. stored[r][i] \in Nat /\ q[1].n \in Nat
      BY <3>3, <2>2, MessageFacts
    <3>5. q[1].from = r => stored[r][i] <= q[1].n
      BY <3>2, <3>4
    <3>6. ASSUME NEW d \in Channels, NEW k \in 1..Len(queue'[d]), queue'[d][k].from = r
          PROVE  stored[r][i] < queue'[d][k].n
      BY <3>1, <3>6, <2>3
    <3> QED
      BY <3>1, <3>5, <3>6
  <2>12. NothingLost'
    <3>1. Waiting' = Waiting
      BY <2>1, <2>2, <1>0 DEF Waiting, Channels
    <3> QED
      BY <3>1, <1>0 DEF DInv, NothingLost
  <2>13. InOrder'
    BY <1>0 DEF DInv, InOrder
  <2> QED
    BY <2>6, <2>7, <2>8, <2>9, <2>10, <2>11, <2>12, <2>13 DEF DInv
<1> QED
  BY <1>1, <1>2

\* A number that no element exceeds, with its predecessor among the elements, is the
\* last element or the one after it.
LEMMA NextNumber ==
    ASSUME NEW q \in Seq(Nat), NEW n \in Nat, n > 0,
           \A i \in 1..Len(q) : q[i] <= n /\ q[i] <= q[Len(q)],
           n > 1 => \E i \in 1..Len(q) : q[i] = n - 1
    PROVE  n \in {IF Len(q) = 0 THEN 0 ELSE q[Len(q)], (IF Len(q) = 0 THEN 0 ELSE q[Len(q)]) + 1} \ {0}
<1>1. Len(q) \in Nat /\ \A i \in 1..Len(q) : q[i] \in Nat
  OBVIOUS
<1>2. CASE Len(q) = 0
  BY <1>1, <1>2
<1>3. CASE Len(q) # 0
  <2>1. PICK k \in 1..Len(q) : k = Len(q)
    BY <1>1, <1>3
  <2>2. PICK a \in Nat : a = q[Len(q)]
    BY <1>1, <2>1
  <2>3. a <= n /\ (n > 1 => n - 1 <= a)
    BY <1>1, <2>1, <2>2
  <2>4. n \in {a, a + 1} \ {0}
    BY <2>3
  <2> QED
    BY <2>2, <2>4, <1>3
<1> QED
  BY <1>2, <1>3

\* The message in hand is the next one of its sender, or the one that was stored last.
LEMMA InHandIsNext ==
    ASSUME DInv, driver.msg # Zero, NEW q, q = stored[driver.msg.from]
    PROVE  driver.msg.n \in {IF Len(q) = 0 THEN 0 ELSE q[Len(q)], (IF Len(q) = 0 THEN 0 ELSE q[Len(q)]) + 1} \ {0}
<1> PICK s, n : s = driver.msg.from /\ n = driver.msg.n
  OBVIOUS
<1>1. driver.msg \in Message /\ driver.msg \in accepted /\ s \in Senders /\ n \in Nat /\ n > 0
  BY MessageFacts DEF DInv, DriverTypeOK, WaitingAccepted
<1>2. q \in Seq(Nat)
  BY <1>1 DEF DInv, DriverTypeOK
<1>3. Len(q) \in Nat /\ DOMAIN q = 1..Len(q)
  BY <1>2
<1>4. ASSUME NEW i \in 1..Len(q) PROVE q[i] <= n /\ q[i] <= q[Len(q)]
  <2>1. Len(q) \in 1..Len(q) /\ i <= Len(q)
    BY <1>3
  <2> QED
    BY <2>1, <1>1 DEF DInv, Behind
<1>5. ASSUME n > 1 PROVE \E i \in 1..Len(q) : q[i] = n - 1
  <2> DEFINE p == [from |-> s, n |-> n - 1]
  <2>1. p \in accepted
    BY <1>1, <1>5 DEF DInv, NoGap
  <2>2. p # driver.msg
    BY <1>1
  <2>3. \A c \in Channels : p \notin ToSet(queue[c])
    <3> SUFFICES ASSUME NEW c \in Channels, p \in ToSet(queue[c]) PROVE FALSE
      OBVIOUS
    <3>1. PICK i \in 1..Len(queue[c]) : queue[c][i] = p
      BY DEF ToSet, DInv, DriverTypeOK
    <3>2. n < n - 1
      BY <3>1 DEF DInv, InHandFirst
    <3> QED
      BY <3>2, <1>1
  <2>4. p \notin Waiting
    BY <2>2, <2>3 DEF Waiting, Channels
  <2>5. p.n \in ToSet(stored[p.from])
    BY <2>1, <2>4 DEF DInv, NothingLost
  <2>6. n - 1 \in ToSet(q)
    BY <2>5
  <2> QED
    BY <2>6, <1>3 DEF ToSet
<1> QED
  BY <1>1, <1>2, <1>4, <1>5, NextNumber

\* Logstash stores the message in hand: all that is said of what is stored stays true
\* while the driver holds the message, for which the request may be repeated.
LEMMA StoredInv ==
    ASSUME DInv, driver.msg # Zero, StoreAtLogstash(driver.msg),
           UNCHANGED <<queue, open, sender, stopping, accepted>>
    PROVE  /\ stored' \in [Senders -> Seq(Nat)]
           /\ \A s \in Senders : \A i \in 1..Len(stored'[s]) :
                [from |-> s, n |-> stored'[s][i]] \in accepted
           /\ \A s \in Senders : \A i \in 1..Len(stored'[s]) :
                /\ \A c \in Channels : \A k \in 1..Len(queue[c]) :
                     queue[c][k].from = s => stored'[s][i] < queue[c][k].n
                /\ driver.msg.from = s => stored'[s][i] <= driver.msg.n
                /\ \A j \in 1..Len(stored'[s]) : i <= j => stored'[s][i] <= stored'[s][j]
           /\ driver.msg.n \in ToSet(stored'[driver.msg.from])
           /\ \A s \in Senders : ToSet(stored[s]) \subseteq ToSet(stored'[s])
           /\ InOrder'
<1> PICK s, n : s = driver.msg.from /\ n = driver.msg.n
  OBVIOUS
<1> PICK q : q = stored[s]
  OBVIOUS
<1>1. /\ driver.msg \in Message /\ driver.msg \in accepted /\ s \in Senders /\ n \in Nat
      /\ driver.msg = [from |-> s, n |-> n]
  BY MessageFacts DEF DInv, DriverTypeOK, WaitingAccepted
<1>2. stored \in [Senders -> Seq(Nat)] /\ q \in Seq(Nat) /\ Len(q) \in Nat
  BY <1>1 DEF DInv, DriverTypeOK
<1>3. stored' = [stored EXCEPT ![s] = Append(q, n)]
  BY DEF StoreAtLogstash
<1>4. stored'[s] = Append(q, n) /\ \A r \in Senders : r # s => stored'[r] = stored[r]
  BY <1>1, <1>2, <1>3
<1>5. /\ stored'[s] \in Seq(Nat) /\ Len(stored'[s]) = Len(q) + 1
      /\ stored'[s][Len(q) + 1] = n
      /\ \A k \in 1..Len(q) : stored'[s][k] = q[k]
      /\ ToSet(stored'[s]) = ToSet(q) \cup {n}
  <2> PICK S : S = Nat
    OBVIOUS
  <2>1. q \in Seq(S) /\ n \in S
    BY <1>1, <1>2
  <2>2. /\ Append(q, n) \in Seq(S) /\ Len(Append(q, n)) = Len(q) + 1
        /\ Append(q, n)[Len(q) + 1] = n
        /\ \A k \in 1..Len(q) : Append(q, n)[k] = q[k]
        /\ ToSet(Append(q, n)) = ToSet(q) \cup {n}
    BY <2>1, AppendFacts
  <2> QED
    BY <2>2, <1>4
<1>6. stored' \in [Senders -> Seq(Nat)]
  BY <1>2, <1>3, <1>4, <1>5
<1>7. \A i \in 1..Len(stored'[s]) : \/ i \in 1..Len(q) /\ stored'[s][i] = q[i]
                                    \/ i = Len(q) + 1 /\ stored'[s][i] = n
  <2>1. \A i \in 1..(Len(q) + 1) : i \in 1..Len(q) \/ i = Len(q) + 1
    BY <1>2
  <2> QED
    BY <2>1, <1>5
<1>8. \A i \in 1..Len(q) : /\ \A c \in Channels : \A k \in 1..Len(queue[c]) :
                                queue[c][k].from = s => q[i] < queue[c][k].n
                           /\ q[i] <= n
                           /\ \A j \in 1..Len(q) : i <= j => q[i] <= q[j]
  BY <1>1 DEF DInv, Behind
<1>9. \A c \in Channels : \A k \in 1..Len(queue[c]) : queue[c][k].from = s => n < queue[c][k].n
  BY DEF DInv, InHandFirst
<1>10. ASSUME NEW r \in Senders, NEW i \in 1..Len(stored'[r])
       PROVE  /\ [from |-> r, n |-> stored'[r][i]] \in accepted
              /\ \A c \in Channels : \A k \in 1..Len(queue[c]) :
                   queue[c][k].from = r => stored'[r][i] < queue[c][k].n
              /\ driver.msg.from = r => stored'[r][i] <= driver.msg.n
              /\ \A j \in 1..Len(stored'[r]) : i <= j => stored'[r][i] <= stored'[r][j]
  <2>1. CASE r # s
    BY <2>1, <1>4 DEF DInv, Behind, WaitingAccepted
  <2>2. CASE r = s
    <3>1. [from |-> r, n |-> stored'[r][i]] \in accepted
      BY <2>2, <1>1, <1>7 DEF DInv, WaitingAccepted
    <3>2. \A c \in Channels : \A k \in 1..Len(queue[c]) :
            queue[c][k].from = r => stored'[r][i] < queue[c][k].n
      BY <2>2, <1>7, <1>8, <1>9
    <3>3. stored'[s][i] <= n
      BY <2>2, <1>1, <1>7, <1>8
    <3>4. ASSUME NEW j \in 1..Len(stored'[s]), i <= j PROVE stored'[s][i] <= stored'[s][j]
      <4>1. CASE stored'[s][j] = n
        BY <3>3, <4>1
      <4>2. CASE j \in 1..Len(q) /\ stored'[s][j] = q[j]
        <5>1. i \in 1..(Len(q) + 1) /\ i <= j /\ j \in 1..Len(q)
          BY <4>2, <3>4, <2>2, <1>5
        <5>2. i \in 1..Len(q)
          BY <5>1, <1>2
        <5>3. stored'[s][i] = q[i]
          BY <5>2, <1>5
        <5> QED
          BY <5>2, <5>3, <4>2, <3>4, <1>8
      <4> QED
        BY <4>1, <4>2, <1>7
    <3> QED
      BY <2>2, <3>1, <3>2, <3>3, <3>4
  <2> QED
    BY <2>1, <2>2
<1>11. n \in ToSet(stored'[s]) /\ \A r \in Senders : ToSet(stored[r]) \subseteq ToSet(stored'[r])
  BY <1>4, <1>5
<1>12. InOrder'
  <2> SUFFICES ASSUME NEW r \in Senders, NEW k \in 1..Len(stored'[r])
               PROVE  stored'[r][k] \in {IF k = 1 THEN 0 ELSE stored'[r][k - 1],
                                         (IF k = 1 THEN 0 ELSE stored'[r][k - 1]) + 1} \ {0}
    BY DEF InOrder
  <2>1. CASE r # s
    BY <2>1, <1>4 DEF DInv, InOrder
  <2>2. CASE r = s /\ k \in 1..Len(q)
    <3>1. q[k] \in {IF k = 1 THEN 0 ELSE q[k - 1], (IF k = 1 THEN 0 ELSE q[k - 1]) + 1} \ {0}
      BY <2>2, <1>1 DEF DInv, InOrder
    <3>2. k = 1 \/ k - 1 \in 1..Len(q)
      BY <2>2, <1>2
    <3>3. stored'[r][k] = q[k] /\ (k = 1 \/ stored'[r][k - 1] = q[k - 1])
      BY <2>2, <3>2, <1>5
    <3> QED
      BY <3>1, <3>3
  <2>3. CASE r = s /\ k = Len(q) + 1
    <3>1. n \in {IF Len(q) = 0 THEN 0 ELSE q[Len(q)], (IF Len(q) = 0 THEN 0 ELSE q[Len(q)]) + 1} \ {0}
      BY InHandIsNext
    <3>2. stored'[r][k] = n /\ k - 1 = Len(q) /\ (k = 1 <=> Len(q) = 0)
      BY <2>3, <1>2, <1>5
    <3>3. Len(q) = 0 \/ stored'[r][Len(q)] = q[Len(q)]
      <4>1. Len(q) = 0 \/ Len(q) \in 1..Len(q)
        BY <1>2
      <4> QED
        BY <4>1, <2>3, <1>5
    <3> QED
      BY <3>1, <3>2, <3>3
  <2> QED
    BY <2>1, <2>2, <2>3, <1>7
<1> QED
  BY <1>6, <1>10, <1>11, <1>12

LEMMA PostSucceedsDInv == ASSUME DInv, PostSucceeds PROVE DInv'
<1>0. /\ driver' = [pc |-> "select", msg |-> Zero] /\ StoreAtLogstash(driver.msg)
      /\ UNCHANGED <<queue, open, sender, stopping, accepted, lost>>
  BY DEF PostSucceeds
<1>1. driver'.msg = Zero /\ driver'.pc = "select"
  BY <1>0
<1>2. NoGap' /\ Sorted' /\ HandEmpty' /\ InHandFirst'
  BY <1>0, <1>1 DEF DInv, NoGap, Sorted, HandEmpty, InHandFirst
<1>3. CASE driver.msg = Zero
  <2>1. stored' = stored /\ driver'.msg = driver.msg
    BY <1>0, <1>1, <1>3 DEF StoreAtLogstash
  <2>2. DriverTypeOK'
    BY <2>1, <1>0 DEF DInv, DriverTypeOK
  <2>3. (WaitingAccepted /\ Behind /\ NothingLost /\ InOrder)'
    BY <2>1, <1>0 DEF DInv, WaitingAccepted, Behind, NothingLost, InOrder, Waiting
  <2> QED
    BY <1>2, <2>2, <2>3 DEF DInv
<1>4. CASE driver.msg # Zero
  <2>1. /\ stored' \in [Senders -> Seq(Nat)]
        /\ \A s \in Senders : \A i \in 1..Len(stored'[s]) :
             [from |-> s, n |-> stored'[s][i]] \in accepted
        /\ \A s \in Senders : \A i \in 1..Len(stored'[s]) :
             /\ \A c \in Channels : \A k \in 1..Len(queue[c]) :
                  queue[c][k].from = s => stored'[s][i] < queue[c][k].n
             /\ \A j \in 1..Len(stored'[s]) : i <= j => stored'[s][i] <= stored'[s][j]
        /\ driver.msg.n \in ToSet(stored'[driver.msg.from])
        /\ \A s \in Senders : ToSet(stored[s]) \subseteq ToSet(stored'[s])
        /\ InOrder'
    BY <1>0, <1>4, StoredInv
  <2>2. DriverTypeOK'
    BY <2>1, <1>0 DEF DInv, DriverTypeOK
  <2>3. WaitingAccepted' /\ Behind'
    BY <2>1, <1>0, <1>1 DEF DInv, WaitingAccepted, Behind
  <2>4. NothingLost'
    <3> SUFFICES ASSUME NEW m \in accepted PROVE m \in Waiting' \/ m.n \in ToSet(stored'[m.from])
      BY <1>0 DEF NothingLost
    <3>1. m.from \in Senders
      BY MessageFacts DEF DInv, DriverTypeOK
    <3>2. m \in Waiting \/ m.n \in ToSet(stored[m.from])
      BY DEF DInv, NothingLost
    <3>3. Waiting \subseteq Waiting' \cup {driver.msg}
      BY <1>0 DEF Waiting
    <3> QED
      BY <2>1, <3>1, <3>2, <3>3
  <2> QED
    BY <1>2, <2>1, <2>2, <2>3, <2>4 DEF DInv
<1> QED
  BY <1>3, <1>4

LEMMA AnswerIsLostDInv == ASSUME DInv, AnswerIsLost PROVE DInv'
<1>0. /\ driver.msg # Zero /\ StoreAtLogstash(driver.msg) /\ lost < MaxLost /\ lost' = lost + 1
      /\ driver' = [driver EXCEPT !.pc = "sleep"]
      /\ UNCHANGED <<queue, open, sender, stopping, accepted>>
  BY DEF AnswerIsLost
<1>1. driver'.msg = driver.msg /\ driver'.pc = "sleep" /\ lost' \in 0..MaxLost
      /\ driver' \in [pc : {"off", "select", "post", "sleep"}, msg : Message \cup {Zero}]
  BY <1>0, RoomAssumption DEF DInv, DriverTypeOK
<1>2. NoGap' /\ Sorted' /\ HandEmpty' /\ InHandFirst'
  BY <1>0, <1>1 DEF DInv, NoGap, Sorted, HandEmpty, InHandFirst
<1>3. /\ stored' \in [Senders -> Seq(Nat)]
      /\ \A s \in Senders : \A i \in 1..Len(stored'[s]) :
           [from |-> s, n |-> stored'[s][i]] \in accepted
      /\ \A s \in Senders : \A i \in 1..Len(stored'[s]) :
           /\ \A c \in Channels : \A k \in 1..Len(queue[c]) :
                queue[c][k].from = s => stored'[s][i] < queue[c][k].n
           /\ driver.msg.from = s => stored'[s][i] <= driver.msg.n
           /\ \A j \in 1..Len(stored'[s]) : i <= j => stored'[s][i] <= stored'[s][j]
      /\ \A s \in Senders : ToSet(stored[s]) \subseteq ToSet(stored'[s])
      /\ InOrder'
  BY <1>0, StoredInv
<1>4. DriverTypeOK'
  BY <1>0, <1>1, <1>3 DEF DInv, DriverTypeOK
<1>5. WaitingAccepted' /\ Behind'
  BY <1>0, <1>1, <1>3 DEF DInv, WaitingAccepted, Behind
<1>6. NothingLost'
  <2> SUFFICES ASSUME NEW m \in accepted PROVE m \in Waiting' \/ m.n \in ToSet(stored'[m.from])
    BY <1>0 DEF NothingLost
  <2>1. m.from \in Senders /\ (m \in Waiting \/ m.n \in ToSet(stored[m.from]))
    BY MessageFacts DEF DInv, DriverTypeOK, NothingLost
  <2>2. Waiting' = Waiting
    BY <1>0, <1>1 DEF Waiting
  <2> QED
    BY <2>1, <2>2, <1>3
<1> QED
  BY <1>2, <1>3, <1>4, <1>5, <1>6 DEF DInv

\* Start, a failed request and the end of its backoff change where the goroutine is.
LEMMA DriverMovesDInv ==
    ASSUME DInv, Start \/ PostFails \/ Retry PROVE DInv'
<1>1. /\ driver'.msg = driver.msg
      /\ driver'.pc \in {"select", "sleep", "post"} /\ (driver'.pc = "select" => driver.pc = "off")
      /\ driver' \in [pc : {"off", "select", "post", "sleep"}, msg : Message \cup {Zero}]
      /\ UNCHANGED <<queue, open, sender, stopping, accepted, stored, lost>>
  BY DEF Start, PostFails, Retry, DInv, DriverTypeOK
<1>2. DriverTypeOK'
  BY <1>1 DEF DInv, DriverTypeOK
<1>3. HandEmpty' /\ NoGap'
  BY <1>1 DEF DInv, HandEmpty, NoGap
<1>4. (WaitingAccepted /\ Sorted /\ InHandFirst /\ Behind /\ NothingLost /\ InOrder)'
  BY <1>1 DEF DInv, WaitingAccepted, Sorted, InHandFirst, Behind, NothingLost, InOrder, Waiting
<1> QED
  BY <1>2, <1>3, <1>4 DEF DInv

\* Stop closes channels; they never open again.
LEMMA StopDInv == ASSUME DInv, Stop PROVE DInv'
<1>1. /\ UNCHANGED <<queue, sender, driver, accepted, stored, lost>>
      /\ open' \in [Channels -> BOOLEAN] /\ \A c \in Channels : open'[c] => open[c]
      /\ stopping' \in {"no", "app", "pb", "wait"}
  BY Zenon DEF Stop, StopRequest, CloseChannel, DInv, DriverTypeOK
<1>2. DriverTypeOK'
  BY <1>1 DEF DInv, DriverTypeOK
<1>3. NoGap'
  BY <1>1, MessageFacts DEF DInv, NoGap
<1>4. (HandEmpty /\ WaitingAccepted /\ Sorted /\ InHandFirst /\ Behind /\ NothingLost /\ InOrder)'
  BY <1>1 DEF DInv, HandEmpty, WaitingAccepted, Sorted, InHandFirst, Behind, NothingLost, InOrder, Waiting
<1> QED
  BY <1>2, <1>3, <1>4 DEF DInv

LEMMA StutterDInv == ASSUME DInv, UNCHANGED driverVars PROVE DInv'
<1>1. UNCHANGED <<queue, open, sender, driver, stopping, accepted, stored, lost>>
  BY DEF driverVars
<1>2. DriverTypeOK'
  BY <1>1 DEF DInv, DriverTypeOK
<1>3. NoGap'
  BY <1>1 DEF DInv, NoGap
<1>4. (HandEmpty /\ WaitingAccepted /\ Sorted /\ InHandFirst /\ Behind /\ NothingLost /\ InOrder)'
  BY <1>1 DEF DInv, HandEmpty, WaitingAccepted, Sorted, InHandFirst, Behind, NothingLost, InOrder, Waiting
<1> QED
  BY <1>2, <1>3, <1>4 DEF DInv

LEMMA NextDInv == DInv /\ [LogNext]_logVars => DInv'
<1> SUFFICES ASSUME DInv, DriverStep PROVE DInv'
  BY DriverSteps
<1>1. CASE UNCHANGED driverVars
  BY <1>1, StutterDInv
<1>2. ASSUME NEW s \in Senders, HasMessage(s) \/ Send(s) \/ SendPanics(s) PROVE DInv'
  BY <1>2, HasMessageDInv, SendDInv, SendPanicsDInv
<1>3. CASE Driver
  BY <1>3, ReceiveDInv, PostSucceedsDInv, AnswerIsLostDInv, DriverMovesDInv DEF Driver
<1>4. CASE Stop
  BY <1>4, StopDInv
<1> QED
  BY <1>1, <1>2, <1>3, <1>4 DEF DriverStep

-----------------------------------------------------------------------------
(* Both together.                                                           *)

\* Who holds the lock of the ring is sending.
Sending == \A c \in Callers : writer[c].pc = "store" <=> sender[c].pc = "send"

\* A step of LogNext changes the ring by one of its own actions.
LEMMA RingSteps == [LogNext]_logVars => [Next]_vars
<1> SUFFICES ASSUME [LogNext]_logVars PROVE [Next]_vars
  OBVIOUS
<1>1. CASE UNCHANGED logVars
  BY <1>1 DEF logVars
<1>2. ASSUME NEW c \in Callers, CallMessage(c) \/ LockAndSend(c) \/ SentAndStore(c) PROVE Next
  BY <1>2, CallersAssumption DEF CallMessage, LockAndSend, SentAndStore, Next
<1>3. ASSUME NEW r \in Readers, Logging(r) PROVE Next
  BY <1>3 DEF Logging, Next
<1>4. ASSUME (\E t \in Tails : Tailing(t)) \/ Driving PROVE UNCHANGED vars
  BY <1>4 DEF Tailing, Driving
<1> QED
  BY <1>1, <1>2, <1>3, <1>4 DEF LogNext

LEMMA SendingStep == RingTypeOK /\ DriverTypeOK /\ Sending /\ [LogNext]_logVars => Sending'
<1> SUFFICES ASSUME RingTypeOK, DriverTypeOK, Sending, [LogNext]_logVars, NEW d \in Callers
             PROVE  (writer[d].pc = "store" <=> sender[d].pc = "send")'
  BY DEF Sending
<1>1. d \in Writers /\ d \in Senders /\ d \notin Tails /\ (writer[d].pc = "store" <=> sender[d].pc = "send")
  BY CallersAssumption, SenderAssumption DEF Sending, Senders
<1>2. CASE UNCHANGED logVars
  BY <1>1, <1>2 DEF logVars, vars, driverVars
<1>3. ASSUME NEW c \in Callers, CallMessage(c) PROVE (writer[d].pc = "store" <=> sender[d].pc = "send")'
  BY <1>1, <1>3, CallersAssumption DEF CallMessage, Call, NoMessage, driverVars, RingTypeOK
<1>4. ASSUME NEW c \in Callers, LockAndSend(c) PROVE (writer[d].pc = "store" <=> sender[d].pc = "send")'
  BY <1>1, <1>4, CallersAssumption DEF LockAndSend, LockAndAdvance, HasMessage, RingTypeOK, DriverTypeOK, Senders
<1>5. ASSUME NEW c \in Callers, SentAndStore(c) PROVE (writer[d].pc = "store" <=> sender[d].pc = "send")'
  BY <1>1, <1>5, CallersAssumption
     DEF SentAndStore, Send, SendPanics, Store, NoMessage, RingTypeOK, DriverTypeOK, Senders
<1>6. ASSUME NEW t \in Tails, Tailing(t) PROVE (writer[d].pc = "store" <=> sender[d].pc = "send")'
  BY <1>1, <1>6 DEF Tailing, HasMessage, Send, SendPanics, vars, DriverTypeOK, Senders
<1>7. ASSUME NEW r \in Readers, Logging(r) PROVE (writer[d].pc = "store" <=> sender[d].pc = "send")'
  BY <1>1, <1>7 DEF Logging, CallLog, StartLog, Scan, EndLog, driverVars
<1>8. CASE Driving
  <2>1. UNCHANGED sender
    BY <1>8 DEF Driving, Driver, Stop, Start, Receive, PostSucceeds, PostFails, AnswerIsLost, Retry,
                StopRequest, CloseChannel
  <2> QED
    BY <1>1, <1>8, <2>1 DEF Driving, vars
<1> QED
  BY <1>2, <1>3, <1>4, <1>5, <1>6, <1>7, <1>8 DEF LogNext

-----------------------------------------------------------------------------
(* Theorems.                                                                *)

\* The invariant of the ring holds, whatever the log driver does to its writers: slots
\* are filled in turn, one writer at a time holds the lock, and a scan has read exactly
\* the messages in the slots it has passed.
THEOREM RingInductive == LogSpec => []RingInv
<1>1. LogInit => RingInv
  BY InitRing DEF LogInit
<1>2. RingInv /\ [LogNext]_logVars => RingInv'
  BY RingSteps, RingStep
<1> QED
  BY <1>1, <1>2, PTL DEF LogSpec

\* For any number of slots, writers and readers: the ring implements the bounded log.
\* Store is the one step that adds a message, and drops the oldest when the ring is full;
\* moving Pos, waiting for the log driver and reading leave the log as it is.
THEOREM LogImplementsBoundedLog == LogSpec => RingIsBoundedLog
<1>1. LogInit => Bounded!Init
  BY InitRing DEF LogInit, Bounded!Init
<1>2. RingInv /\ [LogNext]_logVars => [Bounded!Next]_Chronicle
  BY RingSteps, RingStep
<1> QED
  BY <1>1, <1>2, RingInductive, PTL DEF LogSpec, RingIsBoundedLog, Bounded!Spec

\* For any number of slots, writers and readers: what Log returns is the whole log, as it
\* is at one moment, the newest message first and then the others from the oldest on.
THEOREM LogIsReadWhole == LogSpec => []LogIsWhole
<1>1. RingInv => LogIsWhole
  BY RingLog
<1> QED
  BY <1>1, RingInductive, PTL

\* The invariant of the driver holds, whatever the ring and its callers do.
THEOREM LogInductive == LogSpec => []DInv
<1>1. LogInit => DInv
  BY InitDInv DEF LogInit
<1> QED
  BY <1>1, NextDInv, PTL DEF LogSpec

\* For any channel sizes: no message that a channel accepted is lost, whatever requests
\* fail, and whenever Stop closes the channels.
THEOREM LogNothingLost == LogSpec => []NothingLost
<1>1. DInv => NothingLost
  BY DEF DInv
<1> QED
  BY <1>1, LogInductive, PTL

\* For any number of retries and lost answers: logstash stores the messages of each
\* sender in order and without a gap, a repeated one right after itself.
THEOREM LogInOrder == LogSpec => []InOrder
<1>1. DInv => InOrder
  BY DEF DInv
<1> QED
  BY <1>1, LogInductive, PTL

\* Every variable keeps its type: no channel outgrows its buffer, readers and writers of
\* the ring exclude each other, and who holds its lock is in SendPBMessage.
THEOREM LogTypeOK == LogSpec => []TypeOK
<1>1. LogInit => Sending
  BY CallersAssumption DEF LogInit, Init, DriverInit, Sending, NoMessage, Senders
<1>2. RingInv => RingTypeOK
  BY DEF RingInv
<1>3. DInv => DriverTypeOK
  BY DEF DInv
<1>4. RingTypeOK /\ DriverTypeOK /\ Sending => TypeOK
  BY DEF TypeOK, Sending
<1> QED
  BY <1>1, <1>2, <1>3, <1>4, SendingStep, RingInductive, LogInductive, PTL DEF LogSpec
=============================================================================
