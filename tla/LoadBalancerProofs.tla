-------------------------- MODULE LoadBalancerProofs --------------------------
(***************************************************************************)
(* For any connections, peers and capacity of statChan: a connection is     *)
(* counted and uncounted exactly once, on whatever path it ends, and leaves *)
(* no socket open.                                                          *)
(***************************************************************************)
EXTENDS LoadBalancer, FiniteSetTheorems, FunctionTheorems, TLAPS

Stat == [type : StatTypes, n : {-1, 0, 1}]
AcceptPcs == {"accept", "connError", "count", "pick", "dial", "uncount", "undial", "dialError"}
PipePcs == {"none", "read", "rxChunk", "rxEnd", "rxError", "readError", "closeDst",
            "write", "txChunk", "txError", "writeError", "closeSrc", "end"}
AddrsOK == instances \subseteq Addrs /\ up \subseteq Addrs /\ errors \in 0..MaxErrors
AcceptOK == accept \in [pc : AcceptPcs, conn : SUBSET Conns, dest : SUBSET Addrs]
PipeOK == pipe \in [Conns -> [Sides -> PipePcs]]
CloserOK == closer \in [Conns -> {"none", "waiting", "uncount", "close", "end"}]
OpenOK == open \in [Conns -> SUBSET Sides]
ChanOK == statChan \in Seq(Stat) /\ Len(statChan) <= ChanSize
CountersOK ==
    /\ stats \in [StatTypes \cup {"total"} -> Int] /\ tracker \in {"receive", "total"}
    /\ DOMAIN seen \subseteq Reported /\ \A t \in DOMAIN seen : seen[t] \in Int
ClientOK == client \in [Conns -> {"none", "connecting", "accepted"}]
PeersOK ==
    /\ sent \in [Conns -> SUBSET Sides] /\ fin \in [Conns -> SUBSET Sides] /\ gone \in [Conns -> SUBSET Sides]
    /\ stalled \in [Conns -> SUBSET Sides]
    /\ arrived \in [Conns -> [Sides -> Nat]] /\ got \in [Conns -> [Sides -> Nat]]

\* The accept loop has a connection in hand, which has no goroutines yet, from Accept on
\* until it dials or gives up, and has then closed its socket.
Waiting == {"accept", "connError"}
GivenUp == {"uncount", "undial", "dialError"}
InHand ==
    /\ accept.pc \in Waiting => accept.conn = {}
    /\ accept.pc \notin Waiting => \E c \in Conns : accept.conn = {c}
    /\ \A c \in accept.conn : client[c] = "accepted" /\ closer[c] = "none"
    /\ accept.pc \in GivenUp => \A c \in accept.conn : open[c] = {}

\* Nobody works for a client that was not accepted yet.
NotYet == \A c \in Conns : client[c] # "accepted" => closer[c] = "none"

\* The inductive invariant.
Sockets == AcceptOK /\ CloserOK /\ OpenOK /\ ClientOK /\ InHand /\ NotYet /\ EndedIsClosed
Counters == ChanOK /\ CountersOK /\ ActiveIsCounted
LBInv == AddrsOK /\ PipeOK /\ PeersOK /\ Sockets /\ Counters

-----------------------------------------------------------------------------
(* The statistics on their way.                                             *)

LEMMA SendFacts ==
    ASSUME ChanOK, NEW t \in StatTypes, NEW n \in {-1, 0, 1}, Send(t, n)
    PROVE  /\ ChanOK'
           /\ \A m \in {-1, 1} : /\ Pending(m) \in Nat
                                 /\ Pending(m)' = Pending(m) + IF t = "conn" /\ n = m THEN 1 ELSE 0
<1> PICK q, new, l : q = statChan /\ new = [type |-> t, n |-> n] /\ l = Len(statChan)
  OBVIOUS
<1>1. /\ q \in Seq(Stat) /\ new \in Stat /\ l \in Nat /\ l < ChanSize /\ statChan' = Append(q, new) /\ l = Len(q)
  BY DEF ChanOK, Send, Stat
<1>2. /\ Append(q, new) \in Seq(Stat) /\ Len(Append(q, new)) = l + 1
      /\ DOMAIN q = 1..l /\ DOMAIN Append(q, new) = 1..(l + 1)
      /\ Append(q, new)[l + 1] = new /\ \A k \in 1..l : Append(q, new)[k] = q[k]
  BY <1>1
<1>3. ChanOK'
  BY <1>1, <1>2, SizesAssumption DEF ChanOK
<1>4. ASSUME NEW m \in {-1, 1}
      PROVE  /\ Pending(m) \in Nat
             /\ Pending(m)' = Pending(m) + IF t = "conn" /\ n = m THEN 1 ELSE 0
  <2> PICK x : x = [type |-> "conn", n |-> m]
    OBVIOUS
  <2> PICK K : K = {k \in 1..l : q[k] = x}
    OBVIOUS
  <2>1. Pending(m) = Cardinality(K)
    BY <1>2 DEF Pending
  <2>2. IsFiniteSet(1..l)
    BY <1>1, FS_Interval
  <2>3. IsFiniteSet(K) /\ Cardinality(K) \in Nat
    BY <2>2, FS_Subset, FS_CardinalityType
  <2>4. \A k : k \in 1..(l + 1) <=> k \in 1..l \/ k = l + 1
    BY <1>1
  <2>5. l + 1 \notin K
    BY <1>1
  <2>6. {k \in DOMAIN statChan' : statChan'[k] = x} = IF new = x THEN K \cup {l + 1} ELSE K
    BY <1>1, <1>2, <2>4
  <2>7. Pending(m)' = Cardinality(IF new = x THEN K \cup {l + 1} ELSE K)
    BY <2>6 DEF Pending
  <2>8. new = x <=> t = "conn" /\ n = m
    OBVIOUS
  <2>9. Cardinality(K \cup {l + 1}) = Cardinality(K) + 1
    BY <2>3, <2>5, FS_AddElement
  <2> QED
    BY <2>1, <2>3, <2>7, <2>8, <2>9
<1> QED
  BY <1>3, <1>4

LEMMA ReceiveFacts ==
    ASSUME ChanOK, statChan # <<>>, statChan' = Tail(statChan)
    PROVE  /\ ChanOK' /\ Head(statChan) \in Stat
           /\ \A m \in {-1, 1} : /\ Pending(m)' \in Nat
                                 /\ Pending(m) = Pending(m)' + IF Head(statChan) = [type |-> "conn", n |-> m] THEN 1 ELSE 0
<1> PICK q, l : q = statChan /\ l = Len(statChan)
  OBVIOUS
<1>1. q \in Seq(Stat) /\ l \in Nat /\ l > 0 /\ l <= ChanSize /\ l = Len(q) /\ statChan' = Tail(q)
  BY DEF ChanOK
<1>2. /\ Tail(q) \in Seq(Stat) /\ Len(Tail(q)) = l - 1
      /\ DOMAIN q = 1..l /\ DOMAIN Tail(q) = 1..(l - 1) /\ Head(q) = q[1] /\ Head(q) \in Stat
      /\ \A k \in 1..(l - 1) : Tail(q)[k] = q[k + 1]
  BY <1>1
<1>3. ChanOK'
  BY <1>1, <1>2, SizesAssumption DEF ChanOK
<1>4. ASSUME NEW m \in {-1, 1}
      PROVE  /\ Pending(m)' \in Nat
             /\ Pending(m) = Pending(m)' + IF Head(q) = [type |-> "conn", n |-> m] THEN 1 ELSE 0
  <2> PICK x : x = [type |-> "conn", n |-> m]
    OBVIOUS
  <2> PICK K : K = {k \in 1..(l - 1) : q[k + 1] = x}
    OBVIOUS
  <2> PICK L : L = {k \in 2..l : q[k] = x}
    OBVIOUS
  <2>1. {k \in DOMAIN statChan' : statChan'[k] = x} = K
    BY <1>1, <1>2
  <2>2. Pending(m)' = Cardinality(K)
    BY <2>1 DEF Pending
  <2>3. IsFiniteSet(1..(l - 1)) /\ IsFiniteSet(2..l)
    BY <1>1, FS_Interval
  <2>4. IsFiniteSet(K) /\ Cardinality(K) \in Nat /\ IsFiniteSet(L)
    BY <2>3, FS_Subset, FS_CardinalityType
  <2>5. Cardinality(L) = Cardinality(K)
    <3> PICK F : F = [k \in K |-> k + 1]
      OBVIOUS
    <3>1. \A k \in K : k \in Int /\ k + 1 \in L
      BY <1>1
    <3>2. F \in [K -> L] /\ \A a, b \in K : F[a] = F[b] => a = b
      BY <3>1
    <3>3. \A k \in L : \E j \in K : F[j] = k
      <4> SUFFICES ASSUME NEW k \in L PROVE \E j \in K : F[j] = k
        OBVIOUS
      <4>1. k - 1 \in K /\ F[k - 1] = k
        BY <1>1
      <4> QED
        BY <4>1
    <3>4. F \in Bijection(K, L)
      <4>1. DOMAIN F = K /\ IsInjective(F)
        BY <3>2 DEF IsInjective
      <4> QED
        BY <4>1, <3>2, <3>3, Zenon DEF Bijection, Injection, Surjection
    <3> QED
      BY <3>4, <2>4, FS_Bijection DEF ExistsBijection
  <2>6. 1 \notin L /\ \A k : k \in 1..l <=> k = 1 \/ k \in 2..l
    BY <1>1
  <2>7. {k \in DOMAIN statChan : statChan[k] = x} = IF q[1] = x THEN L \cup {1} ELSE L
    BY <1>2, <2>6
  <2>8. Pending(m) = Cardinality(IF q[1] = x THEN L \cup {1} ELSE L)
    BY <2>7 DEF Pending
  <2>9. Cardinality(L \cup {1}) = Cardinality(L) + 1
    BY <2>4, <2>6, FS_AddElement
  <2> QED
    BY <1>2, <2>2, <2>4, <2>5, <2>8, <2>9
<1> QED
  BY <1>2, <1>3, <1>4

\* The active connections, when trackStats has taken in what waits for it.
Balance == stats["conn"] + Pending(1) - Pending(-1)

LEMMA SendBalance ==
    ASSUME ChanOK, CountersOK, NEW t \in StatTypes, NEW n \in {-1, 0, 1}, Send(t, n), UNCHANGED counters
    PROVE  ChanOK' /\ CountersOK' /\ Balance' = Balance + IF t = "conn" THEN n ELSE 0
<1>1. stats["conn"] \in Int
  BY DEF CountersOK, StatTypes
<1>2. /\ ChanOK' /\ Pending(1) \in Nat /\ Pending(-1) \in Nat
      /\ Pending(1)' = Pending(1) + IF t = "conn" /\ n = 1 THEN 1 ELSE 0
      /\ Pending(-1)' = Pending(-1) + IF t = "conn" /\ n = -1 THEN 1 ELSE 0
  BY SendFacts
<1> QED
  BY <1>1, <1>2 DEF CountersOK, Balance, counters

\* The counters, one by one.
LEMMA CountFacts ==
    ASSUME CountersOK, NEW s \in Stat
    PROVE  /\ Count(s) \in [StatTypes \cup {"total"} -> Int]
           /\ \A t \in {"conn", "total", "rx", "tx"} :
                /\ stats[t] \in Int
                /\ Count(s)[t] = stats[t] + IF t = s.type THEN s.n ELSE 0
<1>1. /\ stats \in [StatTypes \cup {"total"} -> Int] /\ s.type \in StatTypes /\ s.n \in Int
      /\ {"conn", "rx", "tx"} \subseteq StatTypes
  BY DEF CountersOK, Stat, StatTypes
<1> PICK d : d = IF s.type \in {"rx", "tx", "conn"} THEN s.n ELSE 1
  OBVIOUS
<1>2. d \in Int /\ Count(s) = [stats EXCEPT ![s.type] = stats[s.type] + d]
  BY <1>1 DEF Count
<1>3. \A t \in StatTypes \cup {"total"} : stats[t] \in Int /\ Count(s)[t] = IF t = s.type THEN stats[t] + d ELSE stats[t]
  BY <1>1, <1>2
<1>4. "total" \notin StatTypes
  BY DEF StatTypes
<1> QED
  BY <1>1, <1>2, <1>3, <1>4

LEMMA TrackBalance ==
    ASSUME ChanOK, CountersOK, TrackStats
    PROVE  ChanOK' /\ CountersOK' /\ Balance' = Balance
<1> PICK s : s = Head(statChan)
  OBVIOUS
<1>1. /\ statChan # <<>> /\ statChan' = Tail(statChan) /\ stats' = Count(s) /\ seen' = seen
      /\ tracker' \in {"receive", "total"}
  BY DEF TrackStats
<1>2. /\ ChanOK' /\ s \in Stat /\ Pending(1)' \in Nat /\ Pending(-1)' \in Nat
      /\ Pending(1) = Pending(1)' + IF s = [type |-> "conn", n |-> 1] THEN 1 ELSE 0
      /\ Pending(-1) = Pending(-1)' + IF s = [type |-> "conn", n |-> -1] THEN 1 ELSE 0
  BY <1>1, ReceiveFacts
<1>3. /\ stats' \in [StatTypes \cup {"total"} -> Int] /\ stats["conn"] \in Int
      /\ stats'["conn"] = stats["conn"] + IF "conn" = s.type THEN s.n ELSE 0
  BY <1>1, <1>2, CountFacts
<1>4. s.n \in {-1, 0, 1} /\ s = [type |-> s.type, n |-> s.n]
  BY <1>2 DEF Stat
<1>5. CountersOK'
  BY <1>1, <1>3 DEF CountersOK
<1>6. /\ s = [type |-> "conn", n |-> 1] <=> s.type = "conn" /\ s.n = 1
      /\ s = [type |-> "conn", n |-> -1] <=> s.type = "conn" /\ s.n = -1
  BY <1>4
<1> QED
  BY <1>2, <1>3, <1>4, <1>5, <1>6 DEF Balance

\* The second half of a count, and a caller of Stats.
Aside == TrackTotal \/ Stats

LEMMA AsideFacts ==
    ASSUME ChanOK, CountersOK, Aside
    PROVE  /\ statChan' = statChan /\ CountersOK'
           /\ stats["conn"] \in Int /\ stats["total"] \in Int /\ stats["rx"] \in Int /\ stats["tx"] \in Int
           /\ \A t \in {"conn", "rx", "tx"} : stats'[t] = stats[t]
           /\ \/ /\ tracker = "total" /\ tracker' = "receive" /\ stats'["total"] = stats["total"] + 1 /\ seen' = seen
              \/ /\ tracker' = tracker /\ stats'["total"] = stats["total"]
                 /\ \A t \in DOMAIN seen' : \/ t \in DOMAIN seen /\ seen'[t] = seen[t]
                                            \/ t \in {"conn", "total", "rx", "tx"} /\ seen'[t] = stats[t]
<1>0. /\ stats \in [StatTypes \cup {"total"} -> Int] /\ {"conn", "rx", "tx"} \subseteq StatTypes
      /\ "total" \notin StatTypes /\ DOMAIN seen \subseteq Reported /\ \A t \in DOMAIN seen : seen[t] \in Int
  BY DEF CountersOK, StatTypes
<1>1. CASE TrackTotal
  <2>1. /\ statChan' = statChan /\ tracker = "total" /\ tracker' = "receive" /\ seen' = seen
        /\ stats' = [stats EXCEPT !["total"] = stats["total"] + 1]
    BY <1>1 DEF TrackTotal
  <2>2. stats["total"] + 1 \in Int
    BY <1>0
  <2>3. stats' \in [StatTypes \cup {"total"} -> Int]
    BY <1>0, <2>1, <2>2
  <2> QED
    BY <1>0, <2>1, <2>3 DEF CountersOK
<1>2. ASSUME NEW t \in Reported, StatsReads(t)
      PROVE  /\ UNCHANGED <<statChan, stats, tracker>> /\ DOMAIN seen' \subseteq Reported
             /\ \A u \in DOMAIN seen' : seen'[u] \in Int
             /\ \A u \in DOMAIN seen' : \/ u \in DOMAIN seen /\ seen'[u] = seen[u]
                                        \/ u \in {"conn", "total", "rx", "tx"} /\ seen'[u] = stats[u]
  <2>1. /\ UNCHANGED <<statChan, stats, tracker>>
        /\ seen' = [u \in DOMAIN seen \cup {t} |-> IF u = t THEN stats[t] ELSE seen[u]]
    BY <1>2 DEF StatsReads
  <2>2. t \in {"conn", "total", "rx", "tx"} /\ stats[t] \in Int
    BY <1>0, PeersAssumption
  <2>3. /\ DOMAIN seen' = DOMAIN seen \cup {t}
        /\ \A u \in DOMAIN seen \cup {t} : seen'[u] = IF u = t THEN stats[t] ELSE seen[u]
    BY <2>1
  <2> QED
    BY <1>0, <2>1, <2>2, <2>3
<1>3. CASE StatsReturns
  <2>1. UNCHANGED <<statChan, stats, tracker>> /\ DOMAIN seen' = {}
    BY <1>3 DEF StatsReturns, Unread
  <2> QED
    BY <1>0, <2>1 DEF CountersOK
<1>4. CASE \E t \in Reported : StatsReads(t)
  <2>1. PICK t \in Reported : StatsReads(t)
    BY <1>4
  <2> QED
    BY <1>0, <1>2, <2>1 DEF CountersOK
<1> QED
  BY <1>1, <1>3, <1>4 DEF Aside, Stats

LEMMA AsideBalance ==
    ASSUME ChanOK, CountersOK, Aside
    PROVE  ChanOK' /\ CountersOK' /\ Balance' = Balance
<1>1. statChan' = statChan /\ CountersOK' /\ stats'["conn"] = stats["conn"]
  BY AsideFacts
<1> QED
  BY <1>1 DEF ChanOK, Balance, Pending

LEMMA SameBalance ==
    ASSUME ChanOK, CountersOK, UNCHANGED <<statChan, counters>>
    PROVE  ChanOK' /\ CountersOK' /\ Balance' = Balance
  BY DEF ChanOK, CountersOK, Balance, Pending, counters

LEMMA FiniteConns == \A S : S \subseteq Conns => IsFiniteSet(S) /\ Cardinality(S) \in Nat
  BY ConnsAssumption, FS_Subset, FS_CardinalityType

LEMMA CountedSet == Counted \subseteq Conns /\ (ActiveIsCounted <=> Balance = Cardinality(Counted))
  BY DEF Counted, ActiveIsCounted, Balance

\* A connection that is counted, or uncounted, was not, or was, before.
LEMMA CountOne ==
    ASSUME Counters, NEW c \in Conns, NEW n \in {-1, 1}, Send("conn", n), UNCHANGED counters,
           \/ n = 1 /\ c \notin Counted /\ Counted' = Counted \cup {c}
           \/ n = -1 /\ c \in Counted /\ Counted' = Counted \ {c}
    PROVE  Counters'
<1>1. ChanOK' /\ CountersOK' /\ Balance' = Balance + n
  <2>1. "conn" \in StatTypes
    BY DEF StatTypes
  <2> QED
    BY <2>1, SendBalance DEF Counters
<1>2. Balance = Cardinality(Counted) /\ IsFiniteSet(Counted) /\ Cardinality(Counted) \in Nat
  BY CountedSet, FiniteConns DEF Counters
<1>3. Cardinality(Counted') = Cardinality(Counted) + n
  BY <1>2, FS_AddElement, FS_RemoveElement
<1>4. ActiveIsCounted'
  BY <1>1, <1>2, <1>3 DEF Counted, ActiveIsCounted, Balance
<1> QED
  BY <1>1, <1>4 DEF Counters

\* The other steps change neither.
LEMMA CountNone ==
    ASSUME Counters, Counted' = Counted,
           \/ UNCHANGED <<statChan, counters>>
           \/ TrackStats \/ Aside
           \/ UNCHANGED counters /\ \E t \in StatTypes \ {"conn"}, n \in {-1, 0, 1} : Send(t, n)
    PROVE  Counters'
<1>1. ChanOK' /\ CountersOK' /\ Balance' = Balance
  <2>1. ASSUME NEW t \in StatTypes \ {"conn"}, NEW n \in {-1, 0, 1}, Send(t, n), UNCHANGED counters
        PROVE  ChanOK' /\ CountersOK' /\ Balance' = Balance
    <3>1. ChanOK' /\ CountersOK' /\ Balance' = Balance + IF t = "conn" THEN n ELSE 0
      BY <2>1, SendBalance DEF Counters
    <3>2. Balance \in Int
      BY CountedSet, FiniteConns DEF Counters
    <3> QED
      BY <3>1, <3>2
  <2> QED
    BY <2>1, TrackBalance, AsideBalance, SameBalance DEF Counters
<1>2. Balance = Cardinality(Counted)
  BY CountedSet DEF Counters
<1>3. ActiveIsCounted'
  BY <1>1, <1>2 DEF Counted, ActiveIsCounted, Balance
<1> QED
  BY <1>1, <1>3 DEF Counters

-----------------------------------------------------------------------------
LEMMA InitLB == Init => LBInv
<1> SUFFICES ASSUME Init PROVE LBInv
  OBVIOUS
<1>1. AddrsOK /\ PipeOK /\ PeersOK
  <2>1. AddrsOK
    BY SizesAssumption DEF Init, AddrsOK
  <2>2. PipeOK
    BY DEF Init, PipeOK, PipePcs
  <2>3. PeersOK
    BY DEF Init, PeersOK
  <2> QED
    BY <2>1, <2>2, <2>3
<1>2. Sockets
  <2>1. /\ accept = [pc |-> "accept", conn |-> {}, dest |-> {}] /\ closer = [c \in Conns |-> "none"]
        /\ open = [c \in Conns |-> {}] /\ client = [c \in Conns |-> "none"]
    BY DEF Init, Idle
  <2>2. AcceptOK /\ CloserOK /\ OpenOK /\ ClientOK
    BY <2>1 DEF AcceptOK, AcceptPcs, CloserOK, OpenOK, ClientOK
  <2>3. InHand /\ NotYet /\ EndedIsClosed
    BY <2>1 DEF InHand, NotYet, EndedIsClosed, Waiting, GivenUp
  <2> QED
    BY <2>2, <2>3 DEF Sockets
<1>3. Counters
  <2>1. /\ statChan = <<>> /\ stats = [t \in StatTypes \cup {"total"} |-> 0]
        /\ accept.conn = {} /\ \A c \in Conns : closer[c] = "none"
    BY DEF Init, Idle
  <2>2. ChanOK /\ CountersOK
    <3>1. tracker = "receive" /\ DOMAIN seen = {}
      BY DEF Init, Unread
    <3> QED
      BY <2>1, <3>1, SizesAssumption DEF ChanOK, CountersOK
  <2>3. Pending(1) = 0 /\ Pending(-1) = 0
    <3>1. \A n : {k \in DOMAIN statChan : statChan[k] = [type |-> "conn", n |-> n]} = {}
      BY <2>1
    <3> QED
      BY <3>1, FS_EmptySet DEF Pending
  <2>4. Cardinality(Counted) = 0
    <3>1. Counted = {}
      BY <2>1 DEF Counted
    <3> QED
      BY <3>1, FS_EmptySet
  <2>5. stats["conn"] = 0
    BY <2>1 DEF StatTypes
  <2> QED
    BY <2>2, <2>3, <2>4, <2>5 DEF Counters, ActiveIsCounted
<1> QED
  BY <1>1, <1>2, <1>3 DEF LBInv

\* The steps of the pipes and of the peers: they close sockets at most, work for no
\* connection that is not there, and count none.
LEMMA QuietStep ==
    ASSUME LBInv, AddrsOK', PipeOK', PeersOK', OpenOK', ClientOK',
           \A c \in Conns : open'[c] \subseteq open[c],
           \A c \in Conns : client[c] = "accepted" <=> client'[c] = "accepted",
           UNCHANGED <<accept, closer>>,
           \/ UNCHANGED <<statChan, counters>>
           \/ TrackStats \/ Aside
           \/ UNCHANGED counters /\ \E t \in StatTypes \ {"conn"}, n \in {-1, 0, 1} : Send(t, n)
    PROVE  LBInv'
<1>1. Sockets'
  <2>0. accept.conn \subseteq Conns
    BY DEF LBInv, Sockets, AcceptOK
  <2>1. AcceptOK' /\ CloserOK'
    BY DEF LBInv, Sockets, AcceptOK, CloserOK
  <2>2. InHand'
    <3>1. \A c \in accept.conn : client'[c] = "accepted" /\ closer[c] = "none"
      BY <2>0 DEF LBInv, Sockets, InHand
    <3>2. accept.pc \in GivenUp => \A c \in accept.conn : open'[c] = {}
      BY <2>0 DEF LBInv, Sockets, InHand
    <3> QED
      BY <3>1, <3>2 DEF LBInv, Sockets, InHand
  <2>3. NotYet'
    BY DEF LBInv, Sockets, NotYet
  <2>4. EndedIsClosed'
    BY DEF LBInv, Sockets, EndedIsClosed
  <2> QED
    BY <2>1, <2>2, <2>3, <2>4 DEF Sockets
<1>2. Counters'
  <2>1. Counted' = Counted
    BY DEF Counted
  <2> QED
    BY <2>1, CountNone DEF LBInv
<1> QED
  BY <1>1, <1>2 DEF LBInv

LEMMA PipeFacts ==
    ASSUME PipeOK, NEW c \in Conns, NEW s \in Sides, NEW pc \in PipePcs, Goto(c, s, pc)
    PROVE  PipeOK'
  BY DEF PipeOK, Goto

LEMMA PipeLB == ASSUME LBInv, NEW c \in Conns, NEW s \in Sides, Pipe(c, s) PROVE LBInv'
<1>0. PipeOK /\ PeersOK /\ OpenOK /\ AddrsOK /\ ClientOK
  BY DEF LBInv, Sockets
<1>1. /\ UNCHANGED <<instances, up, accept, closer, client, sent, fin, gone, stalled, errors, counters>>
      /\ \E pc \in PipePcs : Goto(c, s, pc)
  BY DEF Pipe, Read, SendRX, SendReadError, CloseDst, Write, SendTX, SendWriteError, CloseSrc, peers, PipePcs
<1>2. PipeOK' /\ AddrsOK' /\ ClientOK'
  <2>1. PipeOK'
    BY <1>0, <1>1, PipeFacts
  <2> QED
    BY <2>1, <1>0, <1>1 DEF AddrsOK, ClientOK
<1>3. OpenOK' /\ \A d \in Conns : open'[d] \subseteq open[d]
  <2>1. open' = open \/ \E x : open' = [open EXCEPT ![c] = open[c] \ {x}]
    BY DEF Pipe, Read, SendRX, SendReadError, CloseDst, Write, SendTX, SendWriteError, CloseSrc
  <2> QED
    BY <2>1, <1>0 DEF OpenOK
<1>4. PeersOK'
  <2>1. \/ UNCHANGED <<arrived, got>>
        \/ UNCHANGED got /\ arrived[c][s] > 0 /\ arrived' = [arrived EXCEPT ![c][s] = arrived[c][s] - 1]
        \/ UNCHANGED arrived /\ got' = [got EXCEPT ![c][Other(s)] = got[c][Other(s)] + 1]
    BY DEF Pipe, Read, SendRX, SendReadError, CloseDst, Write, SendTX, SendWriteError, CloseSrc, data
  <2>2. Other(s) \in Sides
    BY DEF Other, Sides
  <2>3. arrived' \in [Conns -> [Sides -> Nat]]
    <3>1. arrived \in [Conns -> [Sides -> Nat]] /\ arrived[c][s] \in Nat
      BY <1>0 DEF PeersOK
    <3>2. CASE arrived' = arrived
      BY <3>1, <3>2
    <3>3. CASE arrived[c][s] > 0 /\ arrived' = [arrived EXCEPT ![c][s] = arrived[c][s] - 1]
      <4>1. PICK n \in Nat : n = arrived[c][s] - 1
        BY <3>1, <3>3
      <4> QED
        BY <3>1, <3>3, <4>1
    <3> QED
      BY <2>1, <3>2, <3>3
  <2>4. got' \in [Conns -> [Sides -> Nat]]
    <3>1. got[c][Other(s)] + 1 \in Nat /\ got \in [Conns -> [Sides -> Nat]]
      BY <2>2, <1>0 DEF PeersOK
    <3> QED
      BY <2>1, <2>2, <3>1
  <2> QED
    BY <2>3, <2>4, <1>0, <1>1 DEF PeersOK
<1>5. \/ UNCHANGED <<statChan, counters>>
      \/ UNCHANGED counters /\ \E t \in StatTypes \ {"conn"}, n \in {-1, 0, 1} : Send(t, n)
  <2>1. {"rx", "tx", "readError", "writeError"} \subseteq StatTypes \ {"conn"}
    BY DEF StatTypes
  <2> QED
    BY <2>1, <1>1 DEF Pipe, Read, SendRX, SendReadError, CloseDst, Write, SendTX, SendWriteError, CloseSrc
<1> QED
  BY <1>1, <1>2, <1>3, <1>4, <1>5, QuietStep

LEMMA PeerLB ==
    ASSUME LBInv,
           \/ TrackStats \/ Aside \/ UNCHANGED vars
           \/ \E a \in Addrs : AddInstances(a) \/ RemoveInstance(a) \/ UpOrDown(a)
           \/ \E c \in Conns : Connect(c) \/ \E s \in Sides : PeerSends(c, s) \/ PeerFinishes(c, s) \/ PeerStalls(c, s)
    PROVE  LBInv'
<1>0. PipeOK /\ PeersOK /\ OpenOK /\ AddrsOK /\ ClientOK
  BY DEF LBInv, Sockets
<1>1. /\ UNCHANGED <<accept, closer, open, pipe, errors, got>>
      /\ UNCHANGED <<statChan, counters>> \/ TrackStats \/ Aside
  BY DEF TrackStats, Aside, TrackTotal, Stats, StatsReads, StatsReturns, vars, AddInstances, RemoveInstance, UpOrDown, Connect, PeerSends, PeerFinishes, PeerStalls, data, peers
<1>2. AddrsOK' /\ PipeOK' /\ OpenOK'
  <2>1. instances' \subseteq Addrs /\ up' \subseteq Addrs
    BY <1>0 DEF AddrsOK, TrackStats, Aside, TrackTotal, Stats, StatsReads, StatsReturns, vars, AddInstances, RemoveInstance, UpOrDown, Connect, PeerSends, PeerFinishes, PeerStalls
  <2> QED
    BY <2>1, <1>0, <1>1 DEF AddrsOK, PipeOK, OpenOK
<1>3. ClientOK' /\ \A c \in Conns : client[c] = "accepted" <=> client'[c] = "accepted"
  <2>1. client' = client \/ \E c \in Conns : client[c] = "none" /\ client' = [client EXCEPT ![c] = "connecting"]
    BY DEF TrackStats, Aside, TrackTotal, Stats, StatsReads, StatsReturns, vars, peers, AddInstances, RemoveInstance, UpOrDown, Connect, PeerSends, PeerFinishes, PeerStalls
  <2> QED
    BY <2>1, <1>0 DEF ClientOK
<1>4. PeersOK'
  <2>1. ASSUME NEW c \in Conns, NEW s \in Sides, PeerSends(c, s) PROVE PeersOK'
    <3>1. sent' = [sent EXCEPT ![c] = sent[c] \cup {s}] /\ arrived' = [arrived EXCEPT ![c][s] = 1]
          /\ UNCHANGED <<fin, gone, stalled, got>>
      BY <2>1 DEF PeerSends
    <3> QED
      BY <3>1, <1>0 DEF PeersOK
  <2>5. ASSUME NEW c \in Conns, NEW s \in Sides, PeerStalls(c, s) PROVE PeersOK'
    <3>1. /\ stalled' = [stalled EXCEPT ![c] = (stalled[c] \cup {s}) \ (stalled[c] \cap {s})]
          /\ UNCHANGED <<sent, fin, gone, arrived, got>>
      BY <2>5 DEF PeerStalls, data
    <3>2. stalled \in [Conns -> SUBSET Sides] /\ (stalled[c] \cup {s}) \ (stalled[c] \cap {s}) \in SUBSET Sides
      BY <1>0 DEF PeersOK
    <3>3. stalled' \in [Conns -> SUBSET Sides]
      BY <3>1, <3>2
    <3>4. /\ sent' \in [Conns -> SUBSET Sides] /\ fin' \in [Conns -> SUBSET Sides] /\ gone' \in [Conns -> SUBSET Sides]
          /\ arrived' \in [Conns -> [Sides -> Nat]] /\ got' \in [Conns -> [Sides -> Nat]]
      BY <3>1, <1>0 DEF PeersOK
    <3> QED
      BY <3>3, <3>4 DEF PeersOK
  <2>2. ASSUME NEW c \in Conns, NEW s \in Sides, PeerFinishes(c, s) PROVE PeersOK'
    <3>1. /\ fin' = [fin EXCEPT ![c] = fin[c] \cup {s}] /\ UNCHANGED <<sent, stalled, arrived, got>>
          /\ gone' = gone \/ gone' = [gone EXCEPT ![c] = gone[c] \cup {s}]
      BY <2>2 DEF PeerFinishes, data
    <3>2. fin' \in [Conns -> SUBSET Sides] /\ gone' \in [Conns -> SUBSET Sides]
      BY <3>1, <1>0 DEF PeersOK
    <3> QED
      BY <3>1, <3>2, <1>0 DEF PeersOK
  <2>3. CASE UNCHANGED <<sent, fin, gone, stalled, arrived, got>>
    BY <2>3, <1>0 DEF PeersOK
  <2>4. \/ UNCHANGED <<sent, fin, gone, stalled, arrived, got>>
        \/ \E c \in Conns, s \in Sides : PeerSends(c, s) \/ PeerFinishes(c, s) \/ PeerStalls(c, s)
    BY DEF TrackStats, Aside, TrackTotal, Stats, StatsReads, StatsReturns, vars, peers, data, AddInstances, RemoveInstance, UpOrDown, Connect
  <2> QED
    BY <2>1, <2>2, <2>3, <2>4, <2>5
<1> QED
  BY <1>1, <1>2, <1>3, <1>4, QuietStep

\* The steps that move a connection: they leave the pipes' data and the peers alone.
LEMMA RestSame ==
    ASSUME LBInv, UNCHANGED <<instances, up, sent, fin, gone, stalled, arrived, got>>,
           errors' \in 0..MaxErrors, PipeOK', Sockets', Counters'
    PROVE  LBInv'
<1>1. AddrsOK' /\ PeersOK'
  BY DEF LBInv, AddrsOK, PeersOK
<1> QED
  BY <1>1 DEF LBInv

LEMMA CloserLB == ASSUME LBInv, NEW c \in Conns, Closer(c) PROVE LBInv'
<1>0. /\ CloserOK /\ OpenOK /\ Counters /\ InHand /\ PipeOK /\ errors \in 0..MaxErrors /\ AcceptOK
      /\ Sockets
  BY DEF LBInv, Sockets, AddrsOK
<1>1. /\ UNCHANGED <<instances, up, sent, fin, gone, stalled, arrived, got, accept, pipe, counters, client, errors>>
      /\ \/ /\ closer[c] = "waiting" /\ closer' = [closer EXCEPT ![c] = "uncount"]
            /\ UNCHANGED <<statChan, open>>
         \/ /\ closer[c] = "uncount" /\ closer' = [closer EXCEPT ![c] = "close"]
            /\ Send("conn", -1) /\ UNCHANGED open
         \/ /\ closer[c] = "close" /\ closer' = [closer EXCEPT ![c] = "end"]
            /\ open' = [open EXCEPT ![c] = {}] /\ UNCHANGED statChan
  BY DEF Closer, WaitPipes, UncountClosed, CloseConn, peers, data
<1>2. /\ closer[c] # "none" /\ closer'[c] # "none" /\ \A d \in Conns : d # c => closer'[d] = closer[d]
      /\ \A d \in Conns : open'[d] \subseteq open[d]
      /\ closer'[c] = "end" => open'[c] = {}
      /\ CloserOK' /\ OpenOK'
  BY <1>0, <1>1 DEF CloserOK, OpenOK
<1>3. c \notin accept.conn /\ accept.conn \subseteq Conns /\ client[c] = "accepted"
  <2>1. client[c] = "accepted"
    BY <1>0, <1>2 DEF Sockets, NotYet
  <2> QED
    BY <2>1, <1>0, <1>2 DEF InHand, AcceptOK
<1>4. Sockets'
  <2>1. AcceptOK' /\ ClientOK'
    BY <1>0, <1>1 DEF Sockets, AcceptOK, ClientOK
  <2>2. InHand'
    <3>1. \A d \in accept.conn : d # c /\ closer'[d] = "none" /\ open'[d] \subseteq open[d]
      BY <1>0, <1>2, <1>3 DEF InHand
    <3> QED
      BY <3>1, <1>0, <1>1 DEF InHand
  <2>3. NotYet'
    BY <1>0, <1>1, <1>2, <1>3 DEF Sockets, NotYet
  <2>4. EndedIsClosed'
    <3> SUFFICES ASSUME NEW d \in Conns, d \notin accept.conn, closer'[d] \in {"none", "end"}
                 PROVE  open'[d] = {}
      BY <1>1 DEF EndedIsClosed
    <3>1. CASE d = c
      BY <3>1, <1>2
    <3>2. CASE d # c
      <4>1. open[d] = {}
        BY <3>2, <1>0, <1>2 DEF Sockets, EndedIsClosed
      <4> QED
        BY <4>1, <1>2
    <3> QED
      BY <3>1, <3>2
  <2> QED
    BY <2>1, <2>2, <2>3, <2>4, <1>2 DEF Sockets
<1>5. Counters'
  <2>1. CASE closer[c] = "uncount"
    <3>1. Send("conn", -1) /\ closer'[c] = "close"
      BY <1>0, <1>1, <2>1 DEF CloserOK
    <3>2. c \in Counted /\ Counted' = Counted \ {c}
      BY <1>1, <1>2, <1>3, <2>1, <3>1 DEF Counted
    <3> QED
      BY <3>1, <3>2, <1>0, <1>1, CountOne
  <2>2. CASE closer[c] # "uncount"
    <3>1. UNCHANGED <<statChan, counters>>
      BY <1>1, <2>2
    <3>2. closer[c] \in {"waiting", "uncount"} <=> closer'[c] \in {"waiting", "uncount"}
      BY <1>0, <1>1, <2>2 DEF CloserOK
    <3>3. Counted' = Counted
      BY <1>1, <1>2, <3>2 DEF Counted
    <3> QED
      BY <3>1, <3>3, <1>0, CountNone
  <2> QED
    BY <2>1, <2>2
<1>6. PipeOK'
  BY <1>0, <1>1 DEF PipeOK
<1> QED
  BY <1>0, <1>1, <1>4, <1>5, <1>6, RestSame

-----------------------------------------------------------------------------
(* The accept loop.                                                         *)

\* The accept loop has the same connection in hand before and after, and may have closed it.
LEMMA HoldSockets ==
    ASSUME Sockets, AcceptOK', accept'.conn = accept.conn,
           accept.pc \notin Waiting, accept'.pc \notin Waiting,
           open' = open \/ Hangup,
           accept'.pc \in GivenUp => accept.pc \in GivenUp \/ Hangup,
           UNCHANGED <<closer, client>>
    PROVE  Sockets'
<1>0. AcceptOK /\ CloserOK /\ OpenOK /\ ClientOK /\ InHand /\ NotYet /\ EndedIsClosed
  BY DEF Sockets
<1>1. /\ OpenOK' /\ \A c \in Conns : open'[c] \subseteq open[c]
      /\ Hangup => \A c \in accept.conn : open'[c] = {}
  BY <1>0 DEF Hangup, OpenOK, AcceptOK
<1>2. CloserOK' /\ ClientOK'
  BY <1>0 DEF CloserOK, ClientOK
<1>3. InHand'
  <2>1. accept.conn \subseteq Conns
    BY <1>0 DEF AcceptOK
  <2>2. accept'.pc \in GivenUp => \A c \in accept.conn : open'[c] = {}
    BY <1>0, <1>1, <2>1 DEF InHand
  <2> QED
    BY <2>2, <1>0 DEF InHand
<1>4. NotYet' /\ EndedIsClosed'
  BY <1>0, <1>1 DEF NotYet, EndedIsClosed
<1> QED
  BY <1>1, <1>2, <1>3, <1>4 DEF Sockets

\* It lets go of a connection that it has closed, or of none.
LEMMA ReleaseSockets ==
    ASSUME Sockets, accept.pc \in GivenUp \cup Waiting, accept' = Idle, UNCHANGED <<closer, client, open>>
    PROVE  Sockets'
<1>0. AcceptOK /\ CloserOK /\ OpenOK /\ ClientOK /\ InHand /\ NotYet /\ EndedIsClosed
  BY DEF Sockets
<1>1. \A c \in accept.conn : c \in Conns => open[c] = {}
  BY <1>0 DEF InHand
<1>2. accept'.pc = "accept" /\ accept'.conn = {} /\ accept'.dest = {} /\ AcceptOK'
  BY DEF Idle, AcceptOK, AcceptPcs
<1>3. InHand'
  BY <1>2 DEF InHand, Waiting, GivenUp
<1>4. CloserOK' /\ OpenOK' /\ ClientOK' /\ NotYet'
  BY <1>0 DEF CloserOK, OpenOK, ClientOK, NotYet
<1>5. EndedIsClosed'
  BY <1>0, <1>1, <1>2 DEF EndedIsClosed
<1> QED
  BY <1>2, <1>3, <1>4, <1>5 DEF Sockets

\* The connections the accept loop has counted and not uncounted.
LEMMA CountedFacts ==
    /\ \A c \in Conns : c \in Counted <=>
         \/ c \in accept.conn /\ accept.pc \in {"pick", "dial", "uncount", "undial"}
         \/ closer[c] \in {"waiting", "uncount"}
    /\ \A c \in Conns : c \in Counted' <=>
         \/ c \in accept'.conn /\ accept'.pc \in {"pick", "dial", "uncount", "undial"}
         \/ closer'[c] \in {"waiting", "uncount"}
    /\ Counted \subseteq Conns /\ Counted' \subseteq Conns
  BY DEF Counted

LEMMA AcceptLB ==
    ASSUME LBInv, NEW c \in Conns, Accept(c)
    PROVE  LBInv'
<1>0. Sockets /\ AcceptOK /\ CloserOK /\ OpenOK /\ ClientOK /\ InHand /\ NotYet /\ EndedIsClosed
      /\ Counters /\ PipeOK /\ AddrsOK
  BY DEF LBInv, Sockets
<1>1. /\ accept.pc = "accept" /\ client[c] = "connecting"
      /\ client' = [client EXCEPT ![c] = "accepted"] /\ open' = [open EXCEPT ![c] = {"l"}]
      /\ accept' = [pc |-> "count", conn |-> {c}, dest |-> {}]
      /\ UNCHANGED <<instances, up, pipe, closer, statChan, counters, sent, fin, gone, stalled, arrived, got, errors>>
  BY DEF Accept, data
<1>2. accept.conn = {} /\ closer[c] = "none"
  BY <1>0, <1>1 DEF InHand, NotYet, Waiting
<1>3. client'[c] = "accepted" /\ (\A d \in Conns : d # c => client'[d] = client[d] /\ open'[d] = open[d])
      /\ ClientOK' /\ OpenOK'
  BY <1>0, <1>1 DEF ClientOK, OpenOK, Sides
<1>4. Sockets'
  <2>1. AcceptOK' /\ CloserOK'
    BY <1>0, <1>1 DEF AcceptOK, AcceptPcs, CloserOK
  <2>2. InHand' /\ NotYet' /\ EndedIsClosed'
    BY <1>0, <1>1, <1>2, <1>3 DEF InHand, NotYet, EndedIsClosed, Waiting, GivenUp
  <2> QED
    BY <2>1, <2>2, <1>3 DEF Sockets
<1>5. Counters'
  <2>1. Counted' = Counted
    BY <1>1, <1>2, CountedFacts
  <2> QED
    BY <2>1, <1>0, <1>1, CountNone
<1>6. PipeOK' /\ errors' \in 0..MaxErrors
  BY <1>0, <1>1 DEF PipeOK, AddrsOK
<1> QED
  BY <1>1, <1>4, <1>5, <1>6, RestSame

\* Dial hands the connection over to its goroutines.
LEMMA DialLB == ASSUME LBInv, Dial PROVE LBInv'
<1>0. Sockets /\ AcceptOK /\ CloserOK /\ OpenOK /\ ClientOK /\ InHand /\ NotYet /\ EndedIsClosed
      /\ Counters /\ PipeOK /\ AddrsOK
  BY DEF LBInv, Sockets
<1>1. PICK c \in accept.conn :
        /\ open' = [open EXCEPT ![c] = Sides]
        /\ pipe' = [pipe EXCEPT ![c] = [s \in Sides |-> "read"]]
        /\ closer' = [closer EXCEPT ![c] = "waiting"]
  BY DEF Dial
<1>2. /\ accept.pc = "dial" /\ accept' = [pc |-> "accept", conn |-> {}, dest |-> {}]
      /\ UNCHANGED <<instances, up, client, statChan, counters, sent, fin, gone, stalled, arrived, got, errors>>
  BY DEF Dial, Idle, peers, data
<1>3. accept.conn = {c} /\ c \in Conns /\ client[c] = "accepted" /\ closer[c] = "none"
  BY <1>0, <1>1, <1>2 DEF InHand, AcceptOK, Waiting
<1>4. /\ closer'[c] = "waiting" /\ \A d \in Conns : d # c => closer'[d] = closer[d] /\ open'[d] = open[d]
      /\ CloserOK' /\ OpenOK' /\ PipeOK'
  BY <1>0, <1>1, <1>3 DEF CloserOK, OpenOK, PipeOK, PipePcs
<1>5. Sockets'
  <2>1. AcceptOK' /\ ClientOK'
    BY <1>0, <1>2 DEF AcceptOK, AcceptPcs, ClientOK
  <2>2. InHand' /\ NotYet' /\ EndedIsClosed'
    BY <1>0, <1>2, <1>3, <1>4 DEF InHand, NotYet, EndedIsClosed, Waiting, GivenUp
  <2> QED
    BY <2>1, <2>2, <1>4 DEF Sockets
<1>6. Counters'
  <2>1. Counted' = Counted
    BY <1>2, <1>3, <1>4, CountedFacts
  <2> QED
    BY <2>1, <1>0, <1>2, CountNone
<1>7. errors' \in 0..MaxErrors
  BY <1>0, <1>2 DEF AddrsOK
<1> QED
  BY <1>2, <1>4, <1>5, <1>6, <1>7, RestSame

LEMMA StartLB == ASSUME LBInv, Start \/ AcceptFails PROVE LBInv'
<1>0. Sockets /\ AcceptOK /\ InHand /\ Counters /\ PipeOK /\ AddrsOK
  BY DEF LBInv, Sockets
<1>1. CASE Dial
  BY <1>1, DialLB
<1>2. ASSUME ~Dial
      PROVE  /\ UNCHANGED <<instances, up, sent, fin, gone, stalled, arrived, got, pipe, closer, client>>
             /\ UNCHANGED <<pipe, closer>> /\ errors' \in 0..MaxErrors /\ PipeOK'
  <2>1. SendConnError \/ CountConn \/ UncountConn \/ UncountDial \/ SendDialError
        => UNCHANGED <<instances, up, sent, fin, gone, stalled, arrived, got, pipe, closer, client, errors>>
    BY DEF SendConnError, CountConn, UncountConn, UncountDial, SendDialError, peers, data
  <2>2. PickNobody \/ Pick \/ DialFails
        => UNCHANGED <<instances, up, sent, fin, gone, stalled, arrived, got, pipe, closer, client, errors>>
    BY Zenon DEF PickNobody, Pick, DialFails, peers, data
  <2>3. AcceptFails =>
          /\ UNCHANGED <<instances, up, sent, fin, gone, stalled, arrived, got, pipe, closer, client>>
          /\ errors < MaxErrors /\ errors' = errors + 1
    BY DEF AcceptFails, peers, data
  <2>4. /\ UNCHANGED <<instances, up, sent, fin, gone, stalled, arrived, got, pipe, closer, client>>
        /\ errors' = errors \/ (errors < MaxErrors /\ errors' = errors + 1)
    BY <1>2, <2>1, <2>2, <2>3, Zenon DEF Start
  <2> QED
    BY <2>4, <1>0, SizesAssumption DEF PipeOK, AddrsOK
<1>3. CASE AcceptFails
  <2>1. /\ accept.pc = "accept" /\ accept' = [accept EXCEPT !.pc = "connError"]
        /\ UNCHANGED <<pipe, closer, open, statChan, counters, client>>
        /\ UNCHANGED <<instances, up, sent, fin, gone, stalled, arrived, got>>
        /\ errors < MaxErrors /\ errors' = errors + 1
    BY <1>3 DEF AcceptFails, peers, data
  <2>2. accept'.pc = "connError" /\ accept'.conn = accept.conn /\ accept.conn = {} /\ AcceptOK'
    BY <2>1, <1>0 DEF InHand, AcceptOK, AcceptPcs, Waiting
  <2>3. Sockets'
    <3>1. CloserOK' /\ OpenOK' /\ ClientOK' /\ NotYet'
      BY <2>1, <1>0 DEF Sockets, CloserOK, OpenOK, ClientOK, NotYet
    <3>2. InHand'
      BY <2>1, <2>2, <1>0 DEF InHand, Waiting, GivenUp
    <3>3. EndedIsClosed'
      BY <2>1, <2>2, <1>0 DEF Sockets, EndedIsClosed
    <3> QED
      BY <3>1, <3>2, <3>3, <2>2 DEF Sockets
  <2>4. Counted' = Counted
    BY <2>1, <2>2, CountedFacts
  <2>5. Counters'
    BY <2>1, <2>4, <1>0, CountNone
  <2>6. errors' \in 0..MaxErrors /\ PipeOK'
    BY <2>1, <1>0, SizesAssumption DEF AddrsOK, PipeOK
  <2> QED
    BY <2>1, <2>3, <2>5, <2>6, RestSame
<1>4. CASE SendConnError
  <2>1. accept.pc = "connError" /\ accept' = Idle /\ Send("connError", 1) /\ UNCHANGED <<open, counters>> /\ ~Dial
    BY <1>4 DEF SendConnError, Dial
  <2>2. Sockets'
    BY <2>1, <1>0, <1>2, ReleaseSockets DEF Waiting
  <2>3. Counted' = Counted
    BY <2>1, <1>0, <1>2, CountedFacts DEF Idle, InHand, Waiting
  <2>4. Counters'
    BY <2>1, <2>3, <1>0, CountNone DEF StatTypes
  <2> QED
    BY <2>1, <2>2, <2>4, <1>2, RestSame
<1>5. CASE CountConn
  <2>1. /\ accept.pc = "count" /\ accept' = [accept EXCEPT !.pc = "pick"] /\ Send("conn", 1)
        /\ UNCHANGED <<open, counters>> /\ ~Dial
    BY <1>5 DEF CountConn, Dial
  <2>2. accept'.pc = "pick" /\ accept'.conn = accept.conn /\ AcceptOK'
    BY <2>1, <1>0 DEF AcceptOK, AcceptPcs
  <2>3. Sockets'
    BY <2>1, <2>2, <1>0, <1>2, HoldSockets DEF Waiting, GivenUp
  <2>4. PICK c \in Conns : accept.conn = {c} /\ closer[c] = "none"
    BY <2>1, <1>0 DEF InHand, Waiting
  <2>5. c \notin Counted /\ Counted' = Counted \cup {c}
    BY <2>1, <2>2, <2>4, <1>2, CountedFacts
  <2>6. Counters'
    BY <2>1, <2>4, <2>5, <1>0, CountOne
  <2> QED
    BY <2>1, <2>3, <2>6, <1>2, RestSame
<1>6. CASE PickNobody \/ Pick \/ DialFails
  <2>1. accept.pc \in {"pick", "dial"} /\ UNCHANGED <<counters, statChan>> /\ ~Dial
    BY <1>6, Zenon DEF PickNobody, Pick, DialFails, Dial
  <2>2. /\ accept'.pc \in {"uncount", "undial", "dial"} /\ accept'.conn = accept.conn /\ AcceptOK'
        /\ open' = open \/ Hangup
        /\ accept'.pc \in GivenUp => Hangup
    <3>1. CASE PickNobody
      <4>1. accept' = [accept EXCEPT !.pc = "uncount"] /\ Hangup
        BY <3>1 DEF PickNobody
      <4> QED
        BY <4>1, <1>0 DEF AcceptOK, AcceptPcs
    <3>2. CASE DialFails
      <4>1. accept' = [accept EXCEPT !.pc = "undial"] /\ Hangup
        BY <3>2 DEF DialFails
      <4> QED
        BY <4>1, <1>0 DEF AcceptOK, AcceptPcs
    <3>3. CASE Pick
      <4>1. PICK a \in instances : accept' = [accept EXCEPT !.pc = "dial", !.dest = {a}]
        BY <3>3, Zenon DEF Pick
      <4>2. open' = open /\ {a} \subseteq Addrs
        BY <3>3, <4>1, <1>0 DEF Pick, AddrsOK
      <4>3. accept' = [pc |-> "dial", conn |-> accept.conn, dest |-> {a}]
        BY <4>1, <1>0 DEF AcceptOK
      <4> QED
        BY <4>2, <4>3, <1>0 DEF AcceptOK, AcceptPcs, GivenUp
    <3> QED
      BY <1>6, <3>1, <3>2, <3>3
  <2>3. Sockets'
    BY <2>1, <2>2, <1>0, <1>2, HoldSockets DEF Waiting, GivenUp
  <2>4. Counted' = Counted
    BY <2>1, <2>2, <1>2, CountedFacts
  <2>5. Counters'
    BY <2>1, <2>4, <1>0, CountNone
  <2> QED
    BY <2>1, <2>3, <2>5, <1>2, RestSame
<1>7. CASE UncountConn
  <2>1. accept.pc = "uncount" /\ accept' = Idle /\ Send("conn", -1) /\ UNCHANGED <<open, counters>> /\ ~Dial
    BY <1>7 DEF UncountConn, Dial
  <2>2. Sockets'
    BY <2>1, <1>0, <1>2, ReleaseSockets DEF GivenUp
  <2>3. PICK c \in Conns : accept.conn = {c} /\ closer[c] = "none"
    BY <2>1, <1>0 DEF InHand, Waiting
  <2>4. c \in Counted /\ Counted' = Counted \ {c}
    BY <2>1, <2>3, <1>2, CountedFacts DEF Idle
  <2>5. Counters'
    BY <2>1, <2>3, <2>4, <1>0, CountOne
  <2> QED
    BY <2>1, <2>2, <2>5, <1>2, RestSame
<1>8. CASE UncountDial
  <2>1. /\ accept.pc = "undial" /\ accept' = [accept EXCEPT !.pc = "dialError"] /\ Send("conn", -1)
        /\ UNCHANGED <<open, counters>> /\ ~Dial
    BY <1>8 DEF UncountDial, Dial
  <2>2. accept'.pc = "dialError" /\ accept'.conn = accept.conn /\ AcceptOK'
    BY <2>1, <1>0 DEF AcceptOK, AcceptPcs
  <2>3. Sockets'
    BY <2>1, <2>2, <1>0, <1>2, HoldSockets DEF Waiting, GivenUp
  <2>4. PICK c \in Conns : accept.conn = {c} /\ closer[c] = "none"
    BY <2>1, <1>0 DEF InHand, Waiting
  <2>5. c \in Counted /\ Counted' = Counted \ {c}
    BY <2>1, <2>2, <2>4, <1>2, CountedFacts
  <2>6. Counters'
    BY <2>1, <2>4, <2>5, <1>0, CountOne
  <2> QED
    BY <2>1, <2>3, <2>6, <1>2, RestSame
<1>9. CASE SendDialError
  <2>1. accept.pc = "dialError" /\ accept' = Idle /\ Send("dialError", 1) /\ UNCHANGED <<open, counters>> /\ ~Dial
    BY <1>9 DEF SendDialError, Dial
  <2>2. Sockets'
    BY <2>1, <1>0, <1>2, ReleaseSockets DEF GivenUp
  <2>3. Counted' = Counted
    BY <2>1, <1>2, CountedFacts DEF Idle
  <2>4. Counters'
    BY <2>1, <2>3, <1>0, CountNone DEF StatTypes
  <2> QED
    BY <2>1, <2>2, <2>4, <1>2, RestSame
<1> QED
  BY <1>1, <1>3, <1>4, <1>5, <1>6, <1>7, <1>8, <1>9 DEF Start

LEMMA NextLB == LBInv /\ [Next]_vars => LBInv'
<1> SUFFICES ASSUME LBInv, [Next]_vars PROVE LBInv'
  OBVIOUS
<1>1. CASE Track \/ Stats \/ UNCHANGED vars
  BY <1>1, PeerLB DEF Track, Aside
<1>2. CASE Start
  BY <1>2, StartLB
<1>3. ASSUME NEW c \in Conns, Accept(c) \/ Closer(c) \/ \E s \in Sides : Pipe(c, s) PROVE LBInv'
  BY <1>3, AcceptLB, CloserLB, PipeLB
<1>4. CASE Environment
  BY <1>4, StartLB, PeerLB DEF Environment
<1> QED
  BY <1>1, <1>2, <1>3, <1>4 DEF Next

-----------------------------------------------------------------------------
(* Theorems.                                                                *)

\* The invariant holds, whatever connects, sends, finishes and vanishes.
THEOREM LoadBalancerInductive == Spec => []LBInv
  BY InitLB, NextLB, PTL DEF Spec

\* For any connections and any capacity: types, and statChan never outgrows its capacity.
THEOREM LoadBalancerTypeCorrect == Spec => []TypeOK
<1>1. LBInv => TypeOK
  BY DEF LBInv, Sockets, Counters, TypeOK, AddrsOK, AcceptOK, AcceptPcs, PipeOK, PipePcs, CloserOK, OpenOK,
         ChanOK, Stat, CountersOK, ClientOK, PeersOK
<1> QED
  BY <1>1, LoadBalancerInductive, PTL

\* For any number of connections: `active', and what is on its way to it, is the number
\* of connections that are being worked on.
THEOREM LoadBalancerActiveIsCounted == Spec => []ActiveIsCounted
<1>1. LBInv => ActiveIsCounted
  BY DEF LBInv, Counters
<1> QED
  BY <1>1, LoadBalancerInductive, PTL

\* For any number of connections: whatever ends a connection, its sockets are closed.
THEOREM LoadBalancerEndedIsClosed == Spec => []EndedIsClosed
<1>1. LBInv => EndedIsClosed
  BY DEF LBInv, Sockets
<1> QED
  BY <1>1, LoadBalancerInductive, PTL
-----------------------------------------------------------------------------
(* What Stats reports. The order of statChan matters now: a counter must not *)
(* become negative on the way from what it is to what it will be.           *)

\* What a message adds to the active connections, and to the bytes received and not sent.
ConnDelta == [s \in Stat |-> IF s.type = "conn" THEN s.n ELSE 0]
ByteDelta == [s \in Stat |-> IF s.type = "rx" THEN s.n ELSE IF s.type = "tx" THEN 0 - s.n ELSE 0]

\* From v, the messages of q lead to n at least, and never below zero.
Runs(q, d, v, n) ==
    \E f \in [0..Len(q) -> Nat] :
        /\ f[0] = v /\ f[Len(q)] >= n
        /\ \A k \in 1..Len(q) : f[k] = f[k - 1] + d[q[k]]

\* The pipes that have counted a chunk as received and not yet as sent.
Carrying == {p \in Conns \X Sides : pipe[p[1]][p[2]] \in {"write", "txChunk"}}

ConnRuns == Runs(statChan, ConnDelta, stats["conn"], Cardinality(Counted))
ByteRuns == Runs(statChan, ByteDelta, stats["rx"] - stats["tx"], Cardinality(Carrying))

\* What the counters and the report have of their own: bytes are only added up.
CountsInv ==
    /\ \A k \in DOMAIN statChan : statChan[k].type \in {"rx", "tx"} => statChan[k].n >= 0
    /\ stats["total"] >= 0 /\ stats["rx"] >= 0 /\ stats["tx"] >= 0
    /\ stats["conn"] <= TakenIn
    /\ \A t \in DOMAIN seen : seen[t] >= 0 /\ seen[t] <= Limit(t)
StatsInv == ConnRuns /\ ByteRuns /\ CountsInv

LEMMA RunsSend ==
    ASSUME NEW q \in Seq(Stat), NEW d \in [Stat -> Int], NEW x \in Stat, NEW v,
           NEW n \in Nat, NEW m \in Nat, Runs(q, d, v, n), m <= n + d[x]
    PROVE  Runs(Append(q, x), d, v, m)
<1> PICK l : l = Len(q)
  OBVIOUS
<1>1. /\ l \in Nat /\ Len(Append(q, x)) = l + 1 /\ Append(q, x)[l + 1] = x
      /\ \A k \in 1..l : Append(q, x)[k] = q[k]
  OBVIOUS
<1>2. PICK f \in [0..l -> Nat] :
        /\ f[0] = v /\ f[l] >= n
        /\ \A k \in 1..l : f[k] = f[k - 1] + d[q[k]]
  BY DEF Runs
<1>3. f[l] \in Nat /\ d[x] \in Int /\ f[l] + d[x] >= m /\ f[l] + d[x] \in Nat
  BY <1>1, <1>2
<1> PICK g : g = [k \in 0..(l + 1) |-> IF k \in 0..l THEN f[k] ELSE f[l] + d[x]]
  OBVIOUS
<1>4. g \in [0..(l + 1) -> Nat]
  BY <1>2, <1>3
<1>5. \A k \in 0..l : g[k] = f[k]
  BY <1>1
<1>6. g[l + 1] = f[l] + d[x]
  BY <1>1
<1>7. g[0] = v /\ g[l + 1] >= m
  BY <1>1, <1>2, <1>3, <1>5, <1>6
<1>8. ASSUME NEW k \in 1..(l + 1) PROVE g[k] = g[k - 1] + d[Append(q, x)[k]]
  <2>1. CASE k = l + 1
    <3>1. k - 1 = l /\ l \in 0..l
      BY <1>1, <2>1
    <3> QED
      BY <1>1, <1>5, <1>6, <2>1, <3>1
  <2>2. CASE k # l + 1
    <3>1. k \in 1..l /\ k \in 0..l /\ k - 1 \in 0..l
      BY <1>1, <2>2
    <3> QED
      BY <1>1, <1>2, <1>5, <3>1
  <2> QED
    BY <2>1, <2>2
<1> PICK r, L : r = Append(q, x) /\ L = l + 1
  OBVIOUS
<1>9. g \in [0..L -> Nat] /\ g[0] = v /\ g[L] >= m /\ L = Len(r)
  BY <1>1, <1>4, <1>7
<1>10. \A k \in 1..L : g[k] = g[k - 1] + d[r[k]]
  BY <1>8
<1>11. \E h \in [0..L -> Nat] : h[0] = v /\ h[L] >= m /\ \A k \in 1..L : h[k] = h[k - 1] + d[r[k]]
  BY <1>9, <1>10
<1>12. Runs(r, d, v, m)
  BY <1>9, <1>11, Zenon DEF Runs
<1> QED
  BY <1>12

LEMMA RunsReceive ==
    ASSUME NEW q \in Seq(Stat), NEW d \in [Stat -> Int], NEW v, NEW n \in Nat, Runs(q, d, v, n), q # <<>>
    PROVE  v \in Nat /\ Runs(Tail(q), d, v + d[Head(q)], n)
<1> PICK l : l = Len(q)
  OBVIOUS
<1>1. /\ l \in Nat /\ l > 0 /\ Len(Tail(q)) = l - 1 /\ Head(q) = q[1] /\ Head(q) \in Stat
      /\ \A k \in 1..(l - 1) : Tail(q)[k] = q[k + 1]
  OBVIOUS
<1>2. PICK f \in [0..l -> Nat] :
        /\ f[0] = v /\ f[l] >= n
        /\ \A k \in 1..l : f[k] = f[k - 1] + d[q[k]]
  BY DEF Runs
<1> PICK g : g = [k \in 0..(l - 1) |-> f[k + 1]]
  OBVIOUS
<1>3. g \in [0..(l - 1) -> Nat]
  BY <1>1, <1>2
<1>4. g[0] = v + d[Head(q)] /\ v \in Nat
  <2>1. 1 \in 1..l /\ 0 \in 0..(l - 1) /\ 0 \in 0..l
    BY <1>1
  <2>2. f[1] = f[1 - 1] + d[q[1]] /\ g[0] = f[0 + 1]
    BY <1>2, <2>1
  <2> QED
    BY <1>1, <1>2, <2>1, <2>2
<1>5. g[l - 1] >= n
  BY <1>1, <1>2
<1>6. ASSUME NEW k \in 1..(l - 1) PROVE g[k] = g[k - 1] + d[Tail(q)[k]]
  <2>1. /\ k \in 0..(l - 1) /\ k - 1 \in 0..(l - 1) /\ k + 1 \in 1..l
        /\ (k - 1) + 1 = k /\ (k + 1) - 1 = k
    BY <1>1
  <2>2. f[k + 1] = f[k] + d[q[k + 1]]
    BY <1>2, <2>1
  <2>3. g[k] = f[k + 1] /\ g[k - 1] = f[k]
    BY <2>1
  <2> QED
    BY <1>1, <2>2, <2>3
<1> PICK r, L, w : r = Tail(q) /\ L = l - 1 /\ w = v + d[Head(q)]
  OBVIOUS
<1>7. g \in [0..L -> Nat] /\ g[0] = w /\ g[L] >= n /\ L = Len(r)
  BY <1>1, <1>3, <1>4, <1>5
<1>8. \A k \in 1..L : g[k] = g[k - 1] + d[r[k]]
  BY <1>6
<1>9. \E h \in [0..L -> Nat] : h[0] = w /\ h[L] >= n /\ \A k \in 1..L : h[k] = h[k - 1] + d[r[k]]
  BY <1>7, <1>8
<1>10. Runs(r, d, w, n)
  BY <1>7, <1>9, Zenon DEF Runs
<1> QED
  BY <1>4, <1>10

LEMMA Deltas ==
    /\ ConnDelta \in [Stat -> Int] /\ ByteDelta \in [Stat -> Int]
    /\ \A t \in StatTypes, n \in {-1, 0, 1} :
         /\ [type |-> t, n |-> n] \in Stat
         /\ ConnDelta[[type |-> t, n |-> n]] = IF t = "conn" THEN n ELSE 0
         /\ ByteDelta[[type |-> t, n |-> n]] = IF t = "rx" THEN n ELSE IF t = "tx" THEN 0 - n ELSE 0
<1>1. \A s \in Stat : s.n \in Int
  BY DEF Stat
<1> QED
  BY <1>1 DEF ConnDelta, ByteDelta, Stat

LEMMA FiniteCarrying ==
    /\ Carrying \subseteq Conns \X Sides
    /\ \A S : S \subseteq Conns \X Sides => IsFiniteSet(S) /\ Cardinality(S) \in Nat
<1>1. IsFiniteSet(Sides)
  <2>1. Sides = {"l"} \cup {"r"}
    BY DEF Sides
  <2> QED
    BY <2>1, FS_Singleton, FS_AddElement
<1>2. IsFiniteSet(Conns \X Sides)
  BY <1>1, ConnsAssumption, FS_Product
<1> QED
  BY <1>2, FS_Subset, FS_CardinalityType DEF Carrying

\* What a step does to statChan, and at most to the pipes that carry a chunk.
Grows(n) ==
    \/ n = 0 /\ Carrying' \subseteq Carrying
    \/ n = 1 /\ \E p \in Conns \X Sides : Carrying' \subseteq Carrying \cup {p}
    \/ n = -1 /\ \E p \in Carrying : Carrying' \subseteq Carrying \ {p}
Says(t, n) ==
    /\ Send(t, n) /\ UNCHANGED counters /\ Grows(IF t = "rx" THEN n ELSE IF t = "tx" THEN 0 - n ELSE 0)
    /\ t \in {"rx", "tx"} => n >= 0
Kinds ==
    \/ UNCHANGED <<statChan, counters>> /\ Carrying' \subseteq Carrying
    \/ (TrackStats \/ Aside) /\ Carrying' \subseteq Carrying
    \/ \E t \in StatTypes, n \in {-1, 0, 1} : Says(t, n)

LEMMA GotoCarrying ==
    ASSUME PipeOK, NEW c \in Conns, NEW s \in Sides, NEW pc \in PipePcs, Goto(c, s, pc)
    PROVE  /\ Carrying' \subseteq Carrying \cup {<<c, s>>}
           /\ pc \notin {"write", "txChunk"} => Carrying' \subseteq Carrying \ {<<c, s>>}
           /\ pipe[c][s] \in {"write", "txChunk"} <=> <<c, s>> \in Carrying
<1>1. pipe'[c][s] = pc /\ \A d \in Conns, u \in Sides : <<d, u>> # <<c, s>> => pipe'[d][u] = pipe[d][u]
  BY DEF PipeOK, Goto
<1> QED
  BY <1>1 DEF Carrying

LEMMA PipeKinds ==
    ASSUME PipeOK, NEW c \in Conns, NEW s \in Sides, Pipe(c, s)
    PROVE  Kinds
<1> PICK p : p = <<c, s>>
  OBVIOUS
<1>1. ASSUME NEW pc \in PipePcs, Goto(c, s, pc)
      PROVE  /\ Carrying' \subseteq Carrying \cup {p} /\ p \in Conns \X Sides
             /\ pc \notin {"write", "txChunk"} => Carrying' \subseteq Carrying \ {p}
             /\ pipe[c][s] \in {"write", "txChunk"} <=> p \in Carrying
  BY <1>1, GotoCarrying
<1>2. CASE Read(c, s) \/ Write(c, s) \/ CloseDst(c, s) \/ CloseSrc(c, s)
  <2>1. PICK pc \in PipePcs : /\ Goto(c, s, pc) /\ UNCHANGED <<statChan, counters>>
                              /\ pc \in {"write", "txChunk"} => pipe[c][s] \in {"write", "txChunk"}
    BY <1>2 DEF Read, Write, CloseDst, CloseSrc, PipePcs
  <2>2. Carrying' \subseteq Carrying
    BY <2>1, <1>1
  <2> QED
    BY <2>1, <2>2 DEF Kinds
<1>3. CASE SendReadError(c, s) \/ SendWriteError(c, s)
  <2>1. PICK pc \in PipePcs, t \in {"readError", "writeError"} :
          Goto(c, s, pc) /\ Send(t, 1) /\ UNCHANGED counters /\ pc \notin {"write", "txChunk"}
    BY <1>3 DEF SendReadError, SendWriteError, PipePcs
  <2>2. Grows(0)
    BY <2>1, <1>1 DEF Grows
  <2> QED
    BY <2>1, <2>2 DEF Kinds, Says, StatTypes
<1>4. CASE SendRX(c, s)
  <2>1. CASE pipe[c][s] = "rxChunk"
    <3>1. Send("rx", 1) /\ Goto(c, s, "write") /\ UNCHANGED counters
      BY <1>4, <2>1 DEF SendRX
    <3>2. Grows(1)
      BY <3>1, <1>1 DEF Grows, PipePcs
    <3> QED
      BY <3>1, <3>2 DEF Kinds, Says, StatTypes
  <2>2. CASE pipe[c][s] # "rxChunk"
    <3>1. PICK pc \in PipePcs \ {"write", "txChunk"} : Send("rx", 0) /\ Goto(c, s, pc) /\ UNCHANGED counters
      BY <1>4, <2>2 DEF SendRX, PipePcs
    <3>2. Grows(0)
      BY <3>1, <1>1 DEF Grows
    <3> QED
      BY <3>1, <3>2 DEF Kinds, Says, StatTypes
  <2> QED
    BY <2>1, <2>2
<1>5. CASE SendTX(c, s)
  <2>1. CASE pipe[c][s] = "txChunk"
    <3>1. Send("tx", 1) /\ Goto(c, s, "read") /\ UNCHANGED counters
      BY <1>5, <2>1 DEF SendTX
    <3>2. Grows(-1)
      BY <2>1, <3>1, <1>1 DEF Grows, PipePcs
    <3> QED
      BY <3>1, <3>2 DEF Kinds, Says, StatTypes
  <2>2. CASE pipe[c][s] # "txChunk"
    <3>1. Send("tx", 0) /\ Goto(c, s, "writeError") /\ UNCHANGED counters
      BY <1>5, <2>2 DEF SendTX
    <3>2. Grows(0)
      BY <3>1, <1>1 DEF Grows, PipePcs
    <3> QED
      BY <3>1, <3>2 DEF Kinds, Says, StatTypes
  <2> QED
    BY <2>1, <2>2
<1> QED
  BY <1>2, <1>3, <1>4, <1>5 DEF Pipe

LEMMA StepKinds ==
    ASSUME LBInv, [Next]_vars
    PROVE  Kinds
<1>0. PipeOK /\ AcceptOK
  BY DEF LBInv, Sockets
<1>1. pipe' = pipe => Carrying' \subseteq Carrying
  BY DEF Carrying
<1>2. CASE Track \/ Stats \/ UNCHANGED vars
  BY <1>1, <1>2 DEF Track, TrackStats, Aside, TrackTotal, Stats, StatsReads, StatsReturns, vars, Kinds
<1>3. CASE PickNobody \/ Pick \/ DialFails
  BY <1>1, <1>3, Zenon DEF PickNobody, Pick, DialFails, Kinds
<1>4. CASE SendConnError \/ CountConn \/ UncountConn \/ UncountDial \/ SendDialError
  <2>1. PICK t \in {"connError", "conn", "dialError"}, n \in {-1, 0, 1} :
          Send(t, n) /\ UNCHANGED counters /\ pipe' = pipe
    BY <1>4 DEF SendConnError, CountConn, UncountConn, UncountDial, SendDialError
  <2> QED
    BY <1>1, <2>1 DEF Kinds, Says, Grows, StatTypes
<1>5. CASE Dial
  <2>1. PICK c \in Conns : pipe' = [pipe EXCEPT ![c] = [s \in Sides |-> "read"]]
    BY <1>0, <1>5 DEF Dial, AcceptOK
  <2>2. Carrying' \subseteq Carrying
    BY <1>0, <2>1 DEF Carrying, PipeOK
  <2> QED
    BY <1>5, <2>2 DEF Dial, Kinds
<1>6. ASSUME NEW c \in Conns, Accept(c) \/ Closer(c) PROVE Kinds
  <2>1. CASE UncountClosed(c)
    <3>1. Send("conn", -1) /\ UNCHANGED counters /\ pipe' = pipe
      BY <2>1 DEF UncountClosed
    <3> QED
      BY <1>1, <3>1 DEF Kinds, Says, Grows, StatTypes
  <2>2. CASE ~UncountClosed(c)
    BY <1>1, <1>6, <2>2 DEF Accept, Closer, WaitPipes, CloseConn, Kinds
  <2> QED
    BY <2>1, <2>2
<1>7. ASSUME NEW c \in Conns, NEW s \in Sides, Pipe(c, s) PROVE Kinds
  BY <1>0, <1>7, PipeKinds
<1>8. CASE Environment
  BY <1>1, <1>8
  DEF Environment, AcceptFails, AddInstances, RemoveInstance, UpOrDown, Connect, PeerSends, PeerFinishes, PeerStalls, Kinds
<1> QED
  BY <1>2, <1>3, <1>4, <1>5, <1>6, <1>7, <1>8 DEF Next, Start

\* trackStats adds what the message says.
LEMMA TrackCounts ==
    ASSUME ChanOK, CountersOK, TrackStats
    PROVE  LET s == Head(statChan) IN
           /\ s \in Stat /\ s = statChan[1] /\ 1 \in DOMAIN statChan /\ tracker = "receive" /\ seen' = seen
           /\ \A t \in {"conn", "total", "rx", "tx"} :
                stats[t] \in Int /\ stats'[t] = stats[t] + IF t = s.type THEN s.n ELSE 0
           /\ tracker' = IF s.type = "conn" /\ s.n > 0 THEN "total" ELSE "receive"
           /\ stats'["conn"] = stats["conn"] + ConnDelta[s]
           /\ stats'["rx"] - stats'["tx"] = (stats["rx"] - stats["tx"]) + ByteDelta[s]
<1> PICK s : s = Head(statChan)
  OBVIOUS
<1>1. /\ stats' = Count(s) /\ s \in Stat /\ s = statChan[1] /\ 1 \in DOMAIN statChan /\ seen' = seen
      /\ tracker = "receive" /\ tracker' = IF s.type = "conn" /\ s.n > 0 THEN "total" ELSE "receive"
  <2>1. /\ stats' = Count(s) /\ statChan # <<>> /\ statChan' = Tail(statChan) /\ seen' = seen
        /\ tracker = "receive" /\ tracker' = IF s.type = "conn" /\ s.n > 0 THEN "total" ELSE "receive"
    BY DEF TrackStats
  <2>2. s \in Stat
    BY <2>1, ReceiveFacts
  <2>3. s = statChan[1] /\ 1 \in DOMAIN statChan
    BY <2>1 DEF ChanOK
  <2> QED
    BY <2>1, <2>2, <2>3
<1>2. s.type \in StatTypes /\ s.n \in {-1, 0, 1}
  BY <1>1 DEF Stat
<1>3. \A t \in {"conn", "total", "rx", "tx"} :
         stats[t] \in Int /\ stats'[t] = stats[t] + IF t = s.type THEN s.n ELSE 0
  BY <1>1, CountFacts
<1>4. /\ ConnDelta[s] = IF s.type = "conn" THEN s.n ELSE 0
      /\ ByteDelta[s] = IF s.type = "rx" THEN s.n ELSE IF s.type = "tx" THEN 0 - s.n ELSE 0
  BY <1>1 DEF ConnDelta, ByteDelta
<1>5. /\ stats'["conn"] = stats["conn"] + ConnDelta[s]
      /\ stats'["rx"] - stats'["tx"] = (stats["rx"] - stats["tx"]) + ByteDelta[s]
  BY <1>2, <1>3, <1>4
<1> QED
  BY <1>1, <1>3, <1>5

LEMMA InitStats == Init => StatsInv
<1> SUFFICES ASSUME Init PROVE StatsInv
  OBVIOUS
<1>1. /\ statChan = <<>> /\ stats["conn"] = 0 /\ stats["total"] = 0 /\ stats["rx"] = 0 /\ stats["tx"] = 0
      /\ tracker = "receive" /\ DOMAIN seen = {}
  BY DEF Init, StatTypes, Unread
<1>4. CountsInv
  BY <1>1 DEF CountsInv, TakenIn
<1>2. Cardinality(Counted) = 0 /\ Cardinality(Carrying) = 0
  <2>1. Counted = {} /\ Carrying = {}
    BY DEF Init, Idle, Counted, Carrying
  <2> QED
    BY <2>1, FS_EmptySet
<1>3. ASSUME NEW d PROVE Runs(<<>>, d, 0, 0)
  <2> PICK f, q, l, v : f = [k \in 0..0 |-> 0] /\ q = <<>> /\ l = 0 /\ v = 0
    OBVIOUS
  <2>1. l = Len(q)
    OBVIOUS
  <2>2. \E h \in [0..l -> Nat] : h[0] = v /\ h[l] >= v /\ \A k \in 1..l : h[k] = h[k - 1] + d[q[k]]
    <3>1. f \in [0..l -> Nat] /\ f[0] = v /\ f[l] >= v /\ \A k \in 1..l : f[k] = f[k - 1] + d[q[k]]
      OBVIOUS
    <3> QED
      BY <3>1
  <2>3. Runs(q, d, v, v)
    BY <2>1, <2>2, Zenon DEF Runs
  <2> QED
    BY <2>3
<1> QED
  BY <1>1, <1>2, <1>3, <1>4 DEF StatsInv, ConnRuns, ByteRuns

LEMMA ConnRunsStep ==
    ASSUME LBInv, LBInv', ConnRuns, Kinds
    PROVE  ConnRuns'
<1>0. ChanOK /\ CountersOK /\ statChan \in Seq(Stat)
  BY DEF LBInv, Counters, ChanOK
<1>1. /\ Balance = Cardinality(Counted) /\ Cardinality(Counted) \in Nat
      /\ Balance' = Cardinality(Counted)' /\ Cardinality(Counted)' \in Nat
  <2>1. Counted' \subseteq Conns
    BY DEF Counted
  <2> QED
    BY <2>1, CountedSet, FiniteConns DEF LBInv, Counters, ActiveIsCounted, Balance
<1>2. CASE UNCHANGED <<statChan, counters>>
  <2>1. Balance' = Balance
    BY <1>0, <1>2, SameBalance
  <2> QED
    BY <1>1, <1>2, <2>1 DEF ConnRuns, counters
<1>5. CASE Aside
  <2>1. Balance' = Balance /\ statChan' = statChan /\ stats'["conn"] = stats["conn"]
    BY <1>0, <1>5, AsideBalance, AsideFacts
  <2> QED
    BY <1>1, <2>1 DEF ConnRuns
<1>3. CASE TrackStats
  <2>1. Balance' = Balance
    BY <1>0, <1>3, TrackBalance
  <2>2. statChan # <<>> /\ statChan' = Tail(statChan)
    BY <1>3 DEF TrackStats
  <2>3. stats'["conn"] = stats["conn"] + ConnDelta[Head(statChan)]
    BY <1>0, <1>3, TrackCounts
  <2>4. Runs(Tail(statChan), ConnDelta, stats["conn"] + ConnDelta[Head(statChan)], Cardinality(Counted))
    BY <1>0, <1>1, <2>2, RunsReceive, Deltas DEF ConnRuns
  <2> QED
    BY <1>1, <2>1, <2>2, <2>3, <2>4 DEF ConnRuns
<1>4. ASSUME NEW t \in StatTypes, NEW n \in {-1, 0, 1}, Says(t, n) PROVE ConnRuns'
  <2> PICK x : x = [type |-> t, n |-> n]
    OBVIOUS
  <2>1. Send(t, n) /\ UNCHANGED counters /\ stats' = stats /\ statChan' = Append(statChan, x)
    BY <1>4 DEF Says, Send, counters
  <2>2. x \in Stat /\ ConnDelta[x] = IF t = "conn" THEN n ELSE 0
    BY Deltas
  <2>3. Balance' = Balance + ConnDelta[x]
    BY <1>0, <2>1, <2>2, SendBalance
  <2>4. Cardinality(Counted)' <= Cardinality(Counted) + ConnDelta[x]
    BY <1>1, <2>2, <2>3
  <2>5. Runs(Append(statChan, x), ConnDelta, stats["conn"], Cardinality(Counted)')
    <3> PICK m, v : m = Cardinality(Counted)' /\ v = stats["conn"]
      OBVIOUS
    <3>1. m \in Nat /\ m <= Cardinality(Counted) + ConnDelta[x]
      BY <1>1, <2>4
    <3>2. Runs(Append(statChan, x), ConnDelta, v, m)
      BY <1>0, <1>1, <2>2, <3>1, RunsSend, Deltas DEF ConnRuns
    <3> QED
      BY <3>2
  <2> QED
    BY <2>1, <2>5 DEF ConnRuns
<1> QED
  BY <1>2, <1>3, <1>4, <1>5 DEF Kinds

LEMMA ByteRunsStep ==
    ASSUME LBInv, ByteRuns, Kinds
    PROVE  ByteRuns'
<1>0. ChanOK /\ CountersOK /\ statChan \in Seq(Stat)
  BY DEF LBInv, Counters, ChanOK
<1> PICK C, D : C = Carrying /\ D = Carrying'
  OBVIOUS
<1>1. /\ IsFiniteSet(C) /\ Cardinality(C) \in Nat
      /\ IsFiniteSet(D) /\ Cardinality(D) \in Nat
  <2>1. D \subseteq Conns \X Sides
    BY DEF Carrying
  <2> QED
    BY <2>1, FiniteCarrying
<1>2. D \subseteq C => Cardinality(D) <= Cardinality(C)
  BY <1>1, FS_Subset
<1>3. ASSUME NEW q \in Seq(Stat), NEW v, Runs(q, ByteDelta, v, Cardinality(C)), D \subseteq C
      PROVE  Runs(q, ByteDelta, v, Cardinality(D))
  <2> PICK f \in [0..Len(q) -> Nat] :
        /\ f[0] = v /\ f[Len(q)] >= Cardinality(C)
        /\ \A k \in 1..Len(q) : f[k] = f[k - 1] + ByteDelta[q[k]]
    BY <1>3 DEF Runs
  <2>1. f[Len(q)] \in Nat /\ f[Len(q)] >= Cardinality(D)
    BY <1>1, <1>2, <1>3
  <2> QED
    BY <2>1 DEF Runs
<1>4. CASE UNCHANGED <<statChan, counters>> /\ Carrying' \subseteq Carrying
  <2>1. Runs(statChan, ByteDelta, stats["rx"] - stats["tx"], Cardinality(D))
    BY <1>0, <1>3, <1>4 DEF ByteRuns
  <2> QED
    BY <1>4, <2>1 DEF ByteRuns, counters
<1>7. CASE Aside /\ Carrying' \subseteq Carrying
  <2>1. statChan' = statChan /\ stats'["rx"] = stats["rx"] /\ stats'["tx"] = stats["tx"]
    BY <1>0, <1>7, AsideFacts
  <2>2. Runs(statChan, ByteDelta, stats["rx"] - stats["tx"], Cardinality(D))
    BY <1>0, <1>3, <1>7 DEF ByteRuns
  <2> QED
    BY <2>1, <2>2 DEF ByteRuns
<1>5. CASE TrackStats /\ Carrying' \subseteq Carrying
  <2>1. statChan # <<>> /\ statChan' = Tail(statChan) /\ Tail(statChan) \in Seq(Stat)
    BY <1>0, <1>5 DEF TrackStats
  <2>2. stats'["rx"] - stats'["tx"] = (stats["rx"] - stats["tx"]) + ByteDelta[Head(statChan)]
    BY <1>0, <1>5, TrackCounts
  <2>3. Runs(Tail(statChan), ByteDelta, (stats["rx"] - stats["tx"]) + ByteDelta[Head(statChan)], Cardinality(C))
    BY <1>0, <1>1, <2>1, RunsReceive, Deltas DEF ByteRuns
  <2>4. Runs(Tail(statChan), ByteDelta, (stats["rx"] - stats["tx"]) + ByteDelta[Head(statChan)], Cardinality(D))
    BY <1>3, <1>5, <2>1, <2>3
  <2> QED
    BY <2>1, <2>2, <2>4 DEF ByteRuns
<1>6. ASSUME NEW t \in StatTypes, NEW n \in {-1, 0, 1}, Says(t, n) PROVE ByteRuns'
  <2> PICK x, b : x = [type |-> t, n |-> n] /\ b = IF t = "rx" THEN n ELSE IF t = "tx" THEN 0 - n ELSE 0
    OBVIOUS
  <2>1. Send(t, n) /\ stats' = stats /\ statChan' = Append(statChan, x) /\ Grows(b)
    BY <1>6 DEF Says, Send, counters
  <2>2. x \in Stat /\ ByteDelta[x] = b /\ b \in {-1, 0, 1}
    <3>1. b \in {-1, 0, 1}
      OBVIOUS
    <3>2. /\ [type |-> t, n |-> n] \in Stat
          /\ ByteDelta[[type |-> t, n |-> n]] = IF t = "rx" THEN n ELSE IF t = "tx" THEN 0 - n ELSE 0
      BY Deltas
    <3> QED
      BY <3>1, <3>2, Zenon
  <2>3. Cardinality(D) <= Cardinality(C) + b
    <3>1. CASE b = 0
      BY <1>1, <1>2, <2>1, <3>1 DEF Grows
    <3>2. CASE b = 1
      <4>1. PICK p : D \subseteq C \cup {p}
        BY <2>1, <3>2 DEF Grows
      <4>2. /\ IsFiniteSet(C \cup {p})
            /\ Cardinality(C \cup {p}) \in {Cardinality(C), Cardinality(C) + 1}
        BY <1>1, FS_AddElement
      <4>3. Cardinality(D) <= Cardinality(C \cup {p})
        BY <4>1, <4>2, FS_Subset
      <4> QED
        BY <1>1, <3>2, <4>2, <4>3
    <3>3. CASE b = -1
      <4>1. PICK p \in C : D \subseteq C \ {p}
        BY <2>1, <3>3 DEF Grows
      <4>2. IsFiniteSet(C \ {p}) /\ Cardinality(C \ {p}) = Cardinality(C) - 1
        BY <1>1, <4>1, FS_RemoveElement
      <4>3. Cardinality(D) <= Cardinality(C \ {p})
        BY <4>1, <4>2, FS_Subset
      <4> QED
        BY <1>1, <3>3, <4>2, <4>3
    <3> QED
      BY <2>2, <3>1, <3>2, <3>3
  <2>4. Runs(Append(statChan, x), ByteDelta, stats["rx"] - stats["tx"], Cardinality(D))
    <3> PICK m, v, k : m = Cardinality(D) /\ v = stats["rx"] - stats["tx"] /\ k = Cardinality(C)
      OBVIOUS
    <3>1. m \in Nat /\ k \in Nat /\ m <= k + ByteDelta[x] /\ Runs(statChan, ByteDelta, v, k)
      BY <1>1, <2>2, <2>3 DEF ByteRuns
    <3>2. Runs(Append(statChan, x), ByteDelta, v, m)
      BY <1>0, <2>2, <3>1, RunsSend, Deltas
    <3> QED
      BY <3>2
  <2> QED
    BY <2>1, <2>4 DEF ByteRuns
<1> QED
  BY <1>4, <1>5, <1>6, <1>7 DEF Kinds

\* The counters on the way: the active connections were taken in, and so was what Stats has seen.
LEMMA CountsStep ==
    ASSUME LBInv, StatsInv, Kinds, stats["conn"] \in Nat, stats["rx"] - stats["tx"] \in Nat
    PROVE  CountsInv'
<1>0. /\ ChanOK /\ CountersOK /\ statChan \in Seq(Stat) /\ CountsInv
      /\ stats["conn"] \in Int /\ stats["total"] \in Int /\ stats["rx"] \in Int /\ stats["tx"] \in Int
      /\ \A t \in DOMAIN seen : t \in {"conn", "total", "rx", "tx"} /\ seen[t] \in Int
  BY PeersAssumption DEF LBInv, Counters, ChanOK, StatsInv, CountersOK, StatTypes
<1>1. CASE TrackStats
  <2> PICK s : s = Head(statChan)
    OBVIOUS
  <2>1. /\ s \in Stat /\ s = statChan[1] /\ 1 \in DOMAIN statChan /\ tracker = "receive" /\ seen' = seen
        /\ \A t \in {"conn", "total", "rx", "tx"} : stats'[t] = stats[t] + IF t = s.type THEN s.n ELSE 0
        /\ tracker' = IF s.type = "conn" /\ s.n > 0 THEN "total" ELSE "receive"
    BY <1>0, <1>1, TrackCounts
  <2>2. s.n \in {-1, 0, 1} /\ s.type \in StatTypes /\ (s.type \in {"rx", "tx"} => s.n >= 0)
    BY <1>0, <2>1 DEF Stat, CountsInv
  <2>3. \A k \in DOMAIN statChan' : statChan'[k].type \in {"rx", "tx"} => statChan'[k].n >= 0
    <3>1. statChan # <<>> /\ statChan' = Tail(statChan)
      BY <1>1 DEF TrackStats
    <3>2. \A k \in DOMAIN Tail(statChan) : k + 1 \in DOMAIN statChan /\ Tail(statChan)[k] = statChan[k + 1]
      BY <1>0, <3>1
    <3> QED
      BY <1>0, <3>1, <3>2 DEF CountsInv
  <2>4. /\ stats'["total"] = stats["total"] /\ stats'["rx"] >= stats["rx"] /\ stats'["tx"] >= stats["tx"]
        /\ stats'["rx"] \in Int /\ stats'["tx"] \in Int /\ TakenIn \in Int /\ TakenIn' \in Int
        /\ TakenIn' >= TakenIn /\ stats'["conn"] <= TakenIn'
    <3>1. stats'["total"] = stats["total"]
      <4>1. "total" # s.type
        BY <2>2 DEF StatTypes
      <4> QED
        BY <1>0, <2>1, <4>1
    <3>2. stats["conn"] <= stats["total"] /\ TakenIn = stats["total"] /\ TakenIn' = stats["total"] + IF tracker' = "total" THEN 1 ELSE 0
      BY <1>0, <2>1, <3>1 DEF CountsInv, TakenIn
    <3>3. stats'["conn"] = stats["conn"] + IF "conn" = s.type THEN s.n ELSE 0
      BY <2>1
    <3>4. stats'["conn"] <= TakenIn'
      BY <1>0, <2>1, <2>2, <3>2, <3>3
    <3>5. /\ stats'["rx"] = stats["rx"] + IF "rx" = s.type THEN s.n ELSE 0
          /\ stats'["tx"] = stats["tx"] + IF "tx" = s.type THEN s.n ELSE 0
      BY <2>1
    <3> QED
      BY <1>0, <2>2, <3>1, <3>2, <3>4, <3>5
  <2>5. \A t \in DOMAIN seen' : seen'[t] >= 0 /\ seen'[t] <= Limit(t)'
    BY <1>0, <2>1, <2>4 DEF CountsInv, Limit
  <2> QED
    BY <1>0, <2>3, <2>4, <2>5 DEF CountsInv
<1>2. CASE Aside
  <2>1. /\ statChan' = statChan /\ stats'["conn"] = stats["conn"] /\ stats'["rx"] = stats["rx"] /\ stats'["tx"] = stats["tx"]
        /\ \/ /\ tracker = "total" /\ tracker' = "receive" /\ stats'["total"] = stats["total"] + 1 /\ seen' = seen
           \/ /\ tracker' = tracker /\ stats'["total"] = stats["total"]
              /\ \A t \in DOMAIN seen' : \/ t \in DOMAIN seen /\ seen'[t] = seen[t]
                                         \/ t \in {"conn", "total", "rx", "tx"} /\ seen'[t] = stats[t]
    BY <1>0, <1>2, AsideFacts
  <2>2. TakenIn' = TakenIn /\ TakenIn \in Int /\ TakenIn >= stats["total"] /\ stats'["total"] >= 0
    BY <1>0, <2>1 DEF TakenIn, CountsInv
  <2>3. \A t : Limit(t)' = Limit(t)
    BY <2>1, <2>2 DEF Limit
  <2>4. \A t \in {"conn", "total", "rx", "tx"} : stats[t] >= 0 /\ stats[t] <= Limit(t)
    BY <1>0, <2>2 DEF Limit, CountsInv
  <2>5. \A t \in DOMAIN seen' : seen'[t] >= 0 /\ seen'[t] <= Limit(t)'
    <3> SUFFICES ASSUME NEW t \in DOMAIN seen' PROVE seen'[t] >= 0 /\ seen'[t] <= Limit(t)
      BY <2>3
    <3>1. CASE t \in DOMAIN seen /\ seen'[t] = seen[t]
      BY <1>0, <3>1 DEF CountsInv
    <3>2. CASE t \in {"conn", "total", "rx", "tx"} /\ seen'[t] = stats[t]
      BY <2>4, <3>2
    <3> QED
      BY <2>1, <3>1, <3>2
  <2> QED
    BY <1>0, <2>1, <2>2, <2>5 DEF CountsInv
<1>3. ASSUME UNCHANGED counters,
             \A k \in DOMAIN statChan' : statChan'[k].type \in {"rx", "tx"} => statChan'[k].n >= 0
      PROVE  CountsInv'
  <2>1. stats' = stats /\ tracker' = tracker /\ seen' = seen
    BY <1>3 DEF counters
  <2> QED
    BY <1>0, <1>3, <2>1 DEF CountsInv, TakenIn, Limit
<1>4. CASE UNCHANGED <<statChan, counters>>
  BY <1>0, <1>3, <1>4 DEF CountsInv
<1>5. ASSUME NEW t \in StatTypes, NEW n \in {-1, 0, 1}, Says(t, n) PROVE CountsInv'
  <2>1. /\ statChan' = Append(statChan, [type |-> t, n |-> n]) /\ UNCHANGED counters
        /\ t \in {"rx", "tx"} => n >= 0
    BY <1>5 DEF Says, Send
  <2> PICK x : x = [type |-> t, n |-> n]
    OBVIOUS
  <2>2. x \in Stat /\ x.type = t /\ x.n = n
    BY DEF Stat
  <2>3. \A k \in DOMAIN Append(statChan, x) : (k \in DOMAIN statChan /\ Append(statChan, x)[k] = statChan[k]) \/ Append(statChan, x)[k] = x
    BY <1>0, <2>2
  <2> QED
    BY <1>0, <1>3, <2>1, <2>2, <2>3 DEF CountsInv
<1> QED
  BY <1>1, <1>2, <1>4, <1>5 DEF Kinds

\* No counter is negative, no more connections are active than were taken in, nothing is
\* sent that was not received; and no counter that Stats has read says otherwise.
THEOREM LoadBalancerStatsMakeSense == Spec => []StatsMakeSense
<1>0. LBInv /\ StatsInv => /\ stats["conn"] \in Nat /\ stats["rx"] - stats["tx"] \in Nat
                           /\ stats["total"] \in Int /\ stats["rx"] \in Int /\ stats["tx"] \in Int
  <2> SUFFICES ASSUME LBInv, StatsInv
               PROVE  /\ stats["conn"] \in Nat /\ stats["rx"] - stats["tx"] \in Nat
                      /\ stats["total"] \in Int /\ stats["rx"] \in Int /\ stats["tx"] \in Int
    OBVIOUS
  <2>1. stats["total"] \in Int /\ stats["rx"] \in Int /\ stats["tx"] \in Int /\ Len(statChan) \in Nat
    BY DEF LBInv, Counters, CountersOK, ChanOK, StatTypes
  <2>2. \A d, v, n : Runs(statChan, d, v, n) => v \in Nat
    BY <2>1 DEF Runs
  <2> QED
    BY <2>1, <2>2 DEF StatsInv, ConnRuns, ByteRuns
<1>1. LBInv /\ LBInv' /\ StatsInv /\ [Next]_vars => StatsInv'
  <2> SUFFICES ASSUME LBInv, LBInv', StatsInv, [Next]_vars PROVE StatsInv'
    OBVIOUS
  <2>1. Kinds
    BY StepKinds
  <2>2. ConnRuns' /\ ByteRuns'
    BY <2>1, ConnRunsStep, ByteRunsStep DEF StatsInv
  <2>3. CountsInv'
    BY <1>0, <2>1, CountsStep
  <2> QED
    BY <2>2, <2>3 DEF StatsInv
<1>2. LBInv /\ StatsInv => StatsMakeSense
  <2> SUFFICES ASSUME LBInv, StatsInv PROVE StatsMakeSense
    OBVIOUS
  <2>1. /\ stats["conn"] \in Nat /\ stats["rx"] - stats["tx"] \in Nat
        /\ stats["total"] \in Int /\ stats["rx"] \in Int /\ stats["tx"] \in Int /\ CountsInv
    BY <1>0 DEF StatsInv
  <2>2. \A t \in {"conn", "total", "rx", "tx"} : stats[t] >= 0 /\ stats[t] <= Limit(t)
    BY <2>1 DEF CountsInv, Limit, TakenIn
  <2> QED
    BY <2>1, <2>2 DEF CountsInv, StatsMakeSense
<1> QED
  BY <1>1, <1>2, InitStats, LoadBalancerInductive, PTL DEF Spec
=============================================================================
