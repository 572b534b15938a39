---------------------------- MODULE LoadBalancer ----------------------------
(***************************************************************************)
(* One listener of the load balancer (sysd/loadbalancer/loadbalancer.go):   *)
(* its accept loop, the goroutines of each connection, and trackStats,      *)
(* which alone adds up the statistics the others send it over statChan.     *)
(*                                                                          *)
(* A connection c has two sockets, "l" towards the client and "r" towards   *)
(* the instance, and two pipes, each named by the socket it reads from. A   *)
(* peer sends at most one chunk of data, of size one, and the instance      *)
(* answers only a request it has got. A peer may stop to read: what is      *)
(* written to it then waits, for a socket has no deadline.                  *)
(*                                                                          *)
(* Stats reads the counters without a lock, while trackStats changes them:  *)
(* each of them at some moment of the call, in an order the build decides.  *)
(***************************************************************************)
EXTENDS Integers, Sequences, FiniteSets

CONSTANTS
    Conns,      \* the connections clients make
    Addrs,      \* the addresses tasks add and remove
    Senders,    \* the peers, <<connection, side>>, that send data at all
    Vanishing,  \* those that may disappear, and reset the connection
    Slow,       \* those that may stop to read
    Reported,   \* the counters a caller of Stats looks at
    ChanSize,   \* capacity of statChan
    MaxErrors   \* bound on the errors of Accept

ASSUME ConnsAssumption == IsFiniteSet(Conns)
ASSUME SizesAssumption == ChanSize \in Nat \ {0} /\ MaxErrors \in Nat

Sides == {"l", "r"}

ASSUME PeersAssumption ==
    /\ Senders \subseteq Conns \X Sides /\ Vanishing \subseteq Conns \X Sides
    /\ Slow \subseteq Conns \X Sides /\ Reported \subseteq {"conn", "total", "rx", "tx"}

Other(s) == IF s = "l" THEN "r" ELSE "l"

StatTypes == {"tx", "rx", "conn", "connError", "readError", "writeError", "dialError"}

VARIABLES
    instances,  \* li.instances
    up,         \* the addresses where a process accepts connections
    accept,     \* the accept loop: where it is, and its connection and destination
    pipe,       \* the two pipes of each connection
    closer,     \* the goroutine that waits for both of them
    open,       \* the sockets paasbox holds open
    statChan,
    stats,      \* the counters
    tracker,    \* trackStats: it receives, or has still to raise totalConns
    seen,       \* what Stats has read of the counters so far
    \* the peers of each connection
    client,     \* "none", "connecting" or "accepted"
    sent,       \* the sides that have sent their chunk
    fin,        \* the sides that have finished sending
    gone,       \* the sides that do not receive any more either
    stalled,    \* the sides that do not read, and whose buffers are full
    arrived,    \* chunks that arrived at a socket and were not read yet
    got,        \* chunks each side has received
    errors

counters == <<stats, tracker, seen>>
peers == <<client, sent, fin, gone, stalled>>
data == <<arrived, got>>
vars == <<instances, up, accept, pipe, closer, open, statChan, counters, peers, data, errors>>

Unread == [t \in {} |-> 0]

Idle == [pc |-> "accept", conn |-> {}, dest |-> {}]

Init ==
    /\ instances = {} /\ up = {}
    /\ accept = Idle
    /\ pipe = [c \in Conns |-> [s \in Sides |-> "none"]]
    /\ closer = [c \in Conns |-> "none"]
    /\ open = [c \in Conns |-> {}]
    /\ statChan = <<>> /\ stats = [t \in StatTypes \cup {"total"} |-> 0]
    /\ tracker = "receive" /\ seen = Unread
    /\ client = [c \in Conns |-> "none"]
    /\ sent = [c \in Conns |-> {}] /\ fin = [c \in Conns |-> {}] /\ gone = [c \in Conns |-> {}]
    /\ stalled = [c \in Conns |-> {}]
    /\ arrived = [c \in Conns |-> [s \in Sides |-> 0]]
    /\ got = [c \in Conns |-> [s \in Sides |-> 0]]
    /\ errors = 0

\* Mutant: a channel without a capacity.
SendNow(t, n) == statChan' = Append(statChan, [type |-> t, n |-> n])

\* `li.statChan <- listenerStat{t, n}' waits for room.
Send(t, n) ==
    /\ Len(statChan) < ChanSize
    /\ statChan' = Append(statChan, [type |-> t, n |-> n])

-----------------------------------------------------------------------------
(* trackStats.                                                              *)

\* Bytes and active connections add up; an error is one more.
Count(s) == [stats EXCEPT ![s.type] = @ + IF s.type \in {"rx", "tx", "conn"} THEN s.n ELSE 1]

TrackStats ==
    /\ tracker = "receive" /\ statChan # <<>>
    /\ stats' = Count(Head(statChan)) /\ statChan' = Tail(statChan)
    /\ tracker' = IF Head(statChan).type = "conn" /\ Head(statChan).n > 0 THEN "total" ELSE "receive"
    /\ UNCHANGED <<instances, up, accept, pipe, closer, open, seen, peers, data, errors>>

\* A new connection also counts for the total, which is another variable.
TrackTotal ==
    /\ tracker = "total" /\ tracker' = "receive"
    /\ stats' = [stats EXCEPT !["total"] = @ + 1]
    /\ UNCHANGED <<instances, up, accept, pipe, closer, open, statChan, seen, peers, data, errors>>

-----------------------------------------------------------------------------
(* Stats.                                                                   *)

StatsReads(t) ==
    /\ t \in Reported \ DOMAIN seen
    /\ seen' = [u \in DOMAIN seen \cup {t} |-> IF u = t THEN stats[t] ELSE seen[u]]
    /\ UNCHANGED <<instances, up, accept, pipe, closer, open, statChan, stats, tracker, peers, data, errors>>

StatsReturns ==
    /\ DOMAIN seen = Reported /\ seen' = Unread
    /\ UNCHANGED <<instances, up, accept, pipe, closer, open, statChan, stats, tracker, peers, data, errors>>

-----------------------------------------------------------------------------
(* The accept loop.                                                         *)

AcceptFails ==
    /\ accept.pc = "accept" /\ errors < MaxErrors
    /\ errors' = errors + 1
    /\ accept' = [accept EXCEPT !.pc = "connError"]
    /\ UNCHANGED <<instances, up, pipe, closer, open, statChan, counters, peers, data>>

SendConnError ==
    /\ accept.pc = "connError" /\ Send("connError", 1)
    /\ accept' = Idle
    /\ UNCHANGED <<instances, up, pipe, closer, open, counters, peers, data, errors>>

Accept(c) ==
    /\ accept.pc = "accept" /\ client[c] = "connecting"
    /\ client' = [client EXCEPT ![c] = "accepted"]
    /\ open' = [open EXCEPT ![c] = {"l"}]
    /\ accept' = [pc |-> "count", conn |-> {c}, dest |-> {}]
    /\ UNCHANGED <<instances, up, pipe, closer, statChan, counters, sent, fin, gone, stalled, data, errors>>

CountConn ==
    /\ accept.pc = "count" /\ Send("conn", 1)
    /\ accept' = [accept EXCEPT !.pc = "pick"]
    /\ UNCHANGED <<instances, up, pipe, closer, open, counters, peers, data, errors>>

\* The client's socket is closed when the connection goes nowhere.
Hangup == open' = [c \in Conns |-> IF c \in accept.conn THEN {} ELSE open[c]]

\* Under the read lock: nobody to pick ...
PickNobody ==
    /\ accept.pc = "pick" /\ instances = {}
    /\ Hangup
    /\ accept' = [accept EXCEPT !.pc = "uncount"]
    /\ UNCHANGED <<instances, up, pipe, closer, statChan, counters, peers, data, errors>>

\* ... or one of the instances at random.
Pick ==
    /\ accept.pc = "pick"
    /\ \E a \in instances : accept' = [accept EXCEPT !.pc = "dial", !.dest = {a}]
    /\ UNCHANGED <<instances, up, pipe, closer, open, statChan, counters, peers, data, errors>>

\* Mutant: the accepted socket is forgotten when the dial fails.
DialFailsOpen ==
    /\ accept.pc = "dial" /\ ~(accept.dest \subseteq up)
    /\ accept' = [accept EXCEPT !.pc = "undial"]
    /\ UNCHANGED <<instances, up, pipe, closer, open, statChan, counters, peers, data, errors>>

\* The lock is gone by now, and so may be the instance.
DialFails ==
    /\ accept.pc = "dial" /\ ~(accept.dest \subseteq up)
    /\ Hangup
    /\ accept' = [accept EXCEPT !.pc = "undial"]
    /\ UNCHANGED <<instances, up, pipe, closer, statChan, counters, peers, data, errors>>

\* Connected: the goroutines of the connection are started.
Dial ==
    /\ accept.pc = "dial" /\ accept.dest \subseteq up
    /\ \E c \in accept.conn :
         /\ open' = [open EXCEPT ![c] = Sides]
         /\ pipe' = [pipe EXCEPT ![c] = [s \in Sides |-> "read"]]
         /\ closer' = [closer EXCEPT ![c] = "waiting"]
    /\ accept' = Idle
    /\ UNCHANGED <<instances, up, statChan, counters, peers, data, errors>>

\* Mutant: the connection nobody took stays on the books.
KeepConn ==
    /\ accept.pc = "uncount" /\ accept' = Idle
    /\ UNCHANGED <<instances, up, pipe, closer, open, statChan, counters, peers, data, errors>>

UncountConn ==
    /\ accept.pc = "uncount" /\ Send("conn", -1)
    /\ accept' = Idle
    /\ UNCHANGED <<instances, up, pipe, closer, open, counters, peers, data, errors>>

UncountDial ==
    /\ accept.pc = "undial" /\ Send("conn", -1)
    /\ accept' = [accept EXCEPT !.pc = "dialError"]
    /\ UNCHANGED <<instances, up, pipe, closer, open, counters, peers, data, errors>>

SendDialError ==
    /\ accept.pc = "dialError" /\ Send("dialError", 1)
    /\ accept' = Idle
    /\ UNCHANGED <<instances, up, pipe, closer, open, counters, peers, data, errors>>

-----------------------------------------------------------------------------
(* pipe(src, dst): one goroutine per direction.                             *)

Goto(c, s, pc) == pipe' = [pipe EXCEPT ![c][s] = pc]

\* Read returns a chunk, the end of the stream, or an error: of a socket that
\* the other pipe has closed, or a reset by a peer that is gone.
Read(c, s) ==
    /\ pipe[c][s] = "read"
    /\ \/ /\ s \in open[c] /\ arrived[c][s] > 0
          /\ arrived' = [arrived EXCEPT ![c][s] = @ - 1]
          /\ Goto(c, s, "rxChunk")
       \/ /\ s \in open[c] /\ arrived[c][s] = 0 /\ s \in fin[c]
          /\ Goto(c, s, "rxEnd") /\ UNCHANGED arrived
       \/ /\ s \notin open[c] \/ s \in gone[c]
          /\ Goto(c, s, "rxError") /\ UNCHANGED arrived
    /\ UNCHANGED <<instances, up, accept, closer, open, statChan, counters, peers, got, errors>>

\* Mutant: the bytes are counted before they are read.
SendRXEarly(c, s) ==
    /\ \/ pipe[c][s] = "rxChunk" /\ Send("rx", 0) /\ Goto(c, s, "write")
       \/ pipe[c][s] = "rxEnd" /\ Send("rx", 0) /\ Goto(c, s, "closeDst")
       \/ pipe[c][s] = "rxError" /\ Send("rx", 0) /\ Goto(c, s, "readError")
    /\ UNCHANGED <<instances, up, accept, closer, open, counters, peers, data, errors>>

SendRX(c, s) ==
    /\ \/ pipe[c][s] = "rxChunk" /\ Send("rx", 1) /\ Goto(c, s, "write")
       \/ pipe[c][s] = "rxEnd" /\ Send("rx", 0) /\ Goto(c, s, "closeDst")
       \/ pipe[c][s] = "rxError" /\ Send("rx", 0) /\ Goto(c, s, "readError")
    /\ UNCHANGED <<instances, up, accept, closer, open, counters, peers, data, errors>>

SendReadError(c, s) ==
    /\ pipe[c][s] = "readError" /\ Send("readError", 1) /\ Goto(c, s, "closeDst")
    /\ UNCHANGED <<instances, up, accept, closer, open, counters, peers, data, errors>>

\* Mutant: the pipe closes nothing and leaves it to the end of the connection.
CloseNothing(c, s) ==
    /\ pipe[c][s] = "closeDst" /\ Goto(c, s, "end")
    /\ UNCHANGED <<instances, up, accept, closer, open, statChan, counters, peers, data, errors>>

\* The end of one direction closes the other socket, for both directions.
CloseDst(c, s) ==
    /\ pipe[c][s] = "closeDst" /\ Goto(c, s, "end")
    /\ open' = [open EXCEPT ![c] = @ \ {Other(s)}]
    /\ UNCHANGED <<instances, up, accept, closer, statChan, counters, peers, data, errors>>

\* What is written to a peer that is gone is lost, with an error or without; what is
\* written to a peer that does not read waits until it reads, or until either end is closed.
Write(c, s) ==
    /\ pipe[c][s] = "write"
    /\ \/ /\ Other(s) \in open[c] /\ Other(s) \notin stalled[c] \ gone[c] /\ Goto(c, s, "txChunk")
          /\ got' = IF Other(s) \in gone[c] THEN got ELSE [got EXCEPT ![c][Other(s)] = @ + 1]
       \/ /\ Other(s) \notin open[c] \/ Other(s) \in gone[c]
          /\ Goto(c, s, "txError") /\ UNCHANGED got
    /\ UNCHANGED <<instances, up, accept, closer, open, statChan, counters, peers, arrived, errors>>

SendTX(c, s) ==
    /\ \/ pipe[c][s] = "txChunk" /\ Send("tx", 1) /\ Goto(c, s, "read")
       \/ pipe[c][s] = "txError" /\ Send("tx", 0) /\ Goto(c, s, "writeError")
    /\ UNCHANGED <<instances, up, accept, closer, open, counters, peers, data, errors>>

SendWriteError(c, s) ==
    /\ pipe[c][s] = "writeError" /\ Send("writeError", 1) /\ Goto(c, s, "closeSrc")
    /\ UNCHANGED <<instances, up, accept, closer, open, counters, peers, data, errors>>

CloseSrc(c, s) ==
    /\ pipe[c][s] = "closeSrc" /\ Goto(c, s, "end")
    /\ open' = [open EXCEPT ![c] = @ \ {s}]
    /\ UNCHANGED <<instances, up, accept, closer, statChan, counters, peers, data, errors>>

\* wg.Wait; then the deferred calls: the statistics first, the sockets after.
WaitPipes(c) ==
    /\ closer[c] = "waiting" /\ \A s \in Sides : pipe[c][s] = "end"
    /\ closer' = [closer EXCEPT ![c] = "uncount"]
    /\ UNCHANGED <<instances, up, accept, pipe, open, statChan, counters, peers, data, errors>>

UncountClosed(c) ==
    /\ closer[c] = "uncount" /\ Send("conn", -1)
    /\ closer' = [closer EXCEPT ![c] = "close"]
    /\ UNCHANGED <<instances, up, accept, pipe, open, counters, peers, data, errors>>

CloseConn(c) ==
    /\ closer[c] = "close"
    /\ closer' = [closer EXCEPT ![c] = "end"]
    /\ open' = [open EXCEPT ![c] = {}]
    /\ UNCHANGED <<instances, up, accept, pipe, statChan, counters, peers, data, errors>>

-----------------------------------------------------------------------------
(* The task's calls, and the environment.                                   *)

AddInstances(a) ==
    /\ a \notin instances /\ instances' = instances \cup {a}
    /\ UNCHANGED <<up, accept, pipe, closer, open, statChan, counters, peers, data, errors>>

RemoveInstance(a) ==
    /\ a \in instances /\ instances' = instances \ {a}
    /\ UNCHANGED <<up, accept, pipe, closer, open, statChan, counters, peers, data, errors>>

\* The process behind an address starts or stops to accept connections.
UpOrDown(a) ==
    /\ up' = (up \cup {a}) \ (up \cap {a})
    /\ UNCHANGED <<instances, accept, pipe, closer, open, statChan, counters, peers, data, errors>>

Connect(c) ==
    /\ client[c] = "none" /\ client' = [client EXCEPT ![c] = "connecting"]
    /\ UNCHANGED <<instances, up, accept, pipe, closer, open, statChan, counters, sent, fin, gone, stalled, data, errors>>

\* A client sends when it likes, an instance when it has a request to answer.
PeerSends(c, s) ==
    /\ <<c, s>> \in Senders /\ s \in open[c] /\ s \notin sent[c] \cup fin[c]
    /\ s = "r" => got[c]["r"] > 0
    /\ sent' = [sent EXCEPT ![c] = @ \cup {s}]
    /\ arrived' = [arrived EXCEPT ![c][s] = 1]
    /\ UNCHANGED <<instances, up, accept, pipe, closer, open, statChan, counters, client, fin, gone, stalled, got, errors>>

\* It shuts down its side of the connection, or all of it.
PeerFinishes(c, s) ==
    /\ s \in open[c] /\ s \notin gone[c]
    /\ fin' = [fin EXCEPT ![c] = @ \cup {s}]
    /\ \/ s \notin fin[c] /\ UNCHANGED gone
       \/ <<c, s>> \in Vanishing /\ gone' = [gone EXCEPT ![c] = @ \cup {s}]
    /\ UNCHANGED <<instances, up, accept, pipe, closer, open, statChan, counters, client, sent, stalled, data, errors>>

\* It stops to read, and its buffers fill; or it reads again.
PeerStalls(c, s) ==
    /\ <<c, s>> \in Slow /\ s \in open[c] /\ s \notin gone[c]
    /\ stalled' = [stalled EXCEPT ![c] = (@ \cup {s}) \ (@ \cap {s})]
    /\ UNCHANGED <<instances, up, accept, pipe, closer, open, statChan, counters, client, sent, fin, gone, data, errors>>

-----------------------------------------------------------------------------
Start ==
    \/ SendConnError \/ CountConn \/ PickNobody \/ Pick \/ DialFails \/ Dial
    \/ UncountConn \/ UncountDial \/ SendDialError

Pipe(c, s) ==
    \/ Read(c, s) \/ SendRX(c, s) \/ SendReadError(c, s) \/ CloseDst(c, s)
    \/ Write(c, s) \/ SendTX(c, s) \/ SendWriteError(c, s) \/ CloseSrc(c, s)

Closer(c) == WaitPipes(c) \/ UncountClosed(c) \/ CloseConn(c)

Environment ==
    \/ AcceptFails
    \/ \E a \in Addrs : AddInstances(a) \/ RemoveInstance(a) \/ UpOrDown(a)
    \/ \E c \in Conns : Connect(c) \/ \E s \in Sides : PeerSends(c, s) \/ PeerFinishes(c, s) \/ PeerStalls(c, s)

Track == TrackStats \/ TrackTotal

Stats == StatsReturns \/ \E t \in Reported : StatsReads(t)

Next ==
    \/ Track \/ Stats \/ Start
    \/ \E c \in Conns : Accept(c) \/ Closer(c) \/ \E s \in Sides : Pipe(c, s)
    \/ Environment

Spec == Init /\ [][Next]_vars

\* The goroutines are scheduled; nobody has to connect, to send, to read or to finish.
\* Weak fairness is enough: what a bounded number of peers can send is bounded,
\* so that statChan, which trackStats empties, has room for good in the end.
Fairness ==
    /\ WF_vars(Track) /\ WF_vars(Start)
    /\ \A c \in Conns : WF_vars(Accept(c)) /\ WF_vars(Closer(c)) /\ \A s \in Sides : WF_vars(Pipe(c, s))

FairSpec == Spec /\ Fairness

-----------------------------------------------------------------------------
(* Properties.                                                              *)

\* Every variable keeps its type, and statChan its capacity.
TypeOK ==
    /\ instances \subseteq Addrs /\ up \subseteq Addrs
    /\ accept \in [pc : {"accept", "connError", "count", "pick", "dial", "uncount", "undial", "dialError"},
                   conn : SUBSET Conns, dest : SUBSET Addrs]
    /\ pipe \in [Conns -> [Sides -> {"none", "read", "rxChunk", "rxEnd", "rxError", "readError", "closeDst",
                                    "write", "txChunk", "txError", "writeError", "closeSrc", "end"}]]
    /\ closer \in [Conns -> {"none", "waiting", "uncount", "close", "end"}]
    /\ open \in [Conns -> SUBSET Sides]
    /\ statChan \in Seq([type : StatTypes, n : {-1, 0, 1}]) /\ Len(statChan) <= ChanSize
    /\ stats \in [StatTypes \cup {"total"} -> Int] /\ tracker \in {"receive", "total"}
    /\ DOMAIN seen \subseteq Reported /\ \A t \in DOMAIN seen : seen[t] \in Int
    /\ client \in [Conns -> {"none", "connecting", "accepted"}]
    /\ sent \in [Conns -> SUBSET Sides] /\ fin \in [Conns -> SUBSET Sides] /\ gone \in [Conns -> SUBSET Sides]
    /\ stalled \in [Conns -> SUBSET Sides]
    /\ arrived \in [Conns -> [Sides -> Nat]] /\ got \in [Conns -> [Sides -> Nat]]
    /\ errors \in 0..MaxErrors

\* The connections that were counted and not uncounted, whoever holds them.
Counted ==
    {c \in Conns : \/ c \in accept.conn /\ accept.pc \in {"pick", "dial", "uncount", "undial"}
                   \/ closer[c] \in {"waiting", "uncount"}}

Pending(n) == Cardinality({k \in DOMAIN statChan : statChan[k] = [type |-> "conn", n |-> n]})

\* No connection is counted twice, or uncounted twice, or forgotten, on whatever
\* path it ends: `active' and what waits in statChan are the connections at work.
ActiveIsCounted == stats["conn"] + Pending(1) - Pending(-1) = Cardinality(Counted)

\* The connections trackStats has taken in, the one whose total it has not raised included.
TakenIn == stats["total"] + (IF tracker = "total" THEN 1 ELSE 0)

\* What no counter may exceed.
Limit(t) == CASE t \in {"conn", "total"} -> TakenIn [] t \in {"rx", "tx"} -> stats["rx"]

\* A connection is counted before it is uncounted, and bytes are received before they
\* are sent: no counter is ever negative, no more connections are active than were
\* taken in, and no more is sent than was received. Stats, which reads the counters one
\* by one, in any order and without a lock, reports no counter that says otherwise of
\* the moment it returns.
StatsMakeSense ==
    /\ \A t \in {"conn", "total", "rx", "tx"} : stats[t] >= 0 /\ stats[t] <= Limit(t)
    /\ \A t \in DOMAIN seen : seen[t] >= 0 /\ seen[t] <= Limit(t)

\* A connection that nobody works on any more holds no socket.
EndedIsClosed ==
    \A c \in Conns : c \notin accept.conn /\ closer[c] \in {"none", "end"} => open[c] = {}

\* A pipe that cannot go on: its data waits for a peer that does not read.
Stuck(c) == \E s \in Sides : pipe[c][s] = "write" /\ Other(s) \in stalled[c] \ gone[c]

\* When either peer finishes, both sockets are closed in the end, and nothing but a peer
\* that leaves data unread can prevent it: no pipe waits for the other, or for trackStats,
\* for ever.
ConnectionEnds == \A c \in Conns : (fin[c] # {} /\ closer[c] # "none") ~> (open[c] = {} \/ Stuck(c))

\* When no connection is left, the number of active ones drops to zero.
CountsSettle ==
    <>[](\A c \in Conns : open[c] = {} /\ client[c] # "connecting") => <>[](stats["conn"] = 0)
=============================================================================
