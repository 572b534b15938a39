------------------------------ MODULE LogDriver ------------------------------
(***************************************************************************)
(* The logstash driver (sysd/logger/logger.go): two bounded channels that   *)
(* one goroutine empties with HTTP requests, each repeated until it is      *)
(* answered. Application lines come from the goroutines that tail the files *)
(* of instances (tailLog), paasbox's own messages from callers of the load  *)
(* balancer's Message.                                                      *)
(***************************************************************************)
EXTENDS Integers, SequencesExt

CONSTANTS
    Tails,      \* goroutines that tail a file
    Callers,    \* callers of lbLogger.Message
    Count, Lines,       \* bounds: messages of each caller, lines of each tail
    AppRoom, PBRoom,    \* bufferSize, pbBufferSize
    MaxLost     \* bound: answers lost after logstash has stored the message

ASSUME RoomAssumption == {Count, Lines, AppRoom, PBRoom} \subseteq Nat \ {0} /\ MaxLost \in Nat
ASSUME SenderAssumption == Tails \cap Callers = {}

Senders == Tails \cup Callers
Bound(s) == IF s \in Tails THEN Lines ELSE Count
MessagesOf(S) == UNION {[from : {s}, n : 1..Bound(s)] : s \in S}
Message == MessagesOf(Senders)
Zero == [from |-> {}, n |-> 0]      \* what a closed channel yields
Channels == {"app", "pb"}
Room(c) == IF c = "app" THEN AppRoom ELSE PBRoom
ChannelOf(s) == IF s \in Tails THEN "app" ELSE "pb"

VARIABLES
    queue, open,    \* the channels
    sender,         \* [pc, n]: whether a sender is in Send..., and how often it has been
    driver,         \* [pc, msg] of the goroutine of Start
    stopping,       \* where Stop is
    accepted,       \* history: messages that went into a channel
    stored,         \* history: numbers of the messages of each sender, as logstash stored them
    lost            \* answers lost

driverVars == <<queue, open, sender, driver, stopping, accepted, stored, lost>>

DriverInit ==
    /\ queue = [c \in Channels |-> <<>>] /\ open = [c \in Channels |-> TRUE]
    /\ sender = [s \in Senders |-> [pc |-> "idle", n |-> 0]]
    /\ driver = [pc |-> "off", msg |-> Zero]
    /\ stopping = "no"
    /\ accepted = {} /\ stored = [s \in Senders |-> <<>>] /\ lost = 0

-----------------------------------------------------------------------------
(* Senders.                                                                 *)

\* It calls SendAppMessage or SendPBMessage.
HasMessage(s) ==
    /\ sender[s].pc = "idle" /\ sender[s].n < Bound(s)
    /\ sender' = [sender EXCEPT ![s] = [pc |-> "send", n |-> @.n + 1]]
    /\ UNCHANGED <<queue, open, driver, stopping, accepted, stored, lost>>

HasRoom(c) == Len(queue[c]) < Room(c)

Send(s) ==
    LET c == ChannelOf(s)
        m == [from |-> s, n |-> sender[s].n]
    IN /\ sender[s].pc = "send" /\ open[c] /\ HasRoom(c)
       /\ queue' = [queue EXCEPT ![c] = Append(@, m)]
       /\ accepted' = accepted \cup {m}
       /\ sender' = [sender EXCEPT ![s].pc = "idle"]
       /\ UNCHANGED <<open, driver, stopping, stored, lost>>

\* Mutant: Stop sets the channels to nil, and a send to nil waits for ever.
SendToNil(s) == FALSE /\ UNCHANGED driverVars

\* To send to a closed channel, or to wait for room when it closes, panics; the
\* deferred recover drops the message.
SendPanics(s) ==
    /\ sender[s].pc = "send" /\ ~open[ChannelOf(s)]
    /\ sender' = [sender EXCEPT ![s].pc = "idle"]
    /\ UNCHANGED <<queue, open, driver, stopping, accepted, stored, lost>>

-----------------------------------------------------------------------------
(* The driver's goroutine.                                                  *)

Start ==
    /\ driver.pc = "off"
    /\ driver' = [driver EXCEPT !.pc = "select"]
    /\ UNCHANGED <<queue, open, sender, stopping, accepted, stored, lost>>

Ready(c) == queue[c] # <<>> \/ ~open[c]

\* Mutant: lines before paasbox's own messages.
ReceiveInTurn(c) ==
    /\ driver.pc = "select" /\ Ready(c) /\ (c = "pb" => ~Ready("app"))
    /\ driver' = [pc |-> "post", msg |-> IF queue[c] = <<>> THEN Zero ELSE Head(queue[c])]
    /\ queue' = [queue EXCEPT ![c] = IF @ = <<>> THEN @ ELSE Tail(@)]
    /\ UNCHANGED <<open, sender, stopping, accepted, stored, lost>>

\* A closed channel is always ready, and yields zero values once it is empty.
Receive(c) ==
    /\ driver.pc = "select" /\ Ready(c)
    /\ driver' = [pc |-> "post", msg |-> IF queue[c] = <<>> THEN Zero ELSE Head(queue[c])]
    /\ queue' = [queue EXCEPT ![c] = IF @ = <<>> THEN @ ELSE Tail(@)]
    /\ UNCHANGED <<open, sender, stopping, accepted, stored, lost>>

StoreAtLogstash(m) == stored' = IF m = Zero THEN stored ELSE [stored EXCEPT ![m.from] = Append(@, m.n)]

PostSucceeds ==
    /\ driver.pc = "post"
    /\ StoreAtLogstash(driver.msg)
    /\ driver' = [pc |-> "select", msg |-> Zero]
    /\ UNCHANGED <<queue, open, sender, stopping, accepted, lost>>

\* Mutant: a message that cannot be posted goes back to its channel.
PostPutsBack ==
    /\ driver.pc = "post" /\ driver.msg # Zero /\ HasRoom(ChannelOf(driver.msg.from))
    /\ queue' = [queue EXCEPT ![ChannelOf(driver.msg.from)] = Append(@, driver.msg)]
    /\ driver' = [pc |-> "select", msg |-> Zero]
    /\ UNCHANGED <<open, sender, stopping, accepted, stored, lost>>

\* Mutant: a message that cannot be posted is given up.
PostGivesUp ==
    /\ driver.pc = "post"
    /\ driver' = [pc |-> "select", msg |-> Zero]
    /\ UNCHANGED <<queue, open, sender, stopping, accepted, stored, lost>>

\* No connection, or an answer that is not 200.
PostFails ==
    /\ driver.pc = "post"
    /\ driver' = [driver EXCEPT !.pc = "sleep"]
    /\ UNCHANGED <<queue, open, sender, stopping, accepted, stored, lost>>

\* Logstash stores the message, but its answer does not come within two seconds.
AnswerIsLost ==
    /\ driver.pc = "post" /\ driver.msg # Zero /\ lost < MaxLost
    /\ StoreAtLogstash(driver.msg) /\ lost' = lost + 1
    /\ driver' = [driver EXCEPT !.pc = "sleep"]
    /\ UNCHANGED <<queue, open, sender, stopping, accepted>>

\* After the backoff the same message is posted again.
Retry ==
    /\ driver.pc = "sleep"
    /\ driver' = [driver EXCEPT !.pc = "post"]
    /\ UNCHANGED <<queue, open, sender, stopping, accepted, stored, lost>>

-----------------------------------------------------------------------------
(* Stop: close both channels and wait for the goroutine.                    *)

\* sysd.Start starts the driver before it can stop it.
StopRequest ==
    /\ stopping = "no" /\ driver.pc # "off"
    /\ stopping' = "app"
    /\ UNCHANGED <<queue, open, sender, driver, accepted, stored, lost>>

CloseChannel(c) ==
    /\ stopping = c
    /\ open' = [open EXCEPT ![c] = FALSE]
    /\ stopping' = IF c = "app" THEN "pb" ELSE "wait"
    /\ UNCHANGED <<queue, sender, driver, accepted, stored, lost>>

-----------------------------------------------------------------------------
Driver ==
    \/ Start \/ (\E c \in Channels : Receive(c))
    \/ PostSucceeds \/ PostFails \/ AnswerIsLost \/ Retry

Stop == StopRequest \/ (\E c \in Channels : CloseChannel(c))

-----------------------------------------------------------------------------
(* Properties.                                                              *)

DriverTypeOK ==
    /\ queue \in [Channels -> Seq(Message)] /\ \A c \in Channels : Len(queue[c]) <= Room(c)
    /\ open \in [Channels -> BOOLEAN]
    /\ sender \in [Senders -> [pc : {"idle", "send"}, n : Nat]]
    /\ \A s \in Senders : sender[s].n <= Bound(s)
    /\ driver \in [pc : {"off", "select", "post", "sleep"}, msg : Message \cup {Zero}]
    /\ stopping \in {"no", "app", "pb", "wait"}
    /\ accepted \subseteq Message
    /\ stored \in [Senders -> Seq(Nat)]
    /\ lost \in 0..MaxLost

\* The messages the driver has in hand or in a channel.
Waiting == ToSet(queue["app"]) \cup ToSet(queue["pb"])
           \cup (IF driver.msg = Zero THEN {} ELSE {driver.msg})

\* Retries lose nothing: each accepted message is stored or still to be posted.
NothingLost == \A m \in accepted : m \in Waiting \/ m.n \in ToSet(stored[m.from])

\* Logstash gets the messages of a sender in order: a message may come again, but
\* not once a later one has come, and none is left out that was accepted before.
InOrder ==
    \A s \in Senders : \A k \in 1..Len(stored[s]) :
        LET before == IF k = 1 THEN 0 ELSE stored[s][k - 1] IN
        stored[s][k] \in {before, before + 1} \ {0}

\* Again and again logstash has got all that was accepted, also when Stop has
\* closed the channels: no message waits for ever.
MessagesAreDelivered ==
    []<>(\A m \in accepted : m.n \in ToSet(stored[m.from]))
=============================================================================
