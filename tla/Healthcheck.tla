----------------------------- MODULE Healthcheck -----------------------------
(***************************************************************************)
(* The healthchecks of one task (sysd/task/healthcheck.go) beside the       *)
(* goroutines that create, list, untrack and unlist its instances           *)
(* (task.waitLoop). Each check h, in the order of t.healthchecks, has       *)
(*   a ticker     visits the instances, tracks the new ones and starts a    *)
(*                goroutine for each: tick[h], queue[h]                     *)
(*   a mutex      lets one of these goroutines work at a time: run[h]       *)
(*   a tracker    the instances it knows, with a score and a health         *)
(* The watcher deletes from the trackers, and a check reads those of the    *)
(* other checks, without their mutexes. Nobody recovers a panic here.       *)
(***************************************************************************)
EXTENDS Integers

CONSTANTS
    Inst,               \* the instances the task creates, one after the other
    None,               \* no instance
    NumChecks,          \* len(t.healthchecks)
    HealthyThreshold, UnhealthyThreshold, ReapThreshold,    \* of each check
    MaxQueue,           \* bound on the goroutines waiting for a mutex
    MaxScore            \* bound on how far a score falls: below every threshold

Checks == 1..NumChecks

ASSUME InstAssumption == None \notin Inst
ASSUME ChecksAssumption == NumChecks \in Nat /\ MaxQueue \in Nat
ASSUME ThresholdsAssumption ==
    /\ HealthyThreshold \in [Checks -> Int] /\ UnhealthyThreshold \in [Checks -> Int]
    /\ ReapThreshold \in [Checks -> Int]
    /\ MaxScore \in Int /\ \A h \in Checks : UnhealthyThreshold[h] < MaxScore /\ ReapThreshold[h] < MaxScore

VARIABLES
    instances,   \* the keys of t.instances
    life,        \* waitLoop of each instance, then its watcher
    forgot,      \* how many trackers the watcher has deleted it from
    alive, done, \* its process runs; its doneCh is closed, of which a live process may know nothing
    listed,      \* the addresses the load balancer has
    tick, queue, run,
    tracked, score, healthy,  \* the keys of each tracker, and what it says of them
    failed, passed,  \* history: probes that failed since the last pass that
                     \* counted, and that passed since it turned unhealthy
                     \* (each up to its threshold)
    crashed      \* paasbox died of a panic

task == <<instances, life, forgot, alive, done>>
tracker == <<tracked, score, healthy>>
history == <<failed, passed>>
vars == <<task, listed, tick, queue, run, tracker, history, crashed>>

NoTick == [left |-> {}, hand |-> None]
NoRun == [pc |-> "free", inst |-> None, next |-> 0]

Init ==
    /\ instances = {} /\ alive = {} /\ done = {} /\ listed = {}
    /\ life = [i \in Inst |-> "none"] /\ forgot = [i \in Inst |-> 0]
    /\ tick = [h \in Checks |-> NoTick]
    /\ queue = [h \in Checks |-> [i \in Inst |-> 0]]
    /\ run = [h \in Checks |-> NoRun]
    /\ tracked = [h \in Checks |-> {}]
    /\ score = [h \in Checks |-> [i \in Inst |-> 0]]
    /\ healthy = [h \in Checks |-> Inst]
    /\ failed = [h \in Checks |-> [i \in Inst |-> 0]]
    /\ passed = [h \in Checks |-> [i \in Inst |-> 0]]
    /\ crashed = FALSE

-----------------------------------------------------------------------------
(* The life of an instance, as far as the checks meet it.                   *)

Create(i) ==
    /\ life[i] = "none" /\ life' = [life EXCEPT ![i] = "launch"]
    /\ instances' = instances \cup {i}
    /\ UNCHANGED <<forgot, alive, done, listed, tick, queue, run, tracker, history, crashed>>

Launch(i) ==
    /\ life[i] = "launch" /\ life' = [life EXCEPT ![i] = "list"]
    /\ alive' = alive \cup {i}
    /\ UNCHANGED <<instances, forgot, done, listed, tick, queue, run, tracker, history, crashed>>

List(i) ==
    /\ life[i] = "list" /\ life' = [life EXCEPT ![i] = "watch"]
    /\ listed' = listed \cup {i}
    /\ UNCHANGED <<instances, forgot, alive, done, tick, queue, run, tracker, history, crashed>>

Exit(i) ==
    /\ i \in alive /\ alive' = alive \ {i}
    /\ UNCHANGED <<instances, life, forgot, done, listed, tick, queue, run, tracker, history, crashed>>

\* The waiter closes doneCh when the process ends, or when waiting for it fails.
Finish(i) ==
    /\ life[i] \in {"list", "watch"} /\ i \notin done
    /\ done' = done \cup {i}
    /\ UNCHANGED <<instances, life, forgot, alive, listed, tick, queue, run, tracker, history, crashed>>

Done(i) == i \notin alive /\ Finish(i)
WaitFails(i) == i \in alive /\ Finish(i)

Untrack(i) ==
    /\ life[i] = "watch" /\ i \in done
    /\ life' = [life EXCEPT ![i] = "forget"]
    /\ instances' = instances \ {i}
    /\ UNCHANGED <<forgot, alive, done, listed, tick, queue, run, tracker, history, crashed>>

\* The watcher takes no lock of the checks.
Forget(i) ==
    /\ life[i] = "forget" /\ forgot[i] < NumChecks
    /\ forgot' = [forgot EXCEPT ![i] = @ + 1]
    /\ tracked' = [tracked EXCEPT ![forgot[i] + 1] = @ \ {i}]
    /\ UNCHANGED <<instances, life, alive, done, listed, tick, queue, run, score, healthy, history, crashed>>

Unlist(i) ==
    /\ life[i] = "forget" /\ forgot[i] = NumChecks
    /\ life' = [life EXCEPT ![i] = "end"]
    /\ listed' = listed \ {i}
    /\ UNCHANGED <<instances, forgot, alive, done, tick, queue, run, tracker, history, crashed>>

-----------------------------------------------------------------------------
(* The ticker of check h.                                                   *)

Tick(h) ==
    /\ tick[h] = NoTick /\ instances # {}
    /\ tick' = [tick EXCEPT ![h].left = instances]
    /\ UNCHANGED <<task, listed, queue, run, tracker, history, crashed>>

\* `range' yields the keys that are still in the map when it gets to them.
NextInstance(h) ==
    /\ tick[h].hand = None
    /\ \E i \in tick[h].left :
         tick' = [tick EXCEPT ![h] = [left |-> @.left \ {i},
                                      hand |-> IF i \in instances THEN i ELSE None]]
    /\ UNCHANGED <<task, listed, queue, run, tracker, history, crashed>>

\* An instance the check does not know is tracked, under the mutex; then a
\* goroutine is started for it.
StartGoroutine(h) ==
    /\ tick[h].hand # None /\ tick' = [tick EXCEPT ![h].hand = None]
    /\ LET i == tick[h].hand IN
         /\ queue[h][i] < MaxQueue
         /\ queue' = [queue EXCEPT ![h][i] = @ + 1]
         /\ \/ i \in tracked[h] /\ UNCHANGED <<tracker, history>>
            \/ /\ i \notin tracked[h] /\ run[h] = NoRun
               /\ tracked' = [tracked EXCEPT ![h] = @ \cup {i}]
               /\ score' = [score EXCEPT ![h][i] = 0]
               /\ healthy' = [healthy EXCEPT ![h] = @ \cup {i}]
               /\ failed' = [failed EXCEPT ![h][i] = 0]
               /\ passed' = [passed EXCEPT ![h][i] = 0]
    /\ UNCHANGED <<task, listed, run, crashed>>

-----------------------------------------------------------------------------
(* The goroutine that holds the mutex of check h.                           *)

Waiting(h, i) == queue[h][i] > 0

\* It locks and looks up its tracker, which may have been deleted meanwhile.
Lock(h) ==
    /\ run[h] = NoRun
    /\ \E i \in Inst :
         /\ Waiting(h, i)
         /\ queue' = [queue EXCEPT ![h][i] = @ - 1]
         /\ run' = [run EXCEPT ![h] = [pc |-> IF i \in tracked[h] THEN "probe" ELSE "nil",
                                      inst |-> i, next |-> 0]]
    /\ UNCHANGED <<task, listed, tick, tracker, history, crashed>>

\* Mutant: a failure costs two points.
ScoreTwice(s, well, ok) == IF ok /\ ~well THEN (IF s < 0 THEN 1 ELSE s + 1)
                           ELSE IF ok \/ s <= 0 - MaxScore THEN s ELSE s - 2

\* A pass counts only for an unhealthy instance, a failure always.
NewScore(s, well, ok) == IF ok /\ ~well THEN (IF s < 0 THEN 1 ELSE s + 1)
                         ELSE IF ok \/ s <= 0 - MaxScore THEN s ELSE s - 1

\* Mutant: an unhealthy instance turns unhealthy again with each failure.
StaysUnhealthy(h, i, s) == s <= 0 - UnhealthyThreshold[h]

TurnsUnhealthy(h, i, s) == i \in healthy[h] /\ s = 0 - UnhealthyThreshold[h]
Reaps(h, s) == s = 0 - ReapThreshold[h]

\* Mutant: one pass too few is enough.
RecoversEarly(h, s) == s >= HealthyThreshold[h] - 1

Recovers(h, s) == s >= HealthyThreshold[h]

\* What Run may return: a process that does not run answers nobody.
Answers(i) == IF i \in alive THEN BOOLEAN ELSE {FALSE}

Counted(h, i, ok) ==
    /\ failed' = [failed EXCEPT ![h][i] = 
                                IF ~ok THEN (IF @ < ReapThreshold[h] THEN @ + 1 ELSE @)
                                ELSE IF i \in healthy[h] THEN @ ELSE 0]
    /\ passed' = [passed EXCEPT ![h][i] =
                                IF i \in healthy[h] THEN 0
                                ELSE IF ok /\ @ < HealthyThreshold[h] THEN @ + 1 ELSE @]

ProbeWith(h, i, ok, s) ==
    /\ Counted(h, i, ok)
    /\ \/ /\ TurnsUnhealthy(h, i, s)
          /\ score' = [score EXCEPT ![h][i] = s]
          /\ healthy' = [healthy EXCEPT ![h] = @ \ {i}]
          /\ run' = [run EXCEPT ![h].pc = "remove"]
          /\ UNCHANGED tracked
       \/ /\ ~TurnsUnhealthy(h, i, s) /\ Reaps(h, s)
          /\ score' = [score EXCEPT ![h][i] = s]
          /\ tracked' = [tracked EXCEPT ![h] = @ \ {i}]
          /\ run' = [run EXCEPT ![h].pc = "reap"]
          /\ UNCHANGED healthy
       \/ /\ ~TurnsUnhealthy(h, i, s) /\ ~Reaps(h, s) /\ Recovers(h, s)
          /\ score' = [score EXCEPT ![h][i] = 0]
          /\ healthy' = [healthy EXCEPT ![h] = @ \cup {i}]
          /\ run' = [run EXCEPT ![h].pc = "others", ![h].next = 1]
          /\ UNCHANGED tracked
       \/ /\ ~TurnsUnhealthy(h, i, s) /\ ~Reaps(h, s) /\ ~Recovers(h, s)
          /\ score' = [score EXCEPT ![h][i] = s]
          /\ run' = [run EXCEPT ![h] = NoRun]
          /\ UNCHANGED <<tracked, healthy>>

Probe(h) ==
    /\ run[h].pc = "probe"
    /\ LET i == run[h].inst IN
         \E ok \in Answers(i) : ProbeWith(h, i, ok, NewScore(score[h][i], i \in healthy[h], ok))
    /\ UNCHANGED <<task, listed, tick, queue, crashed>>

\* track is nil: the goroutine panics, and paasbox with it.
ProbePanic(h) ==
    /\ run[h].pc = "nil"
    /\ crashed' = TRUE
    /\ UNCHANGED <<task, listed, tick, queue, run, tracker, history>>

RemoveFromLB(h) ==
    /\ run[h].pc = "remove"
    /\ listed' = listed \ {run[h].inst}
    /\ run' = [run EXCEPT ![h] = NoRun]
    /\ UNCHANGED <<task, tick, queue, tracker, history, crashed>>

\* instance.Stop kills nothing before the launch or after the end, and closes doneCh also
\* when the kill, or docker rm, fails.
Reap(h) ==
    /\ run[h].pc = "reap"
    /\ LET i == run[h].inst IN
         IF i \in done \/ life[i] \in {"none", "launch"}
         THEN UNCHANGED <<alive, done>>
         ELSE alive' \in {alive, alive \ {i}} /\ done' = done \cup {i}
    /\ run' = [run EXCEPT ![h] = NoRun]
    /\ UNCHANGED <<instances, life, forgot, listed, tick, queue, tracker, history, crashed>>

\* The instance has recovered: what do the other checks say?
AskOther(h) ==
    /\ run[h].pc = "others" /\ run[h].next \in Checks
    /\ LET i == run[h].inst
           k == run[h].next IN
         /\ i \in tracked[k]
         /\ run' = [run EXCEPT ![h] = IF i \in healthy[k] THEN [@ EXCEPT !.next = k + 1] ELSE NoRun]
    /\ UNCHANGED <<task, listed, tick, queue, tracker, history, crashed>>

\* A check that does not know the instance: `h.tracker[i.instance].healthy' panics.
AskOtherPanic(h) ==
    /\ run[h].pc = "others" /\ run[h].next \in Checks
    /\ run[h].inst \notin tracked[run[h].next]
    /\ crashed' = TRUE
    /\ UNCHANGED <<task, listed, tick, queue, run, tracker, history>>

AddToLB(h) ==
    /\ run[h].pc = "others" /\ run[h].next > NumChecks
    /\ listed' = listed \cup {run[h].inst}
    /\ run' = [run EXCEPT ![h] = NoRun]
    /\ UNCHANGED <<task, tick, queue, tracker, history, crashed>>

-----------------------------------------------------------------------------
Life(i) ==
    \/ Create(i) \/ Launch(i) \/ List(i) \/ Done(i) \/ Untrack(i) \/ Forget(i) \/ Unlist(i)

Ticker(h) == Tick(h) \/ NextInstance(h) \/ StartGoroutine(h)

Work(h) ==
    \/ Probe(h) \/ ProbePanic(h) \/ RemoveFromLB(h) \/ Reap(h)
    \/ AskOther(h) \/ AskOtherPanic(h) \/ AddToLB(h)

Next ==
    /\ ~crashed
    /\ \/ \E i \in Inst : Life(i) \/ Exit(i) \/ WaitFails(i)
       \/ \E h \in Checks : Ticker(h) \/ Lock(h) \/ Work(h)

Spec == Init /\ [][Next]_vars

\* Goroutines are scheduled, and a mutex starves nobody. Processes need not exit, nor a
\* wait fail.
Fairness ==
    /\ \A i \in Inst : WF_vars(Life(i) /\ ~crashed)
    /\ \A h \in Checks :
         /\ WF_vars(Ticker(h) /\ ~crashed) /\ SF_vars(StartGoroutine(h) /\ ~crashed)
         /\ SF_vars(Lock(h) /\ ~crashed) /\ WF_vars(Work(h) /\ ~crashed)

FairSpec == Spec /\ Fairness

-----------------------------------------------------------------------------
(* Properties.                                                              *)

LifeTypeOK ==
    /\ instances \subseteq Inst /\ alive \subseteq Inst /\ done \subseteq Inst /\ listed \subseteq Inst
    /\ life \in [Inst -> {"none", "launch", "list", "watch", "forget", "end"}]
    /\ forgot \in [Inst -> 0..NumChecks]
    /\ crashed \in BOOLEAN

TickerTypeOK ==
    /\ tick \in [Checks -> [left : SUBSET Inst, hand : Inst \cup {None}]]
    /\ queue \in [Checks -> [Inst -> Nat]]

RunTypeOK ==
    /\ run \in [Checks -> [pc : {"free", "nil", "probe", "remove", "reap", "others"},
                           inst : Inst \cup {None}, next : 0..NumChecks + 1]]
    /\ \A h \in Checks : run[h].pc # "free" => run[h].inst # None

TrackerTypeOK ==
    /\ tracked \in [Checks -> SUBSET Inst] /\ healthy \in [Checks -> SUBSET Inst]
    /\ score \in [Checks -> [Inst -> Int]]
    /\ failed \in [Checks -> [Inst -> Nat]] /\ passed \in [Checks -> [Inst -> Nat]]

\* Every variable keeps its type: no mutex is held without an instance, and no
\* goroutine runs that the ticker did not start.
TypeOK == LifeTypeOK /\ TickerTypeOK /\ RunTypeOK /\ TrackerTypeOK

\* An instance is killed only for `reap_threshold' failed probes, none of them
\* older than the last pass that counted.
ReapIsDeserved ==
    \A h \in Checks : run[h].pc = "reap" => failed[h][run[h].inst] >= ReapThreshold[h]

\* An instance gets traffic again only after `healthy_threshold' passes since
\* the check that took it away turned it unhealthy.
ReturnIsDeserved ==
    \A h \in Checks : run[h].pc = "others" => passed[h][run[h].inst] >= HealthyThreshold[h]

\* The step of check h in which a probe of i passes.
Passes(h, i) ==
    /\ run[h].pc = "probe" /\ run[h].inst = i
    /\ ProbeWith(h, i, TRUE, NewScore(score[h][i], i \in healthy[h], TRUE))

\* An instance that runs and passes no check any more is killed in the end, or given up
\* by a kill or a wait that fails, however slow the checks are; unless paasbox itself dies
\* of them. One check must be able to reap: where both thresholds are the same, the score
\* passes it when the instance turns unhealthy, and never comes back to it.
CanReap(h) == ReapThreshold[h] > 0 /\ ReapThreshold[h] # UnhealthyThreshold[h]

HungIsReaped ==
    \A i \in Inst : (\E h \in Checks : CanReap(h)) /\ <>[][\A h \in Checks : ~Passes(h, i)]_vars =>
        []<>(i \notin alive \ done \/ crashed)
=============================================================================
