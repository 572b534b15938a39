------------------------------ MODULE StackLife ------------------------------
(***************************************************************************)
(* The life of a stack and of the daemon around it: stack.Start and Stop    *)
(* (sysd/stack), called by sysd.Start and stop (sysd/sysd.go) and by the    *)
(* handlers of the HTTP API, over tasks of one instance each. What happens  *)
(* inside a task beyond that is in Task; here several agents start and stop *)
(* the same tasks, the state stores close while goroutines are at work, and *)
(* the next paasbox finds what the last one left.                           *)
(*                                                                          *)
(* Agents, each with a program counter:                                     *)
(*   Main         sysd.Start, then sysd.stop                                *)
(*   h            a request to start or stop the stack or a task            *)
(*   starts[t]    goroutines in `go t.Start()'                              *)
(*   loop[t][i]   the waitLoop of an instance that Start created            *)
(*   found[t][i]  waitLoops of instances that Recover made and that have    *)
(*                not begun, watching[t][i] watchers waiting for a doneCh:   *)
(*                two of them if the stack was recovered twice              *)
(* Recover takes no lock: other agents, watchers and Start may act between  *)
(* its reading instanceIDs, probing a process and adding the instance.      *)
(* Launches succeed here; what a failed one leaves is in Task. A kill, a    *)
(* docker rm or a wait may fail for the instances of Wayward.               *)
(***************************************************************************)
EXTENDS Integers, FiniteSets

CONSTANTS
    Tasks,          \* taskConfigs of the stack
    Services,       \* tasks with config.Service
    Handlers, Main, \* agents
    MaxExec,        \* bound on execCount
    Wayward,        \* instances that a kill or a wait may fail for
    MaxRequests,    \* bound on API requests
    MaxBoots        \* bound on paasbox processes

ASSUME TasksAssumption == Services \subseteq Tasks
ASSUME LifeBounds == MaxExec \in Nat /\ MaxRequests \in Nat /\ MaxBoots \in Nat

Ids == 1..MaxExec
Agents == Handlers \cup {Main}
Nobody == "nobody"
Go == "go"
NoTask == "noTask"

ASSUME WaywardAssumption == Wayward \subseteq Ids
ASSUME AgentsAssumption == Main \notin Handlers /\ Nobody \notin Agents /\ Go \notin Agents

VARIABLES
    persistent, \* tasks with config.Persist: every choice is explored
    proc,       \* operating system processes
    store,      \* BoltDB: execCount, instanceIDs and pid of each task
    open,       \* the state stores are open
    phase,      \* of sysd: "boot", "serving", "stopping", "closed", "exited"
    stackStopped,
    \* fields of the tasks
    stopped, tracked,
    mutex,      \* execMutex: who holds it, and where the holder is
    starts, loop, found, watching,
    agent,
    recovery,   \* of an agent in Recover: the ids it has not come to, the one it probed
    \* bookkeeping
    excused,    \* instances that paasbox may lose, see CutOff, RecoverAdd and Watcher
    requests, boots

task == <<stopped, tracked, mutex, starts, loop, found, watching>>
world == <<proc, store, open>>
count == <<persistent, excused, requests, boots>>
vars == <<world, phase, stackStopped, task, agent, recovery, count>>

Free == [by |-> Nobody, at |-> "free"]
Idle == [pc |-> "idle", task |-> NoTask, left |-> {}]
NotRecovering == [ids |-> {}, inst |-> 0]

NoneOf(v) == [t \in Tasks |-> [i \in Ids |-> v]]

Init ==
    /\ persistent \in SUBSET Tasks
    /\ proc = NoneOf("none") /\ open = TRUE
    /\ store = [t \in Tasks |-> [execCount |-> 0, instanceIDs |-> {}, pid |-> {}]]
    /\ phase = "exited"
    /\ stackStopped = TRUE /\ stopped = [t \in Tasks |-> TRUE]
    /\ tracked = [t \in Tasks |-> {}] /\ mutex = [t \in Tasks |-> Free]
    /\ starts = [t \in Tasks |-> 0] /\ loop = NoneOf("none")
    /\ found = NoneOf(0) /\ watching = NoneOf(0)
    /\ agent = [a \in Agents |-> Idle] /\ recovery = [a \in Agents |-> NotRecovering]
    /\ excused = [t \in Tasks |-> {}] /\ requests = 0 /\ boots = 0

\* The step of agent a, and what is left of its work.
Turn(a, pc, t, left) == agent' = [agent EXCEPT ![a] = [pc |-> pc, task |-> t, left |-> left]]
Move(a, pc) == Turn(a, pc, agent[a].task, agent[a].left)
At(a, pc, t) == agent[a].pc = pc /\ agent[a].task = t

-----------------------------------------------------------------------------
(* stack.Start                                                              *)

StackStart(a) ==
    /\ agent[a].pc = "startStack"
    /\ stackStopped' = FALSE
    /\ Turn(a, "startTasks", NoTask, Tasks)
    /\ UNCHANGED <<world, phase, task, recovery, count>>

\* Its pid was stored, and signal 0 reaches the process.
Recoverable(t, i) == i \in store[t].pid /\ proc[t][i] = "alive"

\* The list of Recover.
RecoverRead(a) ==
    /\ agent[a].pc = "startTasks" /\ open
    /\ \E t \in agent[a].left :
         /\ store[t].instanceIDs # {}
         /\ recovery' = [recovery EXCEPT ![a].ids = store[t].instanceIDs]
         /\ Turn(a, "recover", t, agent[a].left \ {t})
    /\ UNCHANGED <<world, phase, stackStopped, task, count>>

RecoverProbe(a) ==
    /\ agent[a].pc = "recover" /\ open
    /\ \E i \in recovery[a].ids :
         /\ Recoverable(agent[a].task, i)
         /\ recovery' = [recovery EXCEPT ![a] = [ids |-> @.ids \ {i}, inst |-> i]]
    /\ Move(a, "add")
    /\ UNCHANGED <<world, phase, stackStopped, task, count>>

\* Mutant: a recovered instance is watched, and never added to t.instances.
Watch(t, i) ==
    /\ tracked' = tracked
    /\ found' = [found EXCEPT ![t][i] = @ + 1]

\* Recover overwrites the entry of t.instances, if there is one, and starts a waitLoop.
Track(t, i) ==
    /\ tracked' = [tracked EXCEPT ![t] = @ \cup {i}]
    /\ found' = [found EXCEPT ![t][i] = @ + 1]

\* The instance may have ended since, and its task have forgotten it: it is listed and
\* counted again until its waitLoop finds out.
Relisted(t, i) == proc[t][i] # "alive" /\ i \notin tracked[t]

RecoverAdd(a) ==
    /\ agent[a].pc = "add"
    /\ LET t == agent[a].task
            i == recovery[a].inst
       IN  /\ Track(t, i)
           /\ excused' = IF Relisted(t, i) THEN [excused EXCEPT ![t] = @ \cup {i}] ELSE excused
    /\ recovery' = [recovery EXCEPT ![a].inst = 0]
    /\ Move(a, IF recovery[a].ids = {} THEN "startTasks" ELSE "recover")
    /\ UNCHANGED <<world, phase, stackStopped, stopped, mutex, starts, loop, watching,
                   persistent, requests, boots>>

\* Recover ends at the first instance that is gone, or at once if there is no list or the
\* store is closed; stack.Start then starts a service.
RecoverFails(a) ==
    /\ \E t \in Tasks :
         /\ \/ /\ agent[a].pc = "startTasks" /\ t \in agent[a].left
               /\ ~open \/ store[t].instanceIDs = {}
            \/ /\ At(a, "recover", t)
               /\ ~open \/ \E i \in recovery[a].ids : ~Recoverable(t, i)
         /\ Turn(a, IF t \in Services THEN "startTask" ELSE "startTasks", t, agent[a].left \ {t})
    /\ recovery' = [recovery EXCEPT ![a] = NotRecovering]
    /\ UNCHANGED <<world, phase, stackStopped, task, count>>

-----------------------------------------------------------------------------
(* task.Start, by an agent or by a goroutine of its own.                    *)

\* Mutant: what is tracked is not counted.
AlwaysNeeded(t) == TRUE

Needed(t) == tracked[t] = {}

Lock(t, by) ==
    /\ mutex[t] = Free
    /\ mutex' = [mutex EXCEPT ![t] = [by |-> by, at |-> IF Needed(t) THEN "create" ELSE "persist"]]

StartTask(a) ==
    /\ \E t \in Tasks : At(a, "startTask", t) /\ Lock(t, a)
    /\ Move(a, "starting")
    /\ UNCHANGED <<world, phase, stackStopped, stopped, tracked, starts, loop, found, watching, recovery, count>>

GoStart(t) ==
    /\ starts[t] > 0 /\ Lock(t, Go)
    /\ starts' = [starts EXCEPT ![t] = @ - 1]
    /\ UNCHANGED <<world, phase, stackStopped, stopped, tracked, loop, found, watching, agent, recovery, count>>

\* The Start that holds the mutex of t returns to its caller.
Return(t) ==
    /\ mutex' = [mutex EXCEPT ![t] = Free]
    /\ IF mutex[t].by = Go THEN agent' = agent ELSE Move(mutex[t].by, "startTasks")

Number(t) == store[t].execCount + 1

Create(t) ==
    /\ mutex[t].at = "create" /\ open /\ store[t].execCount < MaxExec
    /\ store' = [store EXCEPT ![t].execCount = Number(t)]
    /\ tracked' = [tracked EXCEPT ![t] = @ \cup {Number(t)}]
    /\ loop' = [loop EXCEPT ![t][Number(t)] = "begin"]
    /\ mutex' = [mutex EXCEPT ![t].at = "persist"]
    /\ UNCHANGED <<proc, open, phase, stackStopped, stopped, starts, found, watching, agent, recovery, count>>

\* execCount cannot be stored. (MaxExec bounds the instances.)
CreateFails(t) ==
    /\ mutex[t].at = "create" /\ (~open \/ store[t].execCount = MaxExec)
    /\ Return(t)
    /\ UNCHANGED <<world, phase, stackStopped, stopped, tracked, starts, loop, found, watching, recovery, count>>

\* A closed store returns an error, which is only logged.
Persist(t) ==
    /\ mutex[t].at = "persist" /\ Return(t)
    /\ store' = IF open THEN [store EXCEPT ![t].instanceIDs = tracked[t]] ELSE store
    /\ UNCHANGED <<proc, open, phase, stackStopped, stopped, tracked, starts, loop, found, watching, recovery, count>>

-----------------------------------------------------------------------------
(* waitLoop and watcher                                                     *)

Begin(t, i) ==
    /\ loop[t][i] = "begin"
    /\ stopped' = [stopped EXCEPT ![t] = FALSE]
    /\ loop' = [loop EXCEPT ![t][i] = "launch"]
    /\ UNCHANGED <<world, phase, stackStopped, tracked, mutex, starts, found, watching, agent, recovery, count>>

Launch(t, i) ==
    /\ loop[t][i] = "launch"
    /\ proc' = [proc EXCEPT ![t][i] = "alive"]
    /\ loop' = [loop EXCEPT ![t][i] = "pid"]
    /\ UNCHANGED <<store, open, phase, stackStopped, stopped, tracked, mutex, starts, found, watching, agent, recovery, count>>

\* A waitLoop that cannot store the pid returns, and nobody waits for doneCh.
BeginWatching(t, i) == watching' = IF open THEN [watching EXCEPT ![t][i] = @ + 1] ELSE watching

StorePid(t, i) ==
    /\ loop[t][i] = "pid"
    /\ store' = IF open THEN [store EXCEPT ![t].pid = @ \cup {i}] ELSE store
    /\ loop' = [loop EXCEPT ![t][i] = "end"]
    /\ BeginWatching(t, i)
    /\ UNCHANGED <<proc, open, phase, stackStopped, stopped, tracked, mutex, starts, found, agent, recovery, count>>

\* The waitLoop of a recovered instance.
BeginRecovered(t, i) ==
    /\ found[t][i] > 0
    /\ stopped' = [stopped EXCEPT ![t] = FALSE]
    /\ found' = [found EXCEPT ![t][i] = @ - 1]
    /\ BeginWatching(t, i)
    /\ UNCHANGED <<world, phase, stackStopped, tracked, mutex, starts, loop, agent, recovery, count>>

\* Mutant: the second watcher of an instance finds it gone and leaves.
RestartsOnce(t, i) == ~stopped[t] /\ t \in Services /\ i \in tracked[t] /\ mutex[t] = Free

Restarts(t, i) == ~stopped[t] /\ t \in Services

\* doneCh of one of the instance's objects is closed: the process has ended, or a kill,
\* a docker rm or a wait has failed. The task then forgets an instance that runs.
Watcher(t, i) ==
    /\ watching[t][i] > 0
    /\ \/ proc[t][i] = "dead" /\ excused' = excused
       \/ /\ proc[t][i] = "alive" /\ i \in Wayward
          /\ excused' = [excused EXCEPT ![t] = @ \cup {i}]
    /\ watching' = [watching EXCEPT ![t][i] = @ - 1]
    /\ tracked' = [tracked EXCEPT ![t] = @ \ {i}]
    /\ starts' = IF Restarts(t, i) THEN [starts EXCEPT ![t] = @ + 1] ELSE starts
    /\ UNCHANGED <<world, phase, stackStopped, stopped, mutex, loop, found, agent, recovery,
                   persistent, requests, boots>>

-----------------------------------------------------------------------------
(* stack.Stop and task.Stop                                                 *)

StackStop(a) ==
    /\ agent[a].pc = "stopStack"
    /\ stackStopped' = TRUE
    /\ Turn(a, "stopTasks", NoTask, Tasks \ persistent)
    /\ UNCHANGED <<world, phase, task, recovery, count>>

StopTask(a) ==
    /\ agent[a].pc = "stopTasks"
    /\ \E t \in agent[a].left :
         /\ stopped' = [stopped EXCEPT ![t] = TRUE]
         /\ Turn(a, "kill", t, agent[a].left \ {t})
    /\ UNCHANGED <<world, phase, stackStopped, tracked, mutex, starts, loop, found, watching, recovery, count>>

\* instance.Stop of what is tracked, and launched. Its watcher is told also if it fails.
Kill(a) ==
    /\ \E t \in Tasks, spared \in SUBSET Wayward :
         /\ At(a, "kill", t)
         /\ proc' = [proc EXCEPT ![t] = [i \in Ids |->
                      IF i \in tracked[t] \ spared /\ @[i] = "alive" THEN "dead" ELSE @[i]]]
    /\ Move(a, "stopTasks")
    /\ UNCHANGED <<store, open, phase, stackStopped, task, recovery, count>>

-----------------------------------------------------------------------------
(* The handlers: each checks, and acts later.                               *)

Request(h) ==
    /\ phase \in {"serving", "stopping", "closed"}
    /\ agent[h] = Idle /\ requests < MaxRequests
    /\ requests' = requests + 1
    /\ UNCHANGED <<world, phase, stackStopped, task, recovery, persistent, excused, boots>>

RequestStackStart(h) == Request(h) /\ stackStopped /\ Move(h, "startStack")
RequestStackStop(h) == Request(h) /\ ~stackStopped /\ Move(h, "stopStack")

RequestTaskStart(h) ==
    /\ Request(h) /\ ~stackStopped
    /\ \E t \in Tasks : stopped[t] /\ Turn(h, "startTask", t, {})

RequestTaskStop(h) ==
    /\ Request(h)
    /\ \E t \in Tasks : ~stopped[t] /\ Turn(h, "stopTasks", NoTask, {t})

Done(a) == agent[a].pc \in {"startTasks", "stopTasks"} /\ agent[a].left = {}

HandlerReturns(h) ==
    /\ Done(h) /\ agent' = [agent EXCEPT ![h] = Idle]
    /\ UNCHANGED <<world, phase, stackStopped, task, recovery, count>>

-----------------------------------------------------------------------------
(* sysd.Start and sysd.stop                                                 *)

\* All stacks are started, and the server listens.
Serve ==
    /\ phase = "boot" /\ Done(Main)
    /\ phase' = "serving" /\ agent' = [agent EXCEPT ![Main] = Idle]
    /\ UNCHANGED <<world, stackStopped, task, recovery, count>>

\* exitCh was closed by SIGINT or SIGTERM.
Signal ==
    /\ phase = "serving"
    /\ phase' = "stopping" /\ Move(Main, "stopStack")
    /\ UNCHANGED <<world, stackStopped, task, recovery, count>>

\* Instances that were being started: not all of it is stored.
Unfinished(t) == {i \in Ids : \/ loop[t][i] \in {"begin", "launch", "pid"}
                              \/ (mutex[t].at = "persist" /\ i \in tracked[t] \ store[t].instanceIDs)}

\* Recover gives up at an instance that is gone, and passes over the rest of the list.
PassedOver(t) == IF store[t].instanceIDs \cap excused[t] # {} THEN store[t].instanceIDs ELSE {}

\* What the end of paasbox, or of its stores, may cost.
CutOff == [t \in Tasks |-> excused[t] \cup IF open THEN Unfinished(t) \cup PassedOver(t) ELSE {}]

CloseStores ==
    /\ phase = "stopping" /\ Done(Main)
    /\ phase' = "closed" /\ open' = FALSE
    /\ agent' = [agent EXCEPT ![Main] = Idle]
    /\ excused' = CutOff
    /\ UNCHANGED <<proc, store, stackStopped, task, recovery, persistent, requests, boots>>

\* paasbox is gone, and what it had in memory; its processes outlive it. The next
\* sysd.New finds nothing tracked, and every task and the stack stopped.
Gone ==
    /\ phase' = "exited"
    /\ stackStopped' = TRUE /\ stopped' = [t \in Tasks |-> TRUE]
    /\ tracked' = [t \in Tasks |-> {}] /\ mutex' = [t \in Tasks |-> Free]
    /\ starts' = [t \in Tasks |-> 0] /\ loop' = NoneOf("none")
    /\ found' = NoneOf(0) /\ watching' = NoneOf(0)
    /\ agent' = [a \in Agents |-> Idle] /\ recovery' = [a \in Agents |-> NotRecovering]
    /\ UNCHANGED <<world, persistent, requests, boots>>

\* server.Stop returns, or panics in Shutdown(nil): main ends either way. (A log
\* driver would keep it waiting, see LogDriver.)
Exit == phase = "closed" /\ Gone /\ UNCHANGED excused

Crash == phase # "exited" /\ boots < MaxBoots /\ Gone /\ excused' = CutOff

Boot ==
    /\ phase = "exited" /\ boots < MaxBoots
    /\ phase' = "boot" /\ boots' = boots + 1 /\ open' = TRUE
    /\ Move(Main, "startStack")
    /\ UNCHANGED <<proc, store, stackStopped, task, recovery, persistent, excused, requests>>

ProcExit(t, i) ==
    /\ proc[t][i] = "alive"
    /\ proc' = [proc EXCEPT ![t][i] = "dead"]
    /\ UNCHANGED <<store, open, phase, stackStopped, task, agent, recovery, count>>

-----------------------------------------------------------------------------
Agent(a) ==
    \/ StackStart(a) \/ RecoverRead(a) \/ RecoverProbe(a) \/ RecoverAdd(a) \/ RecoverFails(a)
    \/ StartTask(a) \/ StackStop(a) \/ StopTask(a) \/ Kill(a)
Goroutine(t) == GoStart(t) \/ Create(t) \/ CreateFails(t) \/ Persist(t)
Instance(t, i) == Begin(t, i) \/ Launch(t, i) \/ StorePid(t, i) \/ BeginRecovered(t, i) \/ Watcher(t, i)
Requests(h) == RequestStackStart(h) \/ RequestStackStop(h) \/ RequestTaskStart(h) \/ RequestTaskStop(h)
Daemon == Serve \/ CloseStores \/ Exit

Running ==
    \/ \E a \in Agents : Agent(a)
    \/ \E h \in Handlers : HandlerReturns(h) \/ Requests(h)
    \/ \E t \in Tasks : Goroutine(t) \/ \E i \in Ids : Instance(t, i)
    \/ Daemon \/ Signal \/ Crash

Next ==
    \/ phase # "exited" /\ Running
    \/ \E t \in Tasks, i \in Ids : ProcExit(t, i)
    \/ Boot

Spec == Init /\ [][Next]_vars

-----------------------------------------------------------------------------
(* Properties.                                                              *)

Phase == {"boot", "serving", "stopping", "closed", "exited"}
Pc == {"idle", "startStack", "startTasks", "recover", "add", "startTask", "starting", "stopStack", "stopTasks", "kill"}

ProcType == proc \in [Tasks -> [Ids -> {"none", "alive", "dead"}]]
StoreType == store \in [Tasks -> [execCount : 0..MaxExec, instanceIDs : SUBSET Ids, pid : SUBSET Ids]]
FlagsType == open \in BOOLEAN /\ phase \in Phase /\ stackStopped \in BOOLEAN /\ stopped \in [Tasks -> BOOLEAN]
TrackedType == tracked \in [Tasks -> SUBSET Ids]
MutexType == mutex \in [Tasks -> [by : Agents \cup {Nobody, Go}, at : {"free", "create", "persist"}]]
StartsType == starts \in [Tasks -> Nat]
LoopType == loop \in [Tasks -> [Ids -> {"none", "begin", "launch", "pid", "end"}]]
WatchType == found \in [Tasks -> [Ids -> Nat]] /\ watching \in [Tasks -> [Ids -> Nat]]
AgentType == agent \in [Agents -> [pc : Pc, task : Tasks \cup {NoTask}, left : SUBSET Tasks]]
RecoveryType == recovery \in [Agents -> [ids : SUBSET Ids, inst : 0..MaxExec]]
CountType == persistent \subseteq Tasks /\ excused \in [Tasks -> SUBSET Ids] /\ requests \in Nat /\ boots \in Nat

TypeOK ==
    /\ ProcType /\ StoreType /\ FlagsType /\ TrackedType /\ MutexType
    /\ StartsType /\ LoopType /\ WatchType /\ AgentType /\ RecoveryType /\ CountType

Alive(t) == {i \in Ids : proc[t][i] = "alive"}

\* However often the stack is started, stopped and started again, by several users
\* at once, and whatever paasbox finds after a restart: a task has one process. Only
\* these may run beside it: one whose start was cut off by the end of paasbox, one that
\* a failed kill or wait gave up, and what a list left by paasbox names together with
\* such an instance or with one that Recover added after its end.
NoSecondProcess == \A t \in Tasks : Cardinality(Alive(t) \ excused[t]) <= 1

\* Nothing is under way for t.
Settled(t) ==
    /\ phase \in {"serving", "stopping"} /\ \A a \in Agents : agent[a].pc = "idle"
    /\ mutex[t] = Free /\ starts[t] = 0
    /\ \A i \in Ids : /\ loop[t][i] \in {"none", "end"} /\ found[t][i] = 0
                      /\ watching[t][i] > 0 => proc[t][i] = "alive"

\* A service that says it is started (Started(), which startTask refuses to start
\* again) has an instance that its task knows of, or still watches after giving it up, or
\* somebody is at work to give it one.
StartedIsCovered ==
    \A t \in Services : Settled(t) /\ ~stopped[t] =>
        \/ \E i \in Alive(t) : i \in tracked[t] \/ (i \in excused[t] /\ watching[t][i] > 0)
        \/ store[t].execCount = MaxExec

\* Nothing is orphaned: an instance that runs is one its task knows of, and can stop,
\* also when it was started by the paasbox before a crash or an upgrade. Again but for
\* the excused.
NoOrphan == \A t \in Tasks : Settled(t) => Alive(t) \ excused[t] \subseteq tracked[t]
=============================================================================
