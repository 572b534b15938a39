-------------------------------- MODULE Task --------------------------------
(***************************************************************************)
(* One task of a stack (sysd/task): the supervisor that keeps               *)
(* `targetInstances' processes running, the goroutines it starts for each   *)
(* of them, the requests of the HTTP API, and the state kept in BoltDB that *)
(* outlives the paasbox process.                                            *)
(*                                                                          *)
(* Goroutines and handlers, each with a program counter of its own:         *)
(*   boot         stack.Start: Recover, then Start if nothing was recovered *)
(*   Start        `starts' of them wait for execMutex; one at a time runs   *)
(*   waitLoop[i]  launches instance i and adds it to the load balancer      *)
(*   waiter[i]    waits for the process of i to exit, then calls done()     *)
(*   watcher[i]   waits for doneCh of i, untracks it, restarts the service  *)
(*   sweep[h]     a handler that calls instance.Stop on each tracked        *)
(*                instance: "stop" is task.Stop, "crit" is SetEnv or        *)
(*                SetDevMode(true), which hold execMutex while they do, and *)
(*                "reap" a healthcheck, which stops a single one            *)
(*   relisting    healthchecks that are about to list an instance again;    *)
(*                when they do so is the subject of module Healthcheck      *)
(*                                                                          *)
(* An instance is its number (execCount when it was created); a dev-mode    *)
(* placeholder is a member of Devs, one per SetDevMode(true), because all   *)
(* of them share the key "dev" of t.instances.                              *)
(***************************************************************************)
EXTENDS Integers, FiniteSets

CONSTANTS
    OriginalTarget,  \* config.Instances
    Service,         \* config.Service
    NumPorts,        \* len(config.Ports): load-balancer ports of the task
    PortsInUse,      \* those of them another task already listens on
    LaunchCanFail,   \* os.StartProcess (or docker pull) may fail
    Requests,        \* the API requests the users make
    Devs,            \* one per SetDevMode(true): bounds those requests
    Checked,         \* the instances that have a healthcheck: all or none, but for the bound
    Wayward,         \* the instances whose kill, or whose wait, may fail
    MaxExec,         \* bound on execCount
    MaxRequests,     \* bound on API requests
    MaxCrashes       \* bound on restarts of the paasbox process

AllRequests == {"start", "stop", "env", "devOn", "devOff"}

ASSUME TargetAssumption == OriginalTarget \in Nat /\ (Service => OriginalTarget > 0)
ASSUME ServiceAssumption == Service \in BOOLEAN /\ LaunchCanFail \in BOOLEAN
ASSUME PortsAssumption == NumPorts \in Nat /\ PortsInUse \subseteq 1..NumPorts
ASSUME BoundsAssumption == MaxExec \in Nat /\ MaxRequests \in Nat /\ MaxCrashes \in Nat
ASSUME RequestsAssumption == Requests \subseteq AllRequests
ASSUME DevsAssumption == IsFiniteSet(Devs) /\ Devs \cap Int = {}

Ids == 1..MaxExec
ASSUME CheckedAssumption == Checked \subseteq Ids /\ Wayward \subseteq Ids
AllIds == Ids \cup Devs
Ports == 1..NumPorts
Handlers == {"stop", "crit", "reap"}

VARIABLES
    \* what survives the paasbox process
    store,      \* BoltDB: execCount, instanceIDs, and per instance pid, running
    proc,       \* operating system processes, one per instance ever launched
    \* the boot goroutine
    phase,      \* "recovering", "starting", "booting", "up"
    todo,       \* instanceIDs Recover has still to look at
    \* fields of the task
    stopped, devMode, targetInstances, execCount,
    instances,  \* the keys of t.instances (a dev generation stands for "dev")
    crit,       \* execMutex: "free", or where its holder is
    need,       \* loop counter of the Start that holds execMutex
    starts,     \* calls of Start that have not locked execMutex yet
    \* fields of the instances
    process,    \* i.process is set
    recovered,  \* i.recovered
    isDone,     \* i.isDone set, and doneCh closed
    waitLoop, waiter, watcher, sweep, relisting,
    \* the load balancer, as far as this task uses it
    lbListeners, backends,
    \* bookkeeping: what went wrong so far, and how much the environment did
    astray,     \* instances given up while their process lived
    late,       \* instances listed again when their watcher had unlisted them
    requests, crashes, lastRequest

env == <<requests, crashes, lastRequest>>
mutex == <<crit, need, starts>>
boot == <<phase, todo>>
fields == <<stopped, devMode, targetInstances, execCount>>
marks == <<process, recovered, isDone>>
lb == <<lbListeners, backends>>
odds == <<astray, relisting, late>>
vars == <<store, proc, boot, fields, instances, mutex, marks, waitLoop, waiter,
          watcher, sweep, lb, odds, env>>

NoSweep == [pc |-> "idle", cur |-> 0, left |-> {}]

-----------------------------------------------------------------------------
(* Initial states, and what a restart of paasbox makes of the memory.       *)

Init ==
    /\ store = [execCount |-> 0, instanceIDs |-> {}, pid |-> {}, running |-> {}]
    /\ proc = [i \in Ids |-> "none"]
    /\ phase = "recovering" /\ todo = {}
    /\ stopped = TRUE /\ devMode = FALSE /\ targetInstances = OriginalTarget
    /\ execCount = 0 /\ instances = {}
    /\ crit = "free" /\ need = 0 /\ starts = 0
    /\ process = {} /\ recovered = {} /\ isDone = {}
    /\ waitLoop = [i \in AllIds |-> "none"]
    /\ waiter = [i \in Ids |-> "none"]
    /\ watcher = [i \in AllIds |-> "none"]
    /\ sweep = [h \in Handlers |-> NoSweep]
    /\ lbListeners = {} /\ backends = [k \in Ports |-> {}]
    /\ astray = {} /\ relisting = {} /\ late = {}
    /\ requests = 0 /\ crashes = 0 /\ lastRequest = "none"

\* Mutant: a NewTask that counts from zero again.
CountFromZero == 0

\* NewTask reads the execution count back from the store.
ReadExecCount == store.execCount

\* A new paasbox process: NewTask, with what the store and the operating
\* system still know, and the boot goroutine at the start of Recover.
Reboot ==
    /\ phase' = "recovering" /\ todo' = store.instanceIDs
    /\ stopped' = TRUE /\ devMode' = FALSE /\ targetInstances' = OriginalTarget
    /\ execCount' = ReadExecCount /\ instances' = {}
    /\ crit' = "free" /\ need' = 0 /\ starts' = 0
    /\ process' = {} /\ recovered' = {} /\ isDone' = {}
    /\ waitLoop' = [i \in AllIds |-> "none"]
    /\ waiter' = [i \in Ids |-> "none"]
    /\ watcher' = [i \in AllIds |-> "none"]
    /\ sweep' = [h \in Handlers |-> NoSweep]
    /\ lbListeners' = {} /\ backends' = [k \in Ports |-> {}]
    /\ astray' = {} /\ relisting' = {} /\ late' = {}
    /\ lastRequest' = "none"
    /\ UNCHANGED <<store, proc, requests>>

-----------------------------------------------------------------------------
(* Boot: Recover runs without execMutex, beside the goroutines it starts.   *)

\* Mutant: the stored pid is taken for a process, without a signal 0.
RecoverableByPid(i) == i \in Ids /\ i \in store.pid

\* The pid was stored, and signal 0 reaches the process.
Recoverable(i) == i \in Ids /\ i \in store.pid /\ proc[i] = "alive"

RecoverInstance(i) ==
    /\ phase = "recovering" /\ i \in todo /\ Recoverable(i)
    /\ todo' = todo \ {i}
    /\ instances' = instances \cup {i}
    /\ process' = process \cup {i} /\ recovered' = recovered \cup {i}
    /\ waitLoop' = [waitLoop EXCEPT ![i] = "begin"]
    /\ UNCHANGED <<store, proc, phase, fields, mutex, isDone, waiter, watcher, sweep, lb, env, odds>>

\* The first id that cannot be recovered ends Recover with an error, and
\* stack.Start then starts the task if it is a service.
RecoverFails ==
    /\ phase = "recovering"
    /\ \/ todo = {} /\ recovered = {}          \* no instanceIDs were stored
       \/ \E i \in todo : ~Recoverable(i)
    /\ todo' = {}
    /\ phase' = IF Service THEN "starting" ELSE "up"
    /\ UNCHANGED <<store, proc, fields, instances, mutex, marks, waitLoop, waiter, watcher, sweep, lb, env, odds>>

RecoverDone ==
    /\ phase = "recovering" /\ todo = {} /\ recovered # {}
    /\ phase' = "up"
    /\ UNCHANGED <<store, proc, todo, fields, instances, mutex, marks, waitLoop, waiter, watcher, sweep, lb, env, odds>>

-----------------------------------------------------------------------------
(* Start: creates what is missing, under execMutex.                         *)

\* Mutant: a Start that does not look at what is tracked already.
NeedAll == targetInstances

Need == targetInstances - Cardinality(instances)

\* MaxExec bounds the instances created; a negative need creates none.
Capped(n) == IF n < 0 THEN 0
             ELSE IF n > MaxExec - execCount THEN MaxExec - execCount ELSE n

EnterStart ==
    /\ crit = "free"
    /\ crit' = "count" /\ need' = Capped(Need)
    /\ UNCHANGED <<store, proc, todo, fields, instances, marks, waitLoop, waiter, watcher, sweep, lb, env, odds>>

\* The Start of stack.Start; requests are served once it has returned.
BootStart ==
    /\ phase = "starting" /\ EnterStart
    /\ phase' = "booting" /\ UNCHANGED starts

StartLock ==
    /\ starts > 0 /\ EnterStart
    /\ starts' = starts - 1 /\ UNCHANGED phase

\* Mutant: the count is stored before it is increased.
StoredBefore == execCount

StoredCount == execCount + 1

StartCount ==
    /\ crit = "count" /\ need > 0
    /\ execCount' = execCount + 1
    /\ store' = [store EXCEPT !.execCount = StoredCount]
    /\ crit' = "create"
    /\ UNCHANGED <<proc, boot, stopped, devMode, targetInstances, instances, need, starts, marks,
                   waitLoop, waiter, watcher, sweep, lb, env, odds>>

\* A Stop that is iterating over t.instances may or may not meet the new key.
StartCreate ==
    /\ crit = "create"
    /\ instances' = instances \cup {execCount}
    /\ waitLoop' = [waitLoop EXCEPT ![execCount] = "begin"]
    /\ \E met \in {{}, {execCount}} :
         sweep' = IF sweep["stop"].pc = "idle" THEN sweep
                  ELSE [sweep EXCEPT !["stop"].left = @ \cup met]
    /\ crit' = "count" /\ need' = need - 1
    /\ UNCHANGED <<store, proc, boot, fields, starts, marks, waiter, watcher, lb, env, odds>>

\* Mutant: only the instance created last is stored.
PersistLast == instances \cap {execCount}

PersistedIDs == instances

\* The loop is over: instanceIDs is stored and execMutex unlocked.
StartPersist ==
    /\ crit = "count" /\ need = 0
    /\ store' = [store EXCEPT !.instanceIDs = PersistedIDs]
    /\ crit' = "free"
    /\ phase' = IF phase = "booting" THEN "up" ELSE phase
    /\ UNCHANGED <<proc, todo, fields, instances, need, starts, marks, waitLoop, waiter, watcher, sweep, lb, env, odds>>

-----------------------------------------------------------------------------
(* waitLoop(i): one goroutine per tracked instance.                         *)

Goto(i, pc) == waitLoop' = [waitLoop EXCEPT ![i] = pc]

\* `t.stopped = false' is the goroutine's first statement.
WaitLoopBegin(i) ==
    /\ waitLoop[i] = "begin" /\ Goto(i, "start")
    /\ stopped' = FALSE
    /\ UNCHANGED <<store, proc, boot, devMode, targetInstances, execCount, instances, mutex, marks,
                   waiter, watcher, sweep, lb, env, odds>>

\* instance.Start of a new instance: the process exists before its pid is stored.
Launch(i) ==
    /\ waitLoop[i] = "start" /\ i \in Ids \ recovered /\ Goto(i, "pid")
    /\ proc' = [proc EXCEPT ![i] = "alive"]
    /\ process' = process \cup {i}
    /\ UNCHANGED <<store, boot, fields, instances, mutex, recovered, isDone, waiter, watcher, sweep, lb, env, odds>>

\* waitLoop returns the error; nothing removes the instance from t.instances.
LaunchFails(i) ==
    /\ LaunchCanFail
    /\ waitLoop[i] = "start" /\ i \in Ids \ recovered /\ Goto(i, "failed")
    /\ UNCHANGED <<store, proc, boot, fields, instances, mutex, marks, waiter, watcher, sweep, lb, env, odds>>

\* A recovered instance has its process; devInstance.Start does nothing.
LaunchSkipped(i) ==
    /\ waitLoop[i] = "start" /\ i \in recovered \cup Devs
    /\ Goto(i, IF i \in Devs THEN "lb" ELSE "pid")
    /\ UNCHANGED <<store, proc, boot, fields, instances, mutex, marks, waiter, watcher, sweep, lb, env, odds>>

StorePid(i) ==
    /\ waitLoop[i] = "pid" /\ Goto(i, "run")
    /\ store' = [store EXCEPT !.pid = @ \cup {i}]
    /\ UNCHANGED <<proc, boot, fields, instances, mutex, marks, waiter, watcher, sweep, lb, env, odds>>

StoreRunning(i) ==
    /\ waitLoop[i] = "run" /\ Goto(i, "wait")
    /\ store' = [store EXCEPT !.running = @ \cup {i}]
    /\ UNCHANGED <<proc, boot, fields, instances, mutex, marks, waiter, watcher, sweep, lb, env, odds>>

\* instance.wait: no waiter for an instance that was stopped meanwhile.
Wait(i) ==
    /\ waitLoop[i] = "wait" /\ Goto(i, "lb")
    /\ waiter' = IF i \in isDone THEN waiter ELSE [waiter EXCEPT ![i] = "waiting"]
    /\ UNCHANGED <<store, proc, boot, fields, instances, mutex, marks, watcher, sweep, lb, env, odds>>

\* addInstanceToLB takes the ports in order.
ListedUpTo(i, k) == \A l \in 1..k : i \in backends[l]
NextPort(i, k) == ListedUpTo(i, k - 1) /\ i \notin backends[k]

\* getListener finds the listener in t.lbListeners ...
AddToKnownListener(i) ==
    /\ waitLoop[i] = "lb"
    /\ \E k \in lbListeners :
         /\ NextPort(i, k)
         /\ backends' = [backends EXCEPT ![k] = @ \cup {i}]
    /\ UNCHANGED <<store, proc, boot, fields, instances, mutex, marks, waitLoop, waiter, watcher,
                   sweep, lbListeners, env, odds>>

\* ... or does not, and asks the load balancer for one, without a lock.
ListenerUnknown(i) ==
    /\ waitLoop[i] = "lb" /\ Goto(i, "bind")
    /\ \E k \in Ports \ lbListeners : NextPort(i, k)
    /\ UNCHANGED <<store, proc, boot, fields, instances, mutex, marks, waiter, watcher, sweep, lb, env, odds>>

\* AddListener refuses a port that somebody listens on, this task included.
CanBind(k) == k \notin PortsInUse \cup lbListeners

AddListener(i) ==
    /\ waitLoop[i] = "bind" /\ Goto(i, "lb")
    /\ \E k \in Ports :
         /\ NextPort(i, k) /\ CanBind(k)
         /\ lbListeners' = lbListeners \cup {k}
         /\ backends' = [backends EXCEPT ![k] = @ \cup {i}]
    /\ UNCHANGED <<store, proc, boot, fields, instances, mutex, marks, waiter, watcher, sweep, env, odds>>

\* waitLoop returns the error: the instance runs, tracked, without a watcher.
AddListenerFails(i) ==
    /\ waitLoop[i] = "bind" /\ Goto(i, "failed")
    /\ \E k \in Ports : NextPort(i, k) /\ ~CanBind(k)
    /\ UNCHANGED <<store, proc, boot, fields, instances, mutex, marks, waiter, watcher, sweep, lb, env, odds>>

WaitLoopEnd(i) ==
    /\ waitLoop[i] = "lb" /\ ListedUpTo(i, NumPorts) /\ Goto(i, "end")
    /\ watcher' = [watcher EXCEPT ![i] = "waiting"]
    /\ UNCHANGED <<store, proc, boot, fields, instances, mutex, marks, waiter, sweep, lb, env, odds>>

-----------------------------------------------------------------------------
(* instance.done(): check isDone; then set it, store running = "false" and   *)
(* close doneCh. The check and what follows are not atomic; what follows is  *)
(* one step here, as the others only look at isDone and doneCh.              *)

\* Mutant: the archive is not told.
DoneUnrecorded(i) == isDone' = isDone \cup {i} /\ UNCHANGED store

Done(i) ==
    /\ isDone' = isDone \cup {i}
    /\ store' = [store EXCEPT !.running = @ \ {i}]

\* Mutant: a recovered process is not polled.
GoneIfChild(i) == proc[i] = "dead" /\ i \notin recovered

\* What Wait4 waits for, of a child, and signal 0 tells, of a recovered process.
Gone(i) == proc[i] = "dead"

\* The wait is over and done() is called.
WaiterDone(i) ==
    /\ waiter[i] = "waiting" /\ Gone(i)
    /\ waiter' = [waiter EXCEPT ![i] = IF i \in isDone THEN "end" ELSE "close"]
    /\ UNCHANGED <<store, proc, boot, fields, instances, mutex, marks, waitLoop, watcher, sweep, lb, env, odds>>

\* Wait4 or the signal fails while the process lives, and done() is called all the same.
WaitFails(i) ==
    /\ waiter[i] = "waiting" /\ proc[i] = "alive" /\ i \in Wayward
    /\ waiter' = [waiter EXCEPT ![i] = IF i \in isDone THEN "end" ELSE "close"]
    /\ astray' = astray \cup {i}
    /\ UNCHANGED <<store, proc, boot, fields, instances, mutex, marks, waitLoop, watcher, sweep, lb, env, relisting, late>>

WaiterClose(i) ==
    /\ waiter[i] = "close" /\ i \notin isDone
    /\ waiter' = [waiter EXCEPT ![i] = "end"]
    /\ Done(i)
    /\ UNCHANGED <<proc, boot, fields, instances, mutex, process, recovered, waitLoop, watcher, sweep, lb, env, odds>>

\* Closing a closed channel panics in a goroutine nobody recovers: paasbox dies.
WaiterPanic(i) ==
    /\ waiter[i] = "close" /\ i \in isDone
    /\ Reboot /\ UNCHANGED crashes

-----------------------------------------------------------------------------
(* watcher(i): the goroutine that waits for doneCh.                         *)

\* The key of t.instances: whichever dev placeholder is tracked, for "dev".
Key(i) == IF i \in Devs THEN Devs ELSE {i}

WatcherDelete(i) ==
    /\ watcher[i] = "waiting" /\ i \in isDone
    /\ watcher' = [watcher EXCEPT ![i] = "unlist"]
    /\ instances' = instances \ Key(i)
    /\ UNCHANGED <<store, proc, boot, fields, mutex, marks, waitLoop, waiter, sweep, lb, env, odds>>

\* Mutants: no restart while a Start is at work; the test of `stopped' inverted.
RestartsIfIdle == ~stopped /\ Service /\ crit = "free"
RestartsStopped == stopped /\ Service

\* Whether the end of an instance makes the task start another one.
Restarts == ~stopped /\ Service

\* Mutant: the load balancer is left alone when the task was stopped.
UnlistUnlessStopped(i) == [k \in Ports |-> IF stopped THEN backends[k] ELSE backends[k] \ {i}]

removeInstanceFromLB(i) == [k \in Ports |-> backends[k] \ {i}]

\* removeInstanceFromLB, then `go t.Start()' unless the task was stopped.
WatcherEnd(i) ==
    /\ watcher[i] = "unlist"
    /\ watcher' = [watcher EXCEPT ![i] = "end"]
    /\ backends' = removeInstanceFromLB(i)
    /\ starts' = IF Restarts THEN starts + 1 ELSE starts
    /\ UNCHANGED <<store, proc, boot, fields, instances, crit, need, marks, waitLoop, waiter, sweep,
                   lbListeners, env, odds>>

-----------------------------------------------------------------------------
(* Handlers that call instance.Stop on the tracked instances.               *)

\* instance.Stop returns at once for these, and devInstance.Stop for all.
Stoppable(i) == i \in Ids /\ i \notin isDone /\ i \in process

SweepSkip(h) ==
    /\ sweep[h].pc = "pick"
    /\ \E i \in sweep[h].left :
         /\ ~Stoppable(i)
         /\ sweep' = [sweep EXCEPT ![h].left = @ \ {i}]
    /\ UNCHANGED <<store, proc, boot, fields, instances, mutex, marks, waitLoop, waiter, watcher, lb, env, odds>>

\* SIGKILL to the process group; done() is deferred.
SweepKill(h) ==
    /\ sweep[h].pc = "pick"
    /\ \E i \in sweep[h].left :
         /\ Stoppable(i)
         /\ proc' = [proc EXCEPT ![i] = "dead"]
         /\ sweep' = [sweep EXCEPT ![h] = [pc |-> "done", cur |-> i, left |-> @.left \ {i}]]
    /\ UNCHANGED <<store, boot, fields, instances, mutex, marks, waitLoop, waiter, watcher, lb, env, odds>>

\* `docker rm', or the kill, fails; done() is deferred all the same.
SweepKillFails(h) ==
    /\ sweep[h].pc = "pick"
    /\ \E i \in sweep[h].left :
         /\ Stoppable(i) /\ proc[i] = "alive" /\ i \in Wayward
         /\ astray' = astray \cup {i}
         /\ sweep' = [sweep EXCEPT ![h] = [pc |-> "done", cur |-> i, left |-> @.left \ {i}]]
    /\ UNCHANGED <<store, proc, boot, fields, instances, mutex, marks, waitLoop, waiter, watcher, lb, env, relisting, late>>

SweepDone(h) ==
    /\ sweep[h].pc = "done"
    /\ sweep' = [sweep EXCEPT ![h].pc = IF sweep[h].cur \in isDone THEN "pick" ELSE "close"]
    /\ UNCHANGED <<store, proc, boot, fields, instances, mutex, marks, waitLoop, waiter, watcher, lb, env, odds>>

SweepClose(h) ==
    /\ sweep[h].pc = "close" /\ sweep[h].cur \notin isDone
    /\ Done(sweep[h].cur)
    /\ sweep' = [sweep EXCEPT ![h].pc = "pick"]
    /\ UNCHANGED <<proc, boot, fields, instances, mutex, process, recovered, waitLoop, waiter, watcher, lb, env, odds>>

\* net/http recovers a panic of a handler; the deferred unlock runs.
SweepPanic(h) ==
    /\ h # "reap" /\ sweep[h].pc = "close" /\ sweep[h].cur \in isDone
    /\ sweep' = [sweep EXCEPT ![h] = NoSweep]
    /\ crit' = IF h = "crit" THEN "free" ELSE crit
    /\ UNCHANGED <<store, proc, boot, fields, instances, need, starts, marks, waitLoop, waiter, watcher, lb, env, odds>>

\* A healthcheck is a goroutine of its own: nobody recovers, and paasbox dies.
ReapPanic ==
    /\ sweep["reap"].pc = "close" /\ sweep["reap"].cur \in isDone
    /\ Reboot /\ UNCHANGED crashes

Swept(h) == sweep[h].pc = "pick" /\ sweep[h].left = {}

\* The healthcheck goes on.
ReapEnd ==
    /\ Swept("reap") /\ sweep' = [sweep EXCEPT !["reap"] = NoSweep]
    /\ UNCHANGED <<store, proc, boot, fields, instances, mutex, marks, waitLoop, waiter, watcher, lb, env, odds>>

\* task.Stop returns.
StopEnd ==
    /\ Swept("stop") /\ sweep' = [sweep EXCEPT !["stop"] = NoSweep]
    /\ UNCHANGED <<store, proc, boot, fields, instances, mutex, marks, waitLoop, waiter, watcher, lb, env, odds>>

\* RestartInstances returns: the watchers start the new instances.
SetEnvEnd ==
    /\ crit = "env" /\ Swept("crit")
    /\ crit' = "free" /\ sweep' = [sweep EXCEPT !["crit"] = NoSweep]
    /\ UNCHANGED <<store, proc, boot, fields, instances, need, starts, marks, waitLoop, waiter, watcher, lb, env, odds>>

\* Mutant: a SetDevMode that makes the map anew.
PlaceholderAlone(d) == {d}

WithPlaceholder(d) == (instances \ Devs) \cup {d}

\* SetDevMode(true) replaces t.instances["dev"] and stores instanceIDs.
DevModeOnEnd ==
    /\ crit = "devOn" /\ Swept("crit")
    /\ \E d \in Devs :
         /\ waitLoop[d] = "none"
         /\ instances' = WithPlaceholder(d)
         /\ Goto(d, "begin")
    /\ store' = [store EXCEPT !.instanceIDs = instances']
    /\ crit' = "free" /\ sweep' = [sweep EXCEPT !["crit"] = NoSweep]
    /\ UNCHANGED <<proc, boot, fields, need, starts, marks, waiter, watcher, lb, env, odds>>

-----------------------------------------------------------------------------
(* The requests of the HTTP API (server/api.go).                            *)

Request(r) ==
    /\ phase = "up" /\ r \in Requests
    /\ requests < MaxRequests
    /\ requests' = requests + 1 /\ lastRequest' = r
    /\ UNCHANGED crashes

\* startTask refuses a task that has started, then calls Start.
StartTask ==
    /\ Request("start") /\ stopped
    /\ starts' = starts + 1
    /\ UNCHANGED <<store, proc, boot, fields, instances, crit, need, marks, waitLoop, waiter, watcher, sweep, lb, odds>>

\* stopTask refuses a task that has not; Stop takes no lock. (One Stop at a time.)
StopTask ==
    /\ Request("stop") /\ ~stopped /\ sweep["stop"].pc = "idle"
    /\ stopped' = TRUE
    /\ sweep' = [sweep EXCEPT !["stop"] = [pc |-> "pick", cur |-> 0, left |-> instances]]
    /\ UNCHANGED <<store, proc, boot, devMode, targetInstances, execCount, instances, mutex, marks,
                   waitLoop, waiter, watcher, lb, odds>>

\* SetEnv changes the environment and restarts what runs.
SetEnv ==
    /\ Request("env") /\ crit = "free"
    /\ crit' = "env"
    /\ sweep' = [sweep EXCEPT !["crit"] = [pc |-> "pick", cur |-> 0, left |-> instances]]
    /\ UNCHANGED <<store, proc, boot, fields, instances, need, starts, marks, waitLoop, waiter, watcher, lb, odds>>

\* (Devs bounds how often dev mode is switched on.)
DevModeOn ==
    /\ Request("devOn") /\ crit = "free"
    /\ \E d \in Devs : waitLoop[d] = "none"
    /\ devMode' = TRUE /\ targetInstances' = 0
    /\ crit' = "devOn"
    /\ sweep' = [sweep EXCEPT !["crit"] = [pc |-> "pick", cur |-> 0, left |-> instances]]
    /\ UNCHANGED <<store, proc, boot, stopped, execCount, instances, need, starts, marks, waitLoop,
                   waiter, watcher, lb, odds>>

OpenDevs == (instances \cap Devs) \ isDone

\* Closing the doneCh of the placeholder ends dev mode.
DevModeOff ==
    /\ Request("devOff") /\ crit = "free"
    /\ devMode' = FALSE
    /\ \E d \in OpenDevs : isDone' = isDone \cup {d}
    /\ targetInstances' = OriginalTarget
    /\ starts' = starts + 1
    /\ UNCHANGED <<store, proc, boot, stopped, execCount, instances, crit, need, process, recovered,
                   waitLoop, waiter, watcher, sweep, lb, odds>>

\* No placeholder, or a closed one: close panics, and net/http recovers.
DevModeOffPanic ==
    /\ Request("devOff") /\ crit = "free" /\ OpenDevs = {}
    /\ devMode' = FALSE
    /\ UNCHANGED <<store, proc, boot, stopped, targetInstances, execCount, instances, mutex, marks,
                   waitLoop, waiter, watcher, sweep, lb, odds>>

-----------------------------------------------------------------------------
(* Healthchecks, as far as they act on the task: they look at the tracked    *)
(* instances without a lock. (While its waitLoop lists an instance, they do   *)
(* not: what they list or unlist before, waitLoop lists.)                    *)

Checkable(i) == i \in Checked /\ waitLoop[i] \in {"end", "failed"}

\* Unhealthy: the load balancer forgets it.
CheckUnlist(i) ==
    /\ Checkable(i) /\ i \in instances
    /\ backends' = removeInstanceFromLB(i)
    /\ UNCHANGED <<store, proc, boot, fields, instances, mutex, marks, waitLoop, waiter, watcher, sweep,
                   lbListeners, env, odds>>

\* Healthy again: every healthcheck of it agrees, and it is listed ...
CheckReturns(i) ==
    /\ Checkable(i) /\ i \in instances /\ i \notin relisting
    /\ relisting' = relisting \cup {i}
    /\ UNCHANGED <<store, proc, boot, fields, instances, mutex, marks, waitLoop, waiter, watcher, sweep, lb,
                   env, astray, late>>

\* ... some time after, on every port up to one that cannot be listened on.
CanList(k) == k \in lbListeners \/ CanBind(k)

CheckRelist(i) ==
    /\ i \in relisting /\ relisting' = relisting \ {i}
    /\ \E n \in 0..NumPorts :
         /\ \A k \in 1..n : CanList(k)
         /\ n < NumPorts => ~CanList(n + 1)
         /\ lbListeners' = lbListeners \cup 1..n
         /\ backends' = [k \in Ports |-> IF k <= n THEN backends[k] \cup {i} ELSE backends[k]]
    /\ late' = IF i \in instances \/ watcher[i] = "unlist" THEN late ELSE late \cup {i}
    /\ UNCHANGED <<store, proc, boot, fields, instances, mutex, marks, waitLoop, waiter, watcher, sweep,
                   env, astray>>

\* Beyond hope: it is stopped. (One at a time.)
CheckReaps(i) ==
    /\ i \in instances \cap Checked /\ sweep["reap"].pc = "idle"
    /\ sweep' = [sweep EXCEPT !["reap"] = [pc |-> "pick", cur |-> 0, left |-> {i}]]
    /\ UNCHANGED <<store, proc, boot, fields, instances, mutex, marks, waitLoop, waiter, watcher, lb, env, odds>>

-----------------------------------------------------------------------------
(* The environment.                                                         *)

ProcExit(i) ==
    /\ proc[i] = "alive"
    /\ proc' = [proc EXCEPT ![i] = "dead"]
    /\ UNCHANGED <<store, boot, fields, instances, mutex, marks, waitLoop, waiter, watcher, sweep, lb, env, odds>>

\* paasbox dies (its tasks live on: they have a process group each) and is restarted.
Crash ==
    /\ crashes < MaxCrashes
    /\ crashes' = crashes + 1
    /\ Reboot

-----------------------------------------------------------------------------
Boot == (\E i \in todo : RecoverInstance(i)) \/ RecoverFails \/ RecoverDone
StartLoop == StartCount \/ StartCreate \/ StartPersist

WaitLoop(i) ==
    \/ WaitLoopBegin(i) \/ Launch(i) \/ LaunchFails(i) \/ LaunchSkipped(i)
    \/ StorePid(i) \/ StoreRunning(i) \/ Wait(i)
    \/ AddToKnownListener(i) \/ ListenerUnknown(i) \/ AddListener(i) \/ AddListenerFails(i)
    \/ WaitLoopEnd(i)

Waiter(i) == WaiterDone(i) \/ WaiterClose(i) \/ WaiterPanic(i)
Watcher(i) == WatcherDelete(i) \/ WatcherEnd(i)
SweepLoop(h) ==
    \/ SweepSkip(h) \/ SweepKill(h) \/ SweepKillFails(h) \/ SweepDone(h) \/ SweepClose(h) \/ SweepPanic(h)
SweepEnd == StopEnd \/ SetEnvEnd \/ DevModeOnEnd
Check(i) == CheckUnlist(i) \/ CheckReturns(i) \/ CheckRelist(i) \/ CheckReaps(i)
Reap == ReapPanic \/ ReapEnd

Next ==
    \/ Boot \/ BootStart \/ StartLock \/ StartLoop
    \/ \E i \in AllIds : WaitLoop(i) \/ Watcher(i)
    \/ \E i \in Ids : Waiter(i) \/ WaitFails(i) \/ ProcExit(i) \/ Check(i)
    \/ \E h \in Handlers : SweepLoop(h)
    \/ SweepEnd \/ Reap
    \/ StartTask \/ StopTask \/ SetEnv \/ DevModeOn \/ DevModeOff \/ DevModeOffPanic
    \/ Crash

\* Goroutines and handlers are scheduled; sync.Mutex starves nobody. Processes
\* need not exit, users need not ask, and paasbox need not crash.
Fairness ==
    /\ WF_vars(Boot) /\ SF_vars(BootStart) /\ SF_vars(StartLock) /\ WF_vars(StartLoop)
    /\ \A i \in AllIds : WF_vars(WaitLoop(i)) /\ WF_vars(Watcher(i))
    /\ \A i \in Ids : WF_vars(Waiter(i))
    /\ \A h \in Handlers : WF_vars(SweepLoop(h))
    /\ WF_vars(StopEnd) /\ WF_vars(SetEnvEnd) /\ WF_vars(DevModeOnEnd) /\ WF_vars(Reap)

Spec == Init /\ [][Next]_vars
FairSpec == Spec /\ Fairness

-----------------------------------------------------------------------------
(* Type invariant.                                                          *)

WaitLoopPC == {"none", "begin", "start", "pid", "run", "wait", "lb", "bind", "end", "failed"}

PersistentTypeOK ==
    /\ store \in [execCount : 0..MaxExec, instanceIDs : SUBSET AllIds,
                  pid : SUBSET Ids, running : SUBSET Ids]
    /\ proc \in [Ids -> {"none", "alive", "dead"}]

FlagsTypeOK == stopped \in BOOLEAN /\ devMode \in BOOLEAN

FieldsTypeOK ==
    /\ phase \in {"recovering", "starting", "booting", "up"} /\ todo \subseteq AllIds
    /\ targetInstances \in {0, OriginalTarget}
    /\ execCount \in 0..MaxExec /\ instances \subseteq AllIds

MutexTypeOK ==
    /\ crit \in {"free", "count", "create", "env", "devOn"}
    /\ need \in Nat /\ starts \in Nat

InstancesTypeOK ==
    /\ process \subseteq Ids /\ recovered \subseteq Ids /\ isDone \subseteq AllIds
    /\ waitLoop \in [AllIds -> WaitLoopPC]
    /\ \A d \in Devs : waitLoop[d] \notin {"pid", "run", "wait"}
    /\ waiter \in [Ids -> {"none", "waiting", "close", "end"}]
    /\ watcher \in [AllIds -> {"none", "waiting", "unlist", "end"}]

SweepTypeOK ==
    sweep \in [Handlers -> [pc : {"idle", "pick", "done", "close"}, cur : 0..MaxExec,
                            left : SUBSET AllIds]]

LBTypeOK ==
    /\ lbListeners \subseteq Ports /\ backends \in [Ports -> SUBSET AllIds]

OddsTypeOK == astray \subseteq Ids /\ relisting \subseteq Ids /\ late \subseteq Ids

EnvTypeOK ==
    /\ requests \in Nat /\ crashes \in Nat
    /\ lastRequest \in {"none"} \cup AllRequests

\* Every variable has the values the program gives it; in particular execCount
\* stays within the numbers instances have, and a Start never counts below zero.
TypeOK ==
    /\ PersistentTypeOK /\ FlagsTypeOK /\ FieldsTypeOK /\ MutexTypeOK /\ InstancesTypeOK
    /\ SweepTypeOK /\ LBTypeOK /\ OddsTypeOK /\ EnvTypeOK

-----------------------------------------------------------------------------
(* Safety.                                                                  *)

Created == (instances \cap Ids) \ recovered

\* The number of the instance Start is about to create was never used before,
\* also not before a crash: no process runs, is tracked or is archived under it.
FreshIds ==
    crit = "create" =>
        /\ execCount \in Ids /\ proc[execCount] = "none"
        /\ execCount \notin instances \cup process \cup store.pid \cup store.running

\* However many Starts the watchers, the handlers and stack.Start issue, they
\* never create more instances than are configured. (Recovered ones may come on
\* top: Recover adds to t.instances without the lock while a Start runs.)
CreatedAtMostTarget == Cardinality(Created) <= OriginalTarget

\* A live process this paasbox started or recovered is in t.instances, where
\* task.Stop and a healthcheck can reach it, unless an attempt to kill it, or the
\* wait for it, has failed: then it counts as ended, and nobody looks after it.
NoLostChild == \A i \in process : proc[i] = "alive" => i \in instances \cup astray

\* The load balancer forwards to no instance that has left t.instances, except
\* for the moment its watcher needs to unlist it, or when a healthcheck that found
\* it healthy before lists it again after that.
ListedIsTracked(i) ==
    \A k \in Ports : i \in backends[k] => i \in instances \cup late \/ watcher[i] = "unlist"
NoStaleBackend == \A i \in Ids : ListedIsTracked(i)

\* While execMutex is free every instance a Start created and that is still
\* tracked is among the stored instanceIDs, where a paasbox started after a crash
\* looks for it. (A recovered one may not be: a Start that runs beside Recover
\* stores the list before Recover has added the instance.)
CreatedIsPersisted == crit = "free" => Created \subseteq store.instanceIDs

\* A service that is short of instances has a Start on its way. (After a Recover
\* that succeeded it may not: Recover never compares what it found with the
\* target, so the claim is made of a paasbox that recovered nothing.)
RepairPending ==
    \/ starts > 0 \/ crit \in {"count", "create"} \/ phase # "up"
    \/ \E i \in AllIds : watcher[i] = "unlist"
NoLostRestart ==
    Service /\ ~stopped /\ recovered = {} /\ Cardinality(instances) < targetInstances
        => RepairPending \/ execCount = MaxExec

\* The archive (getArchivedInstance) reports an instance as running, once doneCh is
\* closed, only when instance.Start was overtaken by a Stop: it then writes "running"
\* last, and nobody waits for the process. An exit never goes unreported.
ExitReported == \A i \in isDone \cap store.running : waiter[i] = "none"

-----------------------------------------------------------------------------
(* What a task promises of its instances (module InstanceLedger). A number  *)
(* counts as given out once its instance is tracked; until then only a      *)
(* restart of paasbox can lose it.                                          *)

LastCreated == IF crit = "create" THEN execCount - 1 ELSE execCount

Ledger == INSTANCE InstanceLedger WITH
    Numbers <- Ids, Target <- OriginalTarget, last <- LastCreated,
    created <- Created, adopted <- instances \cap recovered, process <- proc,
    givenUp <- astray

\* Start, Stop, Recover, the goroutines of the instances and the requests, in any
\* interleaving and with crashes, keep the ledger: fresh numbers, one launch each,
\* never more created than configured, none forgotten before its process is dead,
\* or was given up because it could not be killed or waited for.
TaskKeepsLedger == Ledger!Spec

-----------------------------------------------------------------------------
(* Liveness, under Fairness.                                                *)

Tracked(i) == i \in instances \/ \E k \in Ports : i \in backends[k]

\* instance.Start or addInstanceToLB has failed: the instance stays where it is, for
\* its waitLoop has returned without a watcher.
Abandoned(i) == waitLoop[i] = "failed"

\* An instance whose process has exited disappears from t.instances and from the
\* load balancer, unless it was abandoned, or listed again too late: no waiter,
\* watcher or channel of it is forgotten.
DeadIsUntracked == \A i \in Ids : proc[i] = "dead" ~> (~Tracked(i) \/ Abandoned(i) \/ i \in late)

\* The processes of a service are replaced: either all the instances asked for run
\* again, but for the abandoned, which count for ever, or the bound on instances is
\* reached. (Not so after a Recover that succeeded, which never compares what it
\* found with the target.)
Replenished ==
    \/ Cardinality({i \in instances \cap Ids : proc[i] = "alive" \/ Abandoned(i)}) >= targetInstances
    \/ execCount = MaxExec
ServiceIsReplenished == []<>(Replenished \/ recovered # {})

-----------------------------------------------------------------------------
(* What a test says of the code, and the code does not do.                  *)

\* task_test.go: after t2.Stop(), t2.stopped is true.
StopSticks ==
    lastRequest = "stop" /\ sweep["stop"].pc = "idle" => stopped
=============================================================================
