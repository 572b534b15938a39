# A TLA+ model of paasbox

paasbox (`src/`) is a small PaaS for one machine: it reads *stack* files, keeps the processes ("instances") of
the tasks they name running, routes TCP traffic to them through an embedded load balancer, remembers what it
started in BoltDB so that it can pick it up again after a restart, and serves an HTTP API and a web interface that
uses it.

This directory holds TLA+ modules translated from its Go and JavaScript code, the TLC configurations that check them on small
instances, and theorems proved by TLAPS for every instance. `PROJECT.json` lists the runs, the source lines behind
each definition, a mutant for every property, the findings and the hazards.

## The system

| Component | State it keeps | Operations | What makes it correct |
| --- | --- | --- | --- |
| Task supervisor, `sysd/task/task.go` | `instances`, `stopped`, `devMode`, `targetInstances`, `execCount`, `lbListeners`, `execMutex`; in BoltDB `execCount`, `instanceIDs` | `Recover`, `Start`, `Stop`, `SetEnv`, `SetDevMode`, one `waitLoop` goroutine and one watcher goroutine per instance | never more instances than configured, none lost, each exit followed by a restart, a Stop that sticks, numbers never reused |
| Instance, `sysd/task/instance.go`, `devInstance.go` | `process`, `isDone`, `doneCh`, `recovered`; in BoltDB `pid`, `running` | `Start`, `Stop`, `wait`, `done` for the drivers exec, shell, docker | `doneCh` closed once, the archive says what happened |
| Healthcheck, `sysd/task/healthcheck.go` | `tracker`: score and health of each instance, per check | ticker, one goroutine per instance and tick | only healthy instances get traffic, a dead one is never added back |
| Load balancer, `sysd/loadbalancer` | listeners, their addresses, statistics, a channel of statistics, a ring of 50,000 log lines | accept loop, `pipe`, `trackStats`, `Stats`, `AddListener`, `AddInstances`, `RemoveInstance`, `Message`, `Log` | every connection counted once, no connection to an address that was not listed, log in order |
| Log driver, `sysd/logger` | two bounded channels | `SendAppMessage`, `SendPBMessage`, `Start`, `Stop` | every message delivered, shutdown ends |
| Stack, `sysd/stack` | tasks, environment | `New`, `Init`, `Start`, `Stop`, `Shutdown` | init errors reported, recovery before start |
| sysd, `sysd/sysd.go` | stacks, their order | `New`, `Start`, `stop` | every enabled stack started once, shutdown ends |
| HTTP API, `sysd/server/api.go` | none of its own | start/stop task and stack, update task, stop instance, listings and pagination | the handler does what its name says |
| Log handlers, `sysd/server/server.go`, `logs.go` | `tailMap`: tails of files and their readers | `get`, `done`, `Stop`, range requests | a tail lives while somebody reads it |
| Environment substitution, `sysd/util/env` | - | `Replace` | each variable replaced by its value |
| Git init, `sysd/task/init.go` | - | `NewGitInit`, `Do` | repository cloned before the task starts |
| Web interface, `views` | the Redux store (`stacks`, active stack with its tasks, active task), `isFetchingTasks`, the state of each `TaskItem` | routes, fetches of stacks and tasks, clicks on a task's switches, logs | it shows the tasks of the stack in the address bar, loading ends, a click ends in the right label |
| State store, `state/boltdb.go` | buckets of a BoltDB file | `Get`, `Set`, `GetArray`, `SetArray`, `Wrap` | what was set is read back |

How they interact: `sysd.New` creates the load balancer, the log driver and the stacks, and initialises all stacks in
parallel; `sysd.Start` recovers or starts every task. A task calls the load balancer for each instance it lists or
unlists, and its healthchecks do the same behind its back, and kill instances. Everybody logs through
`lbLogger.Message`, which sends to the log driver. HTTP handlers call the methods of tasks and stacks from goroutines
of their own, and the web interface calls the handlers, over a network that delays and loses answers. What a task must
remember across a restart it writes to BoltDB, one value per transaction.

What is hard to test: several goroutines per instance that share fields without a lock or with `execMutex` held only
by some of them; a Stop, an exit and a restart in any order; a crash of paasbox between two writes to BoltDB; slow
probes that report on instances that are gone; statistics that arrive late and from four paths; a log driver that
blocks whoever logs; errors that arrive in a channel nobody waits for; a kill or a wait that fails and counts as an end all the same; a `Recover`
that takes no lock while others rewrite what it reads; two users who start and stop the same stack; a daemon that is stopped or crashes while it starts instances; answers to a page that the
user has left. `PROJECT.json` lists each hazard at its line.

## The modules

| Module | Models | Properties checked |
| --- | --- | --- |
| `Task` | one task: boot, `Start`, `waitLoop`, waiter and watcher of each instance, `Stop`, `SetEnv`, `SetDevMode`, what its healthchecks kill and list again, kills and waits that fail, crashes, the store | `IInv`, `FreshIds`, `CreatedAtMostTarget`, `NoLostChild`, `NoStaleBackend`, `CreatedIsPersisted`, `NoLostRestart`, `ExitReported`, `TaskKeepsLedger` (refinement of `InstanceLedger`), `DeadIsUntracked`, `ServiceIsReplenished`, and `StopSticks`, which is violated |
| `InstanceLedger` | abstract: the numbers, processes and tracked instances of a task, without goroutines, mutex and requests | |
| `TaskProofs` | the inductive invariant `IInv` and its theorems, and what a task promises to others on top of it, and the refinement of `InstanceLedger` | |
| `StackLife` | a stack and its daemon: `sysd.Start` and `stop`, `stack.Start` and `Stop`, the handlers that call them, `Recover` step by step, shutdown, crash and the next boot | `NoSecondProcess`, `NoOrphan`, `StartedIsCovered` |
| `StackLifeProofs` | the inductive invariant `LifeInv` and its theorems | |
| `Healthcheck` | ticker, tracker and goroutines of every check of a task, beside the life of its instances | `HInv`, `ReapIsDeserved`, `ReturnIsDeserved`, `HungIsReaped` |
| `HealthcheckProofs` | the inductive invariant `HInv` and its theorems | |
| `LoadBalancer` | one listener: accept loop, two pipes and a closer per connection, `trackStats`, a caller of `Stats`, peers that stop to read | `TypeOK`, `ActiveIsCounted`, `EndedIsClosed`, `StatsMakeSense`, `ConnectionEnds`, `CountsSettle` |
| `LoadBalancerProofs` | the inductive invariant `LBInv` and its theorems | |
| `BoundedLog` | abstract: a log that keeps its last `Limit` messages | |
| `LogRing` | the ring behind `lbLogger.Message` and `Log`, with concurrent writers and readers | `LogIsWhole`, `RingIsBoundedLog` (refinement of `BoundedLog`) |
| `LogDriver` | the logstash driver: channels, blocked senders, retries, `Stop` | `NothingLost`, `InOrder`, `MessagesAreDelivered` |
| `LoadBalancerLog` | `LogRing` and `LogDriver` composed: `Message` sends to the driver while it holds the ring's lock | `EveryoneReturns`, and those of its parts |
| `LoadBalancerLogProofs` | the inductive invariants `RingInv` of the ring and `DInv` of the driver, their theorems, and the refinement of `BoundedLog` | |
| `Startup` | `sysd.New`, `stack.Init`, `task.Init`, `gitInit.Do` | `TwoFailuresAreSeen`, `DirsAreCloned`, `InitEnds` |
| `StartupProofs` | the inductive invariant `SInv` and its theorems | |
| `EnvReplace` | `env.Replace` and its parser, character by character | `VariablesAreReplaced`, and `UseIsItsValue`, which is violated |
| `EnvReplaceProofs` | the inductive invariant `EInv` and its theorems | |
| `WebUI` | the web interface: routes, store, fetches whose answers come late, out of order or never, clicks that the API may refuse, and another client of the API | `TypeOK`, `ListHasTasks`, `ShownAreOfStack`, `LogsFollowPath`, `LoadingIsAwaited`, `ClickHeals` |
| `WebUIProofs` | the inductive invariant `WInv` and its theorems | |

`MCTask`, `MCStackLife`, `MCHealthcheck`, `MCLoadBalancer`, `MCLoadBalancerLog`, `MCStartup`, `MCEnvReplace` and `MCWebUI`
instantiate them for TLC (sets and functions that a configuration names). All but `MCLoadBalancer` extend
the proof modules of what they instantiate, so that the definitions TLC checks are those the theorems are about, and
the assumptions on the constants are evaluated. A definition that a comment calls a mutant is not part of the model: put in
place of the definition after it, it makes TLC refute the property `PROJECT.json` names with it.

### Task

An instance is its number, the value of `execCount` when `Start` created it. Each goroutine and each handler has a
program counter, and a step is what happens between two points where another goroutine can interfere: `StartCount`,
`StartCreate`, `StartPersist` under `execMutex` (`crit` says where its holder is); `waitLoop[i]` goes through
`instance.Start` (launch, store pid, store running) and the load balancer's ports one by one; `waiter[i]` is the
goroutine blocked in `process.Wait`, or polling a recovered process; `watcher[i]` waits for `doneCh`, deletes the
instance, unlists it, and calls `Start` for a service that was not stopped. `sweep["stop"]` is `task.Stop`,
`sweep["crit"]` the loop over all instances in `SetEnv` and `SetDevMode`, which hold `execMutex`. `store` is BoltDB
and `proc` the operating system's processes: both survive `Crash`, which forgets everything else; `Reboot` then runs
`stack.Start`: `Recover`, and `Start` if that fails and the task is a service. `done()` may run twice at once, as the
code allows, and the panic of the second `close(doneCh)` is a step: of the waiter or of a healthcheck it kills paasbox, in a
handler `net/http` recovers it.

`done()` does not ask whether the process has ended: `instance.Stop` defers it, so that it also runs when `docker rm` or the
kill fails (`SweepKillFails`), and the waiter calls it on any error of `Wait4` or of signal 0 (`WaitFails`). Both may happen to the
instances of `Wayward`; `astray` names those given up while they lived. `sweep["reap"]` is a healthcheck that kills one
instance. A healthcheck also lists an instance again (`relisting`), at any moment up to and after its watcher's unlisting;
`late` names the instances listed after it. `Checked` says which instances have a healthcheck. When a check does what is
the subject of `Healthcheck`.

`InstanceLedger` says what all of this comes to: an instance is created under a number above all earlier ones, launched once,
and forgotten when its process is dead or when it is given up (`givenUp`); a restart of paasbox forgets all of them, and the processes it left alive may be
adopted. The refinement mapping takes `created` and `adopted` from `instances` and `recovered`, `process` from `proc`, and
`last` from `execCount`, which is one ahead while `Start` is between counting an instance and tracking it (`LastCreated`): a
crash there loses a number, and a step `Restart` of the ledger may do so.

### StackLife

What `Task` leaves out: several agents that start and stop the same tasks. `Main` is `sysd.Start` and later `sysd.stop`;
each member of `Handlers` is the goroutine of one request, which checks `stopped` or `stackStopped` first and acts
later, as the handlers do, so that two requests pass the check together. A goroutine `go t.Start()` of a watcher is
counted in `starts`, a `waitLoop` is `loop[t][i]`, that of a recovered instance `found[t][i]`, a watcher
`watching[t][i]`; the last two are counters, since a stack that is started twice recovers its instances twice.
`Recover` takes no lock, and reads the list (`RecoverRead`), probes an instance (`RecoverProbe`) and adds it to `t.instances`
(`RecoverAdd`) in steps of their own, between which watchers, exits, other agents and `Start` act: an instance that has ended
and been forgotten in the meantime is added again. `RecoverFails` is its end at an instance that is gone. `recovery` is what it
holds in local variables. `store` and `proc` survive the end of paasbox, whether it shuts down (`Signal`, `CloseStores`, `Exit`) or crashes (`Crash`).
`CloseStores` does not wait for the goroutines at work, and what they write after it is lost (`open`); a `waitLoop` that cannot
store its pid starts no watcher (`BeginWatching`). The kill of an instance of `Wayward`, or the wait for it, may fail: its task then
forgets a process that runs.

`excused` records the instances that the code may lose, each at the step that loses it, and the properties are about the others:
those whose start was under way when the stores closed or paasbox crashed (`Unfinished`), those given up alive (`Watcher`), those that
`Recover` added after their end (`Relisted`), and those that the list in the archive names beside an excused one at the end of
paasbox, because the next `Recover` gives up at that one and passes over the rest (`PassedOver`). None of these can be left out: TLC then
finds a property violated. Tasks have one instance each, launches succeed, and a process number is recognised for what it is: `Task` has
the details of a single task. `New` leaves every task and the stack stopped (`Init`, `Gone`).

### Healthcheck

It has its own abstract life of an instance (launched, listed, ended, untracked, unlisted, tracker entries deleted),
in the order in which `task.waitLoop` does it, so that the checks meet instances at every stage. A tick takes the
instances one by one and starts a goroutine for each; the mutex of the check admits one of them; a probe passes or
fails, moves the score, and removes, kills or re-adds the instance. Reading a tracker entry that the watcher has
deleted is a nil dereference: `crashed`. `HungIsReaped` speaks of an instance that passes no check any more, whatever it
did before: `<>[][~Passes]_vars`. Each check has thresholds of its own. Where `unhealthy_threshold` equals `reap_threshold` the first
branch is taken at that score (healthcheck.go:141), and no later score equals the second (148): such a check reaps nothing, and
`HungIsReaped` asks that one check `CanReap`. A kill or a wait that fails closes `doneCh` of a process that lives (`done` without
leaving `alive`), which nobody looks after from then on.

### LoadBalancer

One accept loop, which also dials; for each connection two pipes, named by the socket they read, and the goroutine
that waits for both. Every counter travels through `statChan`, a bounded channel, to `trackStats`. Client and
instance send, finish, or vanish at any moment. Each peer sends at most one chunk, of size one: bytes matter to the
properties only as received before sent. The loops of the pipes read, report and write in separate steps. `Senders`,
`Vanishing` and `Slow` say which peers send data, which may reset a connection, and which may stop to read: a write to such a
peer waits (`stalled`), for a socket has no deadline. `trackStats` raises `activeConns` and `totalConns` one after the other
(`Count`, `TrackTotal`), and `Stats` reads the counters of `Reported` one by one, in any order and without a lock, while they change
(`StatsReads`, `StatsReturns`).

### LogRing, BoundedLog and LoadBalancerLog

`Message` advances `Pos` and stores the message in two steps under the write lock, because the log driver may block
in between. `Chronicle`, the refinement mapping, reads the ring from its oldest message on; while a writer is between
the two steps the slot at `Pos` is the oldest one. TLC checks `Bounded!Spec` as a property, and it is proved. `Log` returns the newest
message first and then the rest from the oldest on, which is what starting to read at `Pos` gives; `LogIsWhole` says
that a reader sees exactly one state of the log.

### LogDriver

Tails send lines, callers of `Message` send while they hold the lock: in `LoadBalancerLog` a caller takes the lock,
advances `Pos` and starts to send in one step (`LockAndSend`), and stores when the send has returned or panicked
(`SentAndStore`), so that a full channel keeps writers and readers of the ring out. Once a channel is closed a send panics, and
`recover()` drops the message (`SendPanics`); a closed, empty channel yields zero messages without end (`Receive`).
`PostFails` repeats; `AnswerIsLost` is a request that times out after logstash has stored the message, so that it is
stored again. The names in `stored` are logstash's view.

### Startup

All goroutines of all stacks run at once. `collector[s]` is the goroutine that ranges over `errChan`: it holds an error
between the receive and the append, and nothing makes `Init` wait for that append. A directory is absent, in the way
(a file), half cloned, or cloned; git removes what it made when it fails to fetch and
leaves it when it fails to check it out; a power cut leaves it half cloned. `torn` names the directories left so.

### EnvReplace

A text is a sequence of tokens (a letter, the use of a variable) whose meaning is known, and a turn of the loop of `replace`
reads one of their characters (`ReadChar`): `token` and `char` say where it is, `parser` holds the local variables. Between two
texts the loop of `Replace` stores a variable (`Define`), passes over an entry without `=` (`Skip`), or ends (`Replace`).
The history follows the author's tokens beside it: `meaning` is what those read so far mean, `meant` what each variable ought
to be. A name may begin another one, as PORT begins PORT0 and PORT1 in every task with ports (instance.go:112-116): a use then means what
the code makes of it, the value of the shortest defined name it begins with and the rest of its letters (`Meaning`), and what the
documentation makes of it is `UseIsItsValue`. The empty name, of a lone dollar or of an entry `=value`, is a name like any other.
`Settled` leaves out an undefined variable that begins a defined one's name or is not followed by another variable, which the code mistreats.

### WebUI

An action is an event in the browser (the stacks arrive, a link or the back button, an answer, a click) with every update
that React and react-redux make because of it: JavaScript runs one event to its end. What interleaves is the network:
`fetches` and `posts` are the requests under way, whose answers come in any order or not at all. `fetchTasks` waits for two
requests, which are one here. A controller that is unmounted leaves its fetches behind, which still dispatch when they are
answered (`mine`, `then`). `broken` names the component whose `TypeError` ended an update half way: there the page is stuck.
The server side is `is_started` and `dev_mode` of each task, which `Other` changes behind the page's back; the labels of
an answer are what the API said when it answered, which may be anything by the time it arrives (`labels`). A request to start may
come to nothing (`Refuse`): the stack is stopped (api.go:447), `Start` fails, or there is nothing to create and `stopped` stays
true (task.go:611).

## The runs

Passing runs, with the bounds that matter and why they are enough:

* `task_instances`: two instances behind one port, three numbers, failing launches and listeners, one instance whose kill or wait
  may fail, a crash. Two instances and one more are enough for a watcher to race with a `Start`, another watcher and a `Recover`,
  and for a `waitLoop` that loses the race for the listener; a crash falls into every step of `Start`. It checks the proved
  `IInv`, the refinement of `InstanceLedger`, and the liveness properties.
* `task_requests`: one instance and a second that replaces it, every request, two of them in any order, two dev-mode placeholders,
  one instance with a healthcheck, one whose kill or wait may fail.
* `health`: two checks of one instance, so that one acts while the other holds its own mutex; the instance may end at any
  stage. The thresholds are small; the second check has equal ones and cannot reap. The two safety properties are proved for all of them.
* `lb_counts`: two connections, one of them with data, an instance that comes and goes, a channel with room for one
  statistic, and a dial that fails: every path on which a connection is counted or uncounted meets every other.
  A caller of `Stats` looks at one counter of
  connections and one of bytes; the theorem covers all four.
  `lb_ends`: one connection, data both ways, a client and an instance that may stop to read, resets by the instance, an `Accept` that fails.
* `log`: two callers with two messages each and a ring of two slots, which wraps around; channels with room for one and
  two messages, so that each is full while it is closed; one lost answer.
* `startup`: a stack with two tasks and one with a single task, which share directories; two boots, a power cut,
  clones that fail and may leave their directory.
* `stack_life`: one service, persistent or not, two numbers, two handlers and two requests, two boots: two starts, two
  stops or a start and a stop meet at every step, a crash or a shutdown falls into each, followed by a recovery, and the kill of the
  first instance, or the wait for it, may fail. Two numbers are an instance that was given up or has ended, and the one that replaced it:
  without any one of the excuses TLC finds a violation within these bounds. The two users are symmetric. More numbers,
  tasks, users and boots add nothing new to a single task; the theorems cover them.
* `web_interface`: two stacks with the same two tasks (React reuses the `TaskItem`s of one for the other), one switch per
  task, three fetches, so that a late answer can come between two others, and two changes, clicks or another client's. The
  two tasks are symmetric.
* `env_names`: environments of up to three entries (two ports, one redefined or used by the next, and one entry without
  `=`) over the names PORT and PORT1, of which one begins the other, and the empty name, texts of up to three tokens, among them
  an undefined variable and a backslash: each token meets each other before and after it.

`CHECK_DEADLOCK FALSE` is set everywhere: every model stops when its bounded numbers, messages or requests are used
up, which the real system never does.

Two runs show a violation, the findings in `PROJECT.json` with the lines they contradict: in `task_stop_sticks` the `waitLoop`
of an instance created around a `Stop` resets `stopped`, and the service comes back; in `env_ports`, with the constants of
`env_names`, `$PORT1` becomes the value of `PORT` followed by 1.

## Known deviations

The models take these steps as the code does; the properties above are stated so that they hold in spite of them.

* `Recover` gives up at the first instance it cannot recover: the live ones after it are neither tracked nor stopped
  (`RecoverFails`), and one that finds fewer instances than configured starts none (task.go:525).
* `Recover` takes no lock: an instance that ends after it was probed (task.go:525) and is forgotten and replaced before it is added
  (532) is in `t.instances` again. A `Start` that stores the list then stores a dead instance beside a live one, and a paasbox
  that starts after a crash at that moment gives up at the dead one: the live one is orphaned and a second process started (`RecoverAdd`,
  `PassedOver`).
* `done()` also runs when `docker rm` or the kill fails (instance.go:301-325), and on every error of `Wait4` or signal 0 (383-387,
  427-431): the task forgets a process that lives, and a service starts another beside it (`SweepKillFails`, `WaitFails`, `Watcher`).
* A launch that fails leaves its instance in `t.instances`, where it counts for ever (`Abandoned`, task.go:721).
* A `Stop` between a launch and the write of `running` is overtaken by it: the archive says running for ever
  (`ExitReported` excepts it, instance.go:284).
* Two `waitLoop`s look up a port at once; the loser's instance runs without a load-balancer entry and without a watcher
  (`AddListenerFails`, task.go:686).
* Dev mode switched on twice leaves the first placeholder in the load balancer (`DevModeOnEnd`, task.go:578).
* A probe that fails before the instance is listed removes nothing, and the unhealthy instance is then listed; a check may
  put an instance back that another has just taken out, or that has ended and been unlisted (`RemoveFromLB`, `AddToLB`, `late` in `Task`;
  healthcheck.go:141-169): its address stays in the load balancer.
* A check whose `unhealthy_threshold` equals its `reap_threshold` reaps nothing (`CanReap`, healthcheck.go:141-148).
* A goroutine that waited for the mutex of a check dereferences a deleted tracker (`ProbePanic`, `AskOtherPanic`).
* `Stats` reads its counters without a lock: two values it returns may belong to different moments, and `totalConns` may lag one
  connection behind `activeConns` (`TakenIn`, loadbalancer.go:87-120, 179-181).
* A peer that stops to read holds its connection for as long as it likes, whatever the other one does (`Stuck`, loadbalancer.go:310).
* The end of one direction of a connection closes the other socket whole: a client that only shuts down its sending side
  loses the answer, and the other pipe counts a read error (`CloseDst`, `Read`, loadbalancer.go:301-306).
* The log driver's `Stop` waits for a goroutine whose loop has no exit (`CloseChannel` is its last step, logger.go:111).
* After a power cut, or a clone that failed at its checkout, half a clone counts as a clone (`Stat`, `CloneFails`, init.go:60-81).
* The last error of `Init` may be overlooked: `len(errs)` is read before the goroutine that collects errors has appended it,
  and the stack is started (`InitEnds` and `TwoFailuresAreSeen` allow for it, stack.go:308).
* `$PORT1` becomes the value of `PORT` followed by 1 when `PORT` is defined too (env.go:48): `replace` takes the first name
  that fits. The documentation has `$PORT1` replaced by its own value
  (load-balancer/index.md:67-78; the run `env_ports`).
* An undefined variable at the end of a text, or one with a backslash before the next, loses its dollar sign (`replace`,
  env.go:62).
* An instance whose start is cut off by a shutdown or a crash runs on, unknown to the next paasbox, which starts another
  beside it (`excused`, task.go:505, sysd.go:352).
* A click that the API refuses leaves its label wrong until the next one (`Refuse`, TaskItem.jsx).
* The answer to an earlier fetch shows the tasks of a stack the user has left under the name of the one in the address bar
  (`Arrive`, TasksController.jsx:137).
* These end in a `TypeError` that leaves the page stuck: leaving the logs for another stack (`VisitStack`,
  TasksController.jsx:44), the logs of a task without instances (`CannotRender`, TaskItem.jsx:57), an unknown stack or task
  in the address.
* A fetch that is answered with an error, or not at all, or that finds a task whose port has no listener, leaves "Loading
  tasks..." on the page for ever (`Lose`, get.js, TasksController.jsx:129).
* Not in a model: of the readers of one log file only the last stops its tail, those of the others follow the file until
  paasbox ends (server.go:80); `done` reads `fileCount` without the mutex (server.go:70), which Go may end with a fatal error;
  the server's `Stop` can wait for a tail nobody reads.

## Fairness

Weak fairness for every goroutine that can run: Go's scheduler does not starve one. Strong fairness where a goroutine
competes for something that is taken and given back without end: `execMutex`, the mutex of a check and the log's lock
(Go's mutexes hand over to a waiter after a millisecond; a waiting writer goes before later readers) and the cases of a
`select` (chosen at random). Senders to a bounded channel are weakly fair where what can be sent is bounded, as in
`LoadBalancer`. No fairness for anything the environment does: exits of processes, requests, crashes, clients, probes.
The exception is `PostSucceeds` in `LoadBalancerLog`, strongly fair: logstash answers in the end. The comment in
`SendPBMessage` says that paasbox blocks if it does not. In `Startup` git ends, one way or the other.

## What is proved

`TaskProofs`, for any target, number of ports, requests and bounds (under the named assumptions of `Task`):

* `Invariance`: `Spec => []IInv`, `IInv == TypeOK /\ Counting /\ Lifecycle /\ Quota`. `Counting` relates `execCount`, the
  stored `execCount` and the numbers ever launched, also between the two steps that change them; `Lifecycle` says which program counters, flags and
  process states go together, which is what excludes a second launch of an instance; `Quota` bounds what one `Start`
  may still create, and is what `CreatedAtMostTarget` needs while `need` is stale.
  What has ended is dead or astray (`Over`).
* `TypeCorrect`, `FreshIdsHolds`, `NoLostChildHolds`, `CreatedAtMostTargetHolds` follow from it.
* `TaskImplementsLedger`: `Spec => Ledger!Spec`. The variables the mapping reads change in a few actions (`TrackingStep`,
  `LastStep`, `ProcStep`), and each is a step of the ledger because of `IInv`, of `Looped` (what is tracked or recovered
  has a `waitLoop`, so that `Recover` meets no created instance) and of `SweepHolds` (a handler that panics frees the
  mutex only if it has it).

`HealthcheckProofs`: `HealthInvariance`: `Spec => []HInv`, `HInv == TypeOK /\ Scores /\ Deserved`. `Scores` bounds the
score by the probes that were counted since it last changed direction; `Deserved` carries that over the steps between
the decision and its effect. `HealthTypeCorrect`, `ReapIsDeservedHolds` and `ReturnIsDeservedHolds` follow.

The second half of `TaskProofs` adds to `IInv` what the remaining safety properties of `Task` need. `StoreInv`: what is tracked beyond the
stored list is what the holder of `execMutex` is about to store (`CreatedIsPersistedHolds`). `BackendInv`: an address is
listed by the `waitLoop` that still tracks its instance, or a watcher is on its way to unlist it (`NoStaleBackendHolds`).
`late` keeps what a healthcheck adds after that.
`ExitInv`: the waiter of an instance starts after its `waitLoop` has stored `running`, and whoever closes `doneCh` stores the end
before: what is archived as running then has no waiter, because a `Stop` overtook its start (`ExitReportedHolds`, for any
requests). `RestartInv`: a shortage is what the boot, a `Start` that holds a large enough `need`, a `Start` that waits, or a watcher will fill
(`NoLostRestartHolds`, for `Undisturbed`: `Requests \subseteq {"start", "env"}`; kills by healthchecks and failing ones included).

`StackLifeProofs`: `StackLifeInductive`: `Spec => []LifeInv`, for any tasks, services, handlers and bounds. `LifeInv` says for
each phase who may be at work (`Phases`), who holds a mutex and where (`Held`), what an agent in `Recover` has probed (`Probed`: its pid is stored, and it is not among the ids still to come), and for each task: numbers beyond `execCount` are
untouched (`Fresh`), but for the excused at most one instance is tracked and one is listed in the archive (`Single`), a list that a paasbox
left names one instance or excused ones (`Sorted`, which `PassedOver` buys: `Recover` of it adds the one, or nothing that matters is lost),
what a `waitLoop` and a watcher know of its process
(`Launched`), that before a boot has come to a task, or within `Recover` to its instance (`Asleep`), nothing of it is in memory (`Dormant`), that what runs is tracked
(`Known`) and, when no `Start` is at work on it, stored (`Stored`), that what is half stored when the stores close is excused
(`Cut`), and that until then a service which is not stopped has an instance in somebody's care or a `Start` on its way (`Covered`).
`NoSecondProcessHolds` follows from `Single` with `Known` or, before the boot has come to the task, with `Dormant`; `NoOrphanHolds` from
`Known`; `StartedIsCoveredHolds` from `Covered` and `Known`. All three speak of the instances that are not excused.

`LoadBalancerProofs`: `LoadBalancerInductive`: `Spec => []LBInv`. `ActiveIsCounted` (the counter, plus
what is in `statChan`, is the number of connections that were counted and not uncounted) is inductive once `InHand`,
`NotYet` and `EndedIsClosed` tie the sockets of a connection to the goroutines that work on it. `LoadBalancerStatsMakeSense`
needs more, as counters lag behind: `StatsInv` says that, taking the messages
of `statChan` one by one, no counter becomes negative on the way. What `Stats` has read stays within the limits as long as it is
under way, because a limit never falls, whatever the order of the reads.

`LoadBalancerLogProofs`, the ring, for any number of slots, writers and readers: `RingInductive`: `LogSpec => []RingInv`.
`Filled`: slots are used in turn from 1 on, and slot 0 last, so that the number in use follows from `Pos`, slot 0 and the lock;
`Locked`: one writer has the lock; `Scanning`: a reader has got exactly the messages of the slots it has passed. From these,
step by step: `Store` appends to the log and drops the oldest message if all slots are in use, and no other step changes the
log, although `LockAndAdvance` moves `Pos` (`LogImplementsBoundedLog`, `[Bounded!Next]_Chronicle`); and a scan that is over
has read the whole log (`LogIsReadWhole`). The log driver only delays these steps (`RingSteps`).

`LoadBalancerLogProofs`, the log driver: `LogInductive`: `LogSpec => []DInv`. What waits in a channel or in the hand of the driver's goroutine was
accepted, has no gap, is sorted by sender, and is newer than what logstash has stored; `LogNothingLost` and `LogInOrder` follow,
for any number of lost answers. `LogTypeOK` is the type invariant of both parts together: who holds the lock of the ring is
sending.

`EnvReplaceProofs`, for any environments and texts, names that begin one another included: `EnvInductive`: `Spec => []EInv`. Where
texts are settled, variables have the values they ought to have, and between two tokens the parser has replaced all it
read (`Done`) or holds an undefined variable with what came after it (`Pending`), which another variable will flush; within a
name it has not come to the shortest defined name yet (`Unmatched`), or has put its value and copies the letters after it (`Matched`).
`EnvVariablesAreReplaced` follows. The model reads a character per step so that this is an induction over steps.

`StartupProofs`: `StartupInductive`: `Spec => []SInv`. Every failed task's error is counted, in the collector's hand, or not
yet handed over, and `Init` goes on only when none is left of the last kind: hence two failures are seen
(`StartupTwoFailuresAreSeen`). A directory has one cloner at most, is half cloned only while it has one or after a power
cut or a failed checkout, and what a task has passed is cloned (`StartupDirsAreCloned`).

`WebUIProofs`: `WebInductive`: `Spec => []WInv`. Fetches are numbered; the newest one has the address bar's stack and
belongs to the controller that is mounted unless it is answered or lost; a list on display that answers the newest fetch is of that
stack, while a late answer may show another stack's tasks, of which `ShownAreOfStack` says nothing; while no late answer has come
the active task follows the address (`LogsFollowPath`); while the request of the last click on a control is on its way, it asks for what the
label says, so that the label is right once that click has been carried out, not refused (`ClickHeals`). All six properties of the run are theorems.

Only model-checked: all liveness, for TLAPS proves neither fairness nor `ENABLED` here (`DeadIsUntracked`,
`ServiceIsReplenished`, `HungIsReaped`, `ConnectionEnds`, `CountsSettle`, `MessagesAreDelivered`, `EveryoneReturns`, `InitEnds`). Every safety property a run checks is a theorem, but the two that
`task_stop_sticks` and `env_ports` refute.

## Abstractions and limits

* One `task.Stop` handler at a time; `need` is computed once per `Start`, as in the code.
* A failed write to BoltDB while its file is open and a process number used again by the system are left out. Data races that Go ends with a fatal error
  (two goroutines in one map) are a crash, which `Task` allows at any moment.
* The inline signal check of a recovered instance is a waiter like any other. `NoLostRestart` leaves out a paasbox that
  recovered instances, because `Recover` starts none beside those it finds.
* The docker driver's commands, the log files and `tailLog`'s follow mode are left out; so are the contents of what is
  archived, beyond pid and running.
* Histories (`failed`, `passed` in `Healthcheck`) stop counting at their thresholds; `MaxQueue` bounds the goroutines that
  wait for one check's mutex; `MaxExec`, `MaxRequests`, `MaxCrashes`, `MaxErrors`, `MaxLost`, `MaxBoots`, `MaxEntries`, `MaxTokens` and
  `Count`, `Lines` are bounds on inputs. `Wayward` is bounded to one instance for TLC; the theorems have any set.
* In `StackLife` a task has one instance and its launches succeed; `MaxExec`, `MaxRequests` and `MaxBoots` are bounds, and a
  service for which no number is left stays without an instance. In `WebUI`, `MaxFetches` and `MaxChanges` are.
* The web interface's CSS, texts, and the lines that `Logs` appends from its websocket are left out.

## Not modelled

* `assets/js/bundle.js`, 50,817 of the repository's 51,551 lines of JavaScript: webpack's output from `views` (modelled in
  `WebUI`), React, Redux, the router and their dependencies. A model of it would be one of those libraries. It is also
  why the map, which names lines of the sources, covers a small share of all lines of JavaScript.
* The log handlers (`server.go`'s `tailMap`, `logs.go`): what they do is decided by an external library that follows
  files, and the arithmetic of ranges is a few lines without state. Their known deviations are listed above.
* The docker driver's commands, whose effects are those of an external daemon; `stack.New`'s docker networks;
  `stack.Shutdown`, which nothing calls.
* Pagination and encoding of listings, `stopInstance` (it reads the instance back from the archive, without a process, so
  that its `Stop` does nothing, api.go:700).
* `lockwarn` (only logs), the command line, configuration and version information (read once at start),
  documentation and examples.

## What could come next

A model of `tailMap` with an explicit model of the tail library; the docker driver with an explicit model of the daemon.
