--------------------------- MODULE StackLifeProofs ---------------------------
(***************************************************************************)
(* Theorems about StackLife, for any tasks, handlers and bounds: but for the *)
(* excused, a task has one process and none is orphaned, and a service that  *)
(* says it is started is covered.                                           *)
(*                                                                          *)
(* The inductive invariant LifeInv speaks of each task on its own.           *)
(***************************************************************************)
EXTENDS StackLife, FiniteSetTheorems, TLAPS

\* An instance that Start created, and whose waitLoop has not stored its pid.
Trying(t, i) == loop[t][i] \in {"begin", "launch", "pid"}

\* Sysd, as it starts the stacks, is in Recover of t; it has not come to i yet.
Waking(t) == phase = "boot" /\ agent[Main].pc \in {"recover", "add"} /\ agent[Main].task = t
Unrecovered(i) == i \in recovery[Main].ids \/ (agent[Main].pc = "add" /\ i = recovery[Main].inst)

\* The task of a paasbox that has not come to it yet, or not to the instance it may have.
Asleep(t) == \/ phase = "exited"
             \/ phase = "boot" /\ (agent[Main].pc = "startStack" \/ t \in agent[Main].left)
             \/ Waking(t) /\ \E i \in Ids \ excused[t] : Unrecovered(i)

\* Sysd starts the stacks before it listens, and serves while the stores are open.
BootPc == {"startStack", "startTasks", "recover", "add", "startTask", "starting"}
Phases ==
    /\ phase \in {"boot", "serving", "stopping"} => open
    /\ phase = "closed" => ~open
    /\ phase = "boot" =>
         /\ agent[Main].pc \in BootPc
         /\ \A h \in Handlers : agent[h] = Idle
         /\ agent[Main].pc \in {"recover", "add", "startTask"} => agent[Main].task \notin agent[Main].left
    /\ phase \in {"serving", "closed"} => agent[Main].pc = "idle"
    /\ phase = "exited" => \A a \in Agents : agent[a] = Idle

\* An agent in Recover works at a task; the pid of what it probed was stored.
Probed == \A a \in Agents :
    /\ agent[a].pc \in {"recover", "add"} => agent[a].task \in Tasks
    /\ agent[a].pc = "add" => /\ recovery[a].inst \in Ids /\ recovery[a].inst \notin recovery[a].ids
                              /\ recovery[a].inst \in store[agent[a].task].pid

\* Who holds the mutex of a task is waiting for its Start to return.
Held == \A t \in Tasks : mutex[t].at # "free" =>
    \/ mutex[t].by = Go
    \/ /\ mutex[t].by \in Agents
       /\ agent[mutex[t].by].pc = "starting" /\ agent[mutex[t].by].task = t

\* A number above execCount was never used.
Fresh(t) == \A i \in Ids : i > store[t].execCount =>
    /\ i \notin tracked[t] /\ i \notin store[t].instanceIDs /\ i \notin store[t].pid
    /\ i \notin excused[t] /\ proc[t][i] = "none" /\ loop[t][i] = "none"
    /\ found[t][i] = 0 /\ watching[t][i] = 0

\* But for the excused, there is one instance in t.instances, and one in the archive.
Single(t) ==
    /\ \A i, j \in tracked[t] : i \in excused[t] \/ j \in excused[t] \/ i = j
    /\ \A i, j \in store[t].instanceIDs : i \in excused[t] \/ j \in excused[t] \/ i = j
    /\ mutex[t].at = "create" => tracked[t] \subseteq excused[t]

\* A list that a paasbox left names one instance, or excused ones.
Sorted(t) == ~open \/ Asleep(t) => \A i, j \in store[t].instanceIDs : i \in excused[t] \/ i = j

\* An instance is recovered or watched only when its waitLoop has stored its pid; it
\* has no process before its launch.
Launched(t) == \A i \in Ids :
    /\ found[t][i] > 0 \/ watching[t][i] > 0 \/ i \in store[t].pid => ~Trying(t, i)
    /\ loop[t][i] \in {"begin", "launch"} => proc[t][i] = "none"

\* Before boot has come to a task nothing of it is in memory, and the archive has
\* what runs.
Dormant(t) == Asleep(t) =>
    /\ tracked[t] = {} /\ mutex[t] = Free /\ starts[t] = 0
    /\ \A i \in Ids :
         /\ loop[t][i] = "none" /\ found[t][i] = 0 /\ watching[t][i] = 0
         /\ proc[t][i] = "alive" /\ i \notin excused[t] =>
              i \in store[t].instanceIDs /\ i \in store[t].pid /\ (Waking(t) => Unrecovered(i))
         /\ Waking(t) /\ Unrecovered(i) => i \in store[t].instanceIDs
    /\ phase = "exited" => stopped[t]

\* After it, the task knows of what runs.
Known(t) == ~Asleep(t) => \A i \in Ids :
    Trying(t, i) \/ (proc[t][i] = "alive" /\ i \notin excused[t]) => i \in tracked[t]

\* What runs can be found in the archive, but for what Start is still at work on.
Stored(t) == \A i \in tracked[t] :
    (Trying(t, i) \/ proc[t][i] = "alive") /\ i \notin excused[t] =>
        /\ Trying(t, i) \/ i \in store[t].pid
        /\ mutex[t].at # "persist" \/ ~open => i \in store[t].instanceIDs

\* With the stores closed, what Start is still at work on is lost to the next paasbox.
Cut(t) == \A i \in Ids : ~open /\ Trying(t, i) => i \in excused[t]

\* A goroutine has instance i in its care.
Attended(t, i) == Trying(t, i) \/ found[t][i] > 0 \/ watching[t][i] > 0

\* Until the stores close, whatever is tracked is attended; and a service that is not
\* stopped is, or is being started.
Covered(t) == open =>
    /\ \A i \in tracked[t] : Attended(t, i)
    /\ t \in Services /\ ~stopped[t] =>
         \/ store[t].execCount = MaxExec \/ mutex[t].at = "create" \/ starts[t] > 0
         \/ \E i \in Ids : Attended(t, i)

TaskInv(t) ==
    /\ Fresh(t) /\ Single(t) /\ Sorted(t) /\ Launched(t) /\ Dormant(t)
    /\ Known(t) /\ Stored(t) /\ Cut(t) /\ Covered(t)

LifeInv == TypeOK /\ Phases /\ Held /\ Probed /\ \A t \in Tasks : TaskInv(t)

-----------------------------------------------------------------------------
(* Type correctness                                                         *)

LEMMA TypeInit == Init => TypeOK
<1> SUFFICES ASSUME Init PROVE TypeOK
  OBVIOUS
<1> USE DEF Init
<1>1. ProcType  BY DEF ProcType, NoneOf
<1>2. StoreType  BY LifeBounds DEF StoreType
<1>3. FlagsType  BY Zenon DEF FlagsType, Phase
<1>4. TrackedType  BY DEF TrackedType
<1>5. MutexType  BY DEF MutexType, Free
<1>6. StartsType /\ LoopType /\ WatchType  BY DEF StartsType, LoopType, WatchType, NoneOf
<1>7. AgentType /\ RecoveryType  BY LifeBounds DEF AgentType, Idle, Pc, RecoveryType, NotRecovering
<1>8. CountType  BY DEF CountType
<1> QED  BY <1>1, <1>2, <1>3, <1>4, <1>5, <1>6, <1>7, <1>8 DEF TypeOK

-----------------------------------------------------------------------------
(* A step that leaves a task alone                                          *)

\* A step that does not change how far sysd is with t.
SameBoot(t) ==
    /\ Asleep(t)' <=> Asleep(t)
    /\ Waking(t)' <=> Waking(t)
    /\ Waking(t) => \A i \in Ids : Unrecovered(i)' <=> Unrecovered(i)

LEMMA StillAsleep ==
  ASSUME NEW t \in Tasks, phase' = phase, excused'[t] = excused[t],
         phase = "boot" => agent'[Main] = agent[Main] /\ recovery'[Main] = recovery[Main]
  PROVE  SameBoot(t)
<1>1. CASE phase = "boot"
  <2>1. Waking(t)' <=> Waking(t)
    BY Zenon, <1>1 DEF Waking
  <2>2. \A i \in Ids : Unrecovered(i)' <=> Unrecovered(i)
    BY Zenon, <1>1 DEF Unrecovered
  <2>3. Asleep(t)' <=> Asleep(t)
    BY Zenon, <1>1, <2>1, <2>2 DEF Asleep
  <2> QED  BY <2>1, <2>2, <2>3 DEF SameBoot
<1>2. CASE phase # "boot"
  BY Zenon, <1>2 DEF SameBoot, Asleep, Waking
<1> QED  BY <1>1, <1>2

LEMMA Frame ==
  ASSUME NEW t \in Tasks, TaskInv(t), open' <=> open,
         proc'[t] = proc[t], store'[t] = store[t], stopped'[t] = stopped[t],
         tracked'[t] = tracked[t], mutex'[t] = mutex[t], starts'[t] = starts[t],
         loop'[t] = loop[t], found'[t] = found[t], watching'[t] = watching[t],
         excused'[t] = excused[t],
         SameBoot(t), phase' = "exited" => phase = "exited"
  PROVE  TaskInv(t)'
<1>1. Fresh(t)'  BY DEF TaskInv, Fresh
<1>2. Single(t)'  BY DEF TaskInv, Single
<1>3. Launched(t)'  BY DEF TaskInv, Launched, Trying
<1>4. Dormant(t)'  BY DEF TaskInv, Dormant, Free, SameBoot
<1>5. Known(t)'  BY DEF TaskInv, Known, Trying, SameBoot
<1>6. Stored(t)'  BY DEF TaskInv, Stored, Trying
<1>7. Cut(t)'  BY DEF TaskInv, Cut, Trying
<1>8. Covered(t)'  BY DEF TaskInv, Covered, Attended, Trying
<1>9. Sorted(t)'  BY DEF TaskInv, Sorted, SameBoot
<1> QED  BY <1>1, <1>2, <1>3, <1>4, <1>5, <1>6, <1>7, <1>8, <1>9 DEF TaskInv

\* Pids are only added.
LEMMA ProbedFrame ==
  ASSUME Probed, recovery' = recovery, \A t \in Tasks : store[t].pid \subseteq store'[t].pid,
         \A a \in Agents : agent'[a].pc \in {"recover", "add"} => agent'[a] = agent[a]
  PROVE  Probed'
BY DEF Probed

LEMMA PhasesFrame ==
  ASSUME Phases, phase' = phase, open' = open, agent' = agent
  PROVE  Phases'
BY Zenon DEF Phases, Idle

LEMMA HeldFrame ==
  ASSUME TypeOK, Held, mutex' = mutex,
         \A a \in Agents : agent[a].pc = "starting" => agent'[a] = agent[a]
  PROVE  Held'
BY DEF Held, TypeOK, MutexType

LEMMA BeginKeeps ==
  ASSUME LifeInv, NEW t \in Tasks, NEW i \in Ids, phase # "exited", Begin(t, i)
  PROVE  LifeInv'
<1>1. open' = open /\ phase' = phase /\ agent' = agent /\ recovery' = recovery /\ excused' = excused
  BY DEF Begin, world, count
<1>2. open' <=> open
  BY Zenon, <1>1
<1>3. TypeOK'
  <2> USE DEF Begin, LifeInv, TypeOK, world, count
  <2>1. ProcType' /\ StoreType'  BY DEF ProcType, StoreType
  <2>2. FlagsType'  BY Zenon, <1>1 DEF FlagsType
  <2>3. TrackedType' /\ MutexType'  BY DEF TrackedType, MutexType
  <2>4. StartsType' /\ LoopType'  BY DEF StartsType, LoopType
  <2>5. WatchType'  BY DEF WatchType
  <2>6. AgentType' /\ RecoveryType' /\ CountType'  BY <1>1 DEF AgentType, RecoveryType, CountType
  <2> QED  BY <2>1, <2>2, <2>3, <2>4, <2>5, <2>6 DEF TypeOK
<1>4. Phases'
  BY <1>1, PhasesFrame DEF LifeInv
<1>h. Held'
  BY <1>1, HeldFrame DEF LifeInv, Begin
<1>5. ASSUME NEW u \in Tasks \ {t} PROVE TaskInv(u)'
  <2>1. SameBoot(u)
    BY <1>1, StillAsleep
  <2>2. stopped'[u] = stopped[u] /\ loop'[u] = loop[u]
    BY <1>5 DEF Begin, LifeInv, TypeOK, FlagsType, LoopType
  <2>3. UNCHANGED <<proc, store, tracked, mutex, starts, found, watching>>
    BY DEF Begin, world
  <2> QED  BY <1>1, <1>2, <1>5, <2>1, <2>2, <2>3, Frame DEF LifeInv
<1>6. TaskInv(t)'
  <2>1. UNCHANGED <<proc, store, tracked, mutex, starts, found, watching, excused>>
    BY <1>1 DEF Begin, world
  <2>2. loop[t][i] = "begin"
    BY DEF Begin
  <2>3. stopped'[t] = FALSE
    BY Zenon DEF Begin, LifeInv, TypeOK, FlagsType
  <2>4. \A j \in Ids : loop'[t][j] = IF j = i THEN "launch" ELSE loop[t][j]
    BY DEF Begin, LifeInv, TypeOK, LoopType
  <2>5. TaskInv(t) /\ ~Asleep(t)
    BY <2>2 DEF LifeInv, TaskInv, Dormant, Free
  <2>6. ~Asleep(t)'
    BY <1>1, <2>5, StillAsleep DEF SameBoot
  <2>7. TypeOK
    BY DEF LifeInv
  <2> USE <1>2, <2>1, <2>2, <2>3, <2>4, <2>5, <2>6, <2>7 DEF TypeOK, ProcType, StoreType, TrackedType, MutexType, StartsType, LoopType, WatchType
  <2>8. Fresh(t)'  BY DEF TaskInv, Fresh, Ids
  <2>9. Single(t)'  BY DEF TaskInv, Single, Free
  <2>s. Sorted(t)'  BY DEF TaskInv, Sorted
  <2>10. Launched(t)'  BY DEF TaskInv, Launched, Trying
  <2>11. Dormant(t)'  BY DEF Dormant
  <2>12. Known(t)'  BY DEF TaskInv, Known, Trying
  <2>13. Stored(t)'  BY DEF TaskInv, Stored, Trying
  <2>14. Cut(t)'  BY DEF TaskInv, Cut, Trying
  <2>15. Covered(t)'  BY DEF TaskInv, Covered, Attended, Trying
  <2> QED  BY <2>8, <2>9, <2>10, <2>11, <2>12, <2>13, <2>14, <2>15, <2>s DEF TaskInv
<1>p. Probed'
  BY <1>1, ProbedFrame DEF LifeInv, TypeOK, StoreType, Begin, world
<1> QED  BY <1>3, <1>4, <1>h, <1>5, <1>6, <1>p DEF LifeInv

LEMMA LaunchKeeps ==
  ASSUME LifeInv, NEW t \in Tasks, NEW i \in Ids, phase # "exited", Launch(t, i)
  PROVE  LifeInv'
<1>1. open' = open /\ phase' = phase /\ agent' = agent /\ recovery' = recovery /\ excused' = excused
  BY DEF Launch, world, count
<1>2. open' <=> open
  BY Zenon, <1>1
<1>3. TypeOK'
  <2> USE DEF Launch, LifeInv, TypeOK, world, count
  <2>1. ProcType' /\ StoreType'  BY DEF ProcType, StoreType
  <2>2. FlagsType'  BY Zenon, <1>1 DEF FlagsType
  <2>3. TrackedType' /\ MutexType'  BY DEF TrackedType, MutexType
  <2>4. StartsType' /\ LoopType'  BY DEF StartsType, LoopType
  <2>5. WatchType'  BY DEF WatchType
  <2>6. AgentType' /\ RecoveryType' /\ CountType'  BY <1>1 DEF AgentType, RecoveryType, CountType
  <2> QED  BY <2>1, <2>2, <2>3, <2>4, <2>5, <2>6 DEF TypeOK
<1>4. Phases'
  BY <1>1, PhasesFrame DEF LifeInv
<1>h. Held'
  BY <1>1, HeldFrame DEF LifeInv, Launch
<1>5. ASSUME NEW u \in Tasks \ {t} PROVE TaskInv(u)'
  <2>1. SameBoot(u)
    BY <1>1, StillAsleep
  <2>2. proc'[u] = proc[u] /\ loop'[u] = loop[u]
    BY <1>5 DEF Launch, LifeInv, TypeOK, ProcType, LoopType
  <2>3. UNCHANGED <<store, stopped, tracked, mutex, starts, found, watching>>
    BY DEF Launch, world
  <2> QED  BY <1>1, <1>2, <1>5, <2>1, <2>2, <2>3, Frame DEF LifeInv
<1>6. TaskInv(t)'
  <2>1. UNCHANGED <<store, stopped, tracked, mutex, starts, found, watching, excused>>
    BY <1>1 DEF Launch, world
  <2>2. loop[t][i] = "launch"
    BY DEF Launch
  <2>3. \A j \in Ids : proc'[t][j] = IF j = i THEN "alive" ELSE proc[t][j]
    BY DEF Launch, LifeInv, TypeOK, ProcType
  <2>4. \A j \in Ids : loop'[t][j] = IF j = i THEN "pid" ELSE loop[t][j]
    BY DEF Launch, LifeInv, TypeOK, LoopType
  <2>5. TaskInv(t) /\ ~Asleep(t)
    BY <2>2 DEF LifeInv, TaskInv, Dormant, Free
  <2>6. ~Asleep(t)'
    BY <1>1, <2>5, StillAsleep DEF SameBoot
  <2>7. TypeOK
    BY DEF LifeInv
  <2> USE <1>2, <2>1, <2>2, <2>3, <2>4, <2>5, <2>6, <2>7 DEF TypeOK, ProcType, StoreType, TrackedType, MutexType, StartsType, LoopType, WatchType
  <2>8. Fresh(t)'  BY DEF TaskInv, Fresh, Ids
  <2>9. Single(t)'  BY DEF TaskInv, Single, Free
  <2>s. Sorted(t)'  BY DEF TaskInv, Sorted
  <2>10. Launched(t)'  BY DEF TaskInv, Launched, Trying
  <2>11. Dormant(t)'  BY DEF Dormant
  <2>12. Known(t)'  BY DEF TaskInv, Known, Trying
  <2>13. Stored(t)'  BY DEF TaskInv, Stored, Trying
  <2>14. Cut(t)'  BY DEF TaskInv, Cut, Trying
  <2>15. Covered(t)'  BY DEF TaskInv, Covered, Attended, Trying
  <2> QED  BY <2>8, <2>9, <2>10, <2>11, <2>12, <2>13, <2>14, <2>15, <2>s DEF TaskInv
<1>p. Probed'
  BY <1>1, ProbedFrame DEF LifeInv, TypeOK, StoreType, Launch, world
<1> QED  BY <1>3, <1>4, <1>h, <1>5, <1>6, <1>p DEF LifeInv

LEMMA StorePidKeeps ==
  ASSUME LifeInv, NEW t \in Tasks, NEW i \in Ids, phase # "exited", StorePid(t, i)
  PROVE  LifeInv'
<1>1. open' = open /\ phase' = phase /\ agent' = agent /\ recovery' = recovery /\ excused' = excused
  BY DEF StorePid, world, count
<1>2. open' <=> open
  BY Zenon, <1>1
<1>3. TypeOK'
  <2> USE DEF StorePid, LifeInv, TypeOK, world, count
  <2>1. ProcType' /\ StoreType'  BY DEF ProcType, StoreType
  <2>2. FlagsType'  BY Zenon, <1>1 DEF FlagsType
  <2>3. TrackedType' /\ MutexType'  BY DEF TrackedType, MutexType
  <2>4. StartsType' /\ LoopType'  BY DEF StartsType, LoopType
  <2>5. WatchType'  BY DEF WatchType, BeginWatching
  <2>6. AgentType' /\ RecoveryType' /\ CountType'  BY <1>1 DEF AgentType, RecoveryType, CountType
  <2> QED  BY <2>1, <2>2, <2>3, <2>4, <2>5, <2>6 DEF TypeOK
<1>4. Phases'
  BY <1>1, PhasesFrame DEF LifeInv
<1>h. Held'
  BY <1>1, HeldFrame DEF LifeInv, StorePid
<1>5. ASSUME NEW u \in Tasks \ {t} PROVE TaskInv(u)'
  <2>1. SameBoot(u)
    BY <1>1, StillAsleep
  <2>2. store'[u] = store[u] /\ loop'[u] = loop[u] /\ watching'[u] = watching[u]
    BY <1>5 DEF StorePid, LifeInv, TypeOK, StoreType, LoopType, WatchType, BeginWatching
  <2>3. UNCHANGED <<proc, stopped, tracked, mutex, starts, found>>
    BY DEF StorePid, world
  <2> QED  BY <1>1, <1>2, <1>5, <2>1, <2>2, <2>3, Frame DEF LifeInv
<1>6. TaskInv(t)'
  <2>1. UNCHANGED <<proc, stopped, tracked, mutex, starts, found, excused>>
    BY <1>1 DEF StorePid, world
  <2>2. loop[t][i] = "pid"
    BY DEF StorePid
  <2>3. store'[t].execCount = store[t].execCount
    BY DEF StorePid, LifeInv, TypeOK, StoreType
  <2>4. store'[t].instanceIDs = store[t].instanceIDs
    BY DEF StorePid, LifeInv, TypeOK, StoreType
  <2>5. store'[t].pid = IF open THEN store[t].pid \cup {i} ELSE store[t].pid
    BY DEF StorePid, LifeInv, TypeOK, StoreType
  <2>6. \A j \in Ids : loop'[t][j] = IF j = i THEN "end" ELSE loop[t][j]
    BY DEF StorePid, LifeInv, TypeOK, LoopType
  <2>7. \A j \in Ids : watching'[t][j] = IF j = i /\ open THEN watching[t][j] + 1 ELSE watching[t][j]
    BY DEF StorePid, LifeInv, TypeOK, WatchType, BeginWatching
  <2>8. TaskInv(t) /\ ~Asleep(t)
    BY <2>2 DEF LifeInv, TaskInv, Dormant, Free
  <2>9. ~Asleep(t)'
    BY <1>1, <2>8, StillAsleep DEF SameBoot
  <2>10. TypeOK
    BY DEF LifeInv
  <2> USE <1>2, <2>1, <2>2, <2>3, <2>4, <2>5, <2>6, <2>7, <2>8, <2>9, <2>10 DEF TypeOK, ProcType, StoreType, TrackedType, MutexType, StartsType, LoopType, WatchType
  <2>11. Fresh(t)'  BY DEF TaskInv, Fresh, Ids
  <2>12. Single(t)'  BY DEF TaskInv, Single, Free
  <2>s. Sorted(t)'  BY DEF TaskInv, Sorted
  <2>13. Launched(t)'  BY DEF TaskInv, Launched, Trying
  <2>14. Dormant(t)'  BY DEF Dormant
  <2>15. Known(t)'  BY DEF TaskInv, Known, Trying
  <2>16. Stored(t)'  BY DEF Cut, TaskInv, Stored, Trying
  <2>17. Cut(t)'  BY DEF TaskInv, Cut, Trying
  <2>18. Covered(t)'
    <3>1. open => Attended(t, i)'  BY DEF Attended
    <3>2. ASSUME NEW j \in Ids \ {i}, Attended(t, j) PROVE Attended(t, j)'  BY <3>2 DEF Attended, Trying
    <3> QED  BY <3>1, <3>2 DEF TaskInv, Covered
  <2> QED  BY <2>11, <2>12, <2>13, <2>14, <2>15, <2>16, <2>17, <2>18, <2>s DEF TaskInv
<1>p. Probed'
  BY <1>1, ProbedFrame DEF LifeInv, TypeOK, StoreType, StorePid, world
<1> QED  BY <1>3, <1>4, <1>h, <1>5, <1>6, <1>p DEF LifeInv

LEMMA BeginRecoveredKeeps ==
  ASSUME LifeInv, NEW t \in Tasks, NEW i \in Ids, phase # "exited", BeginRecovered(t, i)
  PROVE  LifeInv'
<1>1. open' = open /\ phase' = phase /\ agent' = agent /\ recovery' = recovery /\ excused' = excused
  BY DEF BeginRecovered, world, count
<1>2. open' <=> open
  BY Zenon, <1>1
<1>3. TypeOK'
  <2> USE DEF BeginRecovered, LifeInv, TypeOK, world, count
  <2>1. ProcType' /\ StoreType'  BY DEF ProcType, StoreType
  <2>2. FlagsType'  BY Zenon, <1>1 DEF FlagsType
  <2>3. TrackedType' /\ MutexType'  BY DEF TrackedType, MutexType
  <2>4. StartsType' /\ LoopType'  BY DEF StartsType, LoopType
  <2>5. WatchType'  BY DEF WatchType, BeginWatching
  <2>6. AgentType' /\ RecoveryType' /\ CountType'  BY <1>1 DEF AgentType, RecoveryType, CountType
  <2> QED  BY <2>1, <2>2, <2>3, <2>4, <2>5, <2>6 DEF TypeOK
<1>4. Phases'
  BY <1>1, PhasesFrame DEF LifeInv
<1>h. Held'
  BY <1>1, HeldFrame DEF LifeInv, BeginRecovered
<1>5. ASSUME NEW u \in Tasks \ {t} PROVE TaskInv(u)'
  <2>1. SameBoot(u)
    BY <1>1, StillAsleep
  <2>2. stopped'[u] = stopped[u] /\ found'[u] = found[u] /\ watching'[u] = watching[u]
    BY <1>5 DEF BeginRecovered, LifeInv, TypeOK, FlagsType, WatchType, BeginWatching
  <2>3. UNCHANGED <<proc, store, tracked, mutex, starts, loop>>
    BY DEF BeginRecovered, world
  <2> QED  BY <1>1, <1>2, <1>5, <2>1, <2>2, <2>3, Frame DEF LifeInv
<1>6. TaskInv(t)'
  <2>1. UNCHANGED <<proc, store, tracked, mutex, starts, loop, excused>>
    BY <1>1 DEF BeginRecovered, world
  <2>2. found[t][i] > 0
    BY DEF BeginRecovered
  <2>3. stopped'[t] = FALSE
    BY Zenon DEF BeginRecovered, LifeInv, TypeOK, FlagsType
  <2>4. \A j \in Ids : found'[t][j] = IF j = i THEN found[t][j] - 1 ELSE found[t][j]
    BY DEF BeginRecovered, LifeInv, TypeOK, WatchType, BeginWatching
  <2>5. \A j \in Ids : watching'[t][j] = IF j = i /\ open THEN watching[t][j] + 1 ELSE watching[t][j]
    BY DEF BeginRecovered, LifeInv, TypeOK, WatchType, BeginWatching
  <2>6. TaskInv(t) /\ ~Asleep(t)
    BY <2>2 DEF LifeInv, TaskInv, Dormant, Free
  <2>7. ~Asleep(t)'
    BY <1>1, <2>6, StillAsleep DEF SameBoot
  <2>8. TypeOK
    BY DEF LifeInv
  <2> USE <1>2, <2>1, <2>2, <2>3, <2>4, <2>5, <2>6, <2>7, <2>8 DEF TypeOK, ProcType, StoreType, TrackedType, MutexType, StartsType, LoopType, WatchType, BeginWatching
  <2>9. Fresh(t)'  BY DEF TaskInv, Fresh, Ids
  <2>10. Single(t)'  BY DEF TaskInv, Single, Free
  <2>s. Sorted(t)'  BY DEF TaskInv, Sorted
  <2>11. Launched(t)'  BY DEF TaskInv, Launched, Trying
  <2>12. Dormant(t)'  BY DEF Dormant
  <2>13. Known(t)'  BY DEF TaskInv, Known, Trying
  <2>14. Stored(t)'  BY DEF TaskInv, Stored, Trying
  <2>15. Cut(t)'  BY DEF TaskInv, Cut, Trying
  <2>16. Covered(t)'
    <3>1. open => Attended(t, i)'  BY DEF Attended
    <3>2. ASSUME NEW j \in Ids \ {i}, Attended(t, j) PROVE Attended(t, j)'  BY <3>2 DEF Attended, Trying
    <3> QED  BY <3>1, <3>2 DEF TaskInv, Covered
  <2> QED  BY <2>9, <2>10, <2>11, <2>12, <2>13, <2>14, <2>15, <2>16, <2>s DEF TaskInv
<1>p. Probed'
  BY <1>1, ProbedFrame DEF LifeInv, TypeOK, StoreType, BeginRecovered, world
<1> QED  BY <1>3, <1>4, <1>h, <1>5, <1>6, <1>p DEF LifeInv

LEMMA WatcherKeeps ==
  ASSUME LifeInv, NEW t \in Tasks, NEW i \in Ids, phase # "exited", Watcher(t, i)
  PROVE  LifeInv'
<1>1. open' = open /\ phase' = phase /\ agent' = agent /\ recovery' = recovery
  BY DEF Watcher, world
<1>2. open' <=> open
  BY Zenon, <1>1
<1>3. TypeOK'
  <2> USE DEF Watcher, LifeInv, TypeOK, world, count, Restarts
  <2>1. ProcType' /\ StoreType'  BY DEF ProcType, StoreType
  <2>2. FlagsType'  BY Zenon, <1>1 DEF FlagsType
  <2>3. TrackedType' /\ MutexType'  BY DEF TrackedType, MutexType
  <2>4. StartsType' /\ LoopType'  BY DEF StartsType, LoopType
  <2>5. WatchType'  BY DEF WatchType
  <2>6. AgentType' /\ RecoveryType' /\ CountType'  BY <1>1 DEF AgentType, RecoveryType, CountType
  <2> QED  BY <2>1, <2>2, <2>3, <2>4, <2>5, <2>6 DEF TypeOK
<1>e. /\ \A u \in Tasks \ {t} : excused'[u] = excused[u]
      /\ excused[t] \subseteq excused'[t] /\ excused'[t] \subseteq excused[t] \cup {i}
      /\ proc[t][i] = "dead" \/ i \in excused'[t]
  BY DEF Watcher, LifeInv, TypeOK, CountType
<1>4. Phases'
  BY <1>1, PhasesFrame DEF LifeInv
<1>h. Held'
  BY <1>1, HeldFrame DEF LifeInv, Watcher
<1>5. ASSUME NEW u \in Tasks \ {t} PROVE TaskInv(u)'
  <2>1. SameBoot(u)
    BY <1>1, <1>5, <1>e, StillAsleep
  <2>2. tracked'[u] = tracked[u] /\ starts'[u] = starts[u] /\ watching'[u] = watching[u]
    BY <1>5 DEF Watcher, LifeInv, TypeOK, TrackedType, StartsType, WatchType, Restarts
  <2>3. UNCHANGED <<proc, store, stopped, mutex, loop, found>>
    BY DEF Watcher, world
  <2> QED  BY <1>1, <1>2, <1>5, <1>e, <2>1, <2>2, <2>3, Frame DEF LifeInv
<1>6. TaskInv(t)'
  <2>1. UNCHANGED <<proc, store, stopped, mutex, loop, found>>
    BY <1>1 DEF Watcher, world
  <2>2. watching[t][i] > 0 /\ (proc[t][i] = "dead" \/ i \in excused'[t]) /\ excused[t] \subseteq excused'[t]
        /\ excused'[t] \subseteq excused[t] \cup {i} /\ proc[t][i] # "none"
    BY <1>e DEF Watcher
  <2>3. tracked'[t] = tracked[t] \ {i}
    BY DEF Watcher, LifeInv, TypeOK, TrackedType, Restarts
  <2>4. starts'[t] = IF ~stopped[t] /\ t \in Services THEN starts[t] + 1 ELSE starts[t]
    BY DEF Watcher, LifeInv, TypeOK, StartsType, Restarts
  <2>5. \A j \in Ids : watching'[t][j] = IF j = i THEN watching[t][j] - 1 ELSE watching[t][j]
    BY DEF Watcher, LifeInv, TypeOK, WatchType
  <2>6. TaskInv(t) /\ ~Asleep(t)
    BY <2>2 DEF LifeInv, TaskInv, Dormant, Free
  <2>7. ~Asleep(t)'
    <3>1. CASE phase # "boot"
      BY Zenon, <1>1, <2>6, <3>1 DEF Asleep, Waking
    <3>2. CASE phase = "boot"
      <4>1. \A j \in Ids : Unrecovered(j)' <=> Unrecovered(j)
        BY Zenon, <1>1 DEF Unrecovered
      <4>2. Waking(t)' <=> Waking(t)
        BY Zenon, <1>1 DEF Waking
      <4>3. \A j \in Ids \ excused'[t] : j \in Ids \ excused[t]
        BY <2>2
      <4> QED  BY Zenon, <1>1, <2>6, <4>1, <4>2, <4>3 DEF Asleep
    <3> QED  BY <3>1, <3>2
  <2>8. TypeOK
    BY DEF LifeInv
  <2> USE <1>2, <2>1, <2>2, <2>3, <2>4, <2>5, <2>6, <2>7, <2>8 DEF TypeOK, ProcType, StoreType, TrackedType, MutexType, StartsType, LoopType, WatchType
  <2>9. Fresh(t)'  BY DEF TaskInv, Fresh, Ids
  <2>10. Single(t)'  BY DEF TaskInv, Single, Free
  <2>s. Sorted(t)'  BY DEF TaskInv, Sorted
  <2>11. Launched(t)'  BY DEF TaskInv, Launched, Trying
  <2>12. Dormant(t)'  BY DEF Dormant
  <2>13. Known(t)'  BY DEF Launched, TaskInv, Known, Trying
  <2>14. Stored(t)'  BY DEF TaskInv, Stored, Trying
  <2>15. Cut(t)'  BY DEF TaskInv, Cut, Trying
  <2>16. Covered(t)'  BY DEF TaskInv, Covered, Attended, Trying
  <2> QED  BY <2>9, <2>10, <2>11, <2>12, <2>13, <2>14, <2>15, <2>16, <2>s DEF TaskInv
<1>p. Probed'
  BY <1>1, ProbedFrame DEF LifeInv, TypeOK, StoreType, Watcher, world
<1> QED  BY <1>3, <1>4, <1>h, <1>5, <1>6, <1>p DEF LifeInv

LEMMA GoStartKeeps ==
  ASSUME LifeInv, NEW t \in Tasks, phase # "exited", GoStart(t)
  PROVE  LifeInv'
<1>1. open' = open /\ phase' = phase /\ agent' = agent /\ recovery' = recovery /\ excused' = excused
  BY DEF GoStart, world, count
<1>2. open' <=> open
  BY Zenon, <1>1
<1>3. TypeOK'
  <2> USE DEF GoStart, LifeInv, TypeOK, world, count, Lock, Needed
  <2>1. ProcType' /\ StoreType'  BY DEF ProcType, StoreType
  <2>2. FlagsType'  BY Zenon, <1>1 DEF FlagsType
  <2>3. TrackedType' /\ MutexType'  BY DEF TrackedType, MutexType
  <2>4. StartsType' /\ LoopType'  BY DEF StartsType, LoopType
  <2>5. WatchType'  BY DEF WatchType
  <2>6. AgentType' /\ RecoveryType' /\ CountType'  BY <1>1 DEF AgentType, RecoveryType, CountType
  <2> QED  BY <2>1, <2>2, <2>3, <2>4, <2>5, <2>6 DEF TypeOK
<1>4. Phases'
  BY <1>1, PhasesFrame DEF LifeInv
<1>h. Held'
  BY <1>1, AgentsAssumption DEF LifeInv, GoStart, Lock, Held, TypeOK, MutexType
<1>5. ASSUME NEW u \in Tasks \ {t} PROVE TaskInv(u)'
  <2>1. SameBoot(u)
    BY <1>1, StillAsleep
  <2>2. mutex'[u] = mutex[u] /\ starts'[u] = starts[u]
    BY <1>5 DEF GoStart, LifeInv, TypeOK, MutexType, StartsType, Lock, Needed
  <2>3. UNCHANGED <<proc, store, stopped, tracked, loop, found, watching>>
    BY DEF GoStart, world
  <2> QED  BY <1>1, <1>2, <1>5, <2>1, <2>2, <2>3, Frame DEF LifeInv
<1>6. TaskInv(t)'
  <2>1. UNCHANGED <<proc, store, stopped, tracked, loop, found, watching, excused>>
    BY <1>1 DEF GoStart, world
  <2>2. starts[t] > 0 /\ mutex[t] = Free
    BY DEF GoStart, Lock, Needed
  <2>3. mutex'[t].at = IF tracked[t] = {} THEN "create" ELSE "persist"
    BY DEF GoStart, LifeInv, TypeOK, MutexType, Lock, Needed
  <2>4. starts'[t] = starts[t] - 1
    BY DEF GoStart, LifeInv, TypeOK, StartsType, Lock, Needed
  <2>5. TaskInv(t) /\ ~Asleep(t)
    BY <2>2 DEF LifeInv, TaskInv, Dormant, Free
  <2>6. ~Asleep(t)'
    BY <1>1, <2>5, StillAsleep DEF SameBoot
  <2>7. TypeOK
    BY DEF LifeInv
  <2> USE <1>2, <2>1, <2>2, <2>3, <2>4, <2>5, <2>6, <2>7 DEF TypeOK, ProcType, StoreType, TrackedType, MutexType, StartsType, LoopType, WatchType
  <2>8. Fresh(t)'  BY DEF TaskInv, Fresh, Ids
  <2>9. Single(t)'  BY DEF TaskInv, Single, Free
  <2>s. Sorted(t)'  BY DEF TaskInv, Sorted
  <2>10. Launched(t)'  BY DEF TaskInv, Launched, Trying
  <2>11. Dormant(t)'  BY DEF Dormant
  <2>12. Known(t)'  BY DEF TaskInv, Known, Trying
  <2>13. Stored(t)'  BY DEF TaskInv, Stored, Trying
  <2>14. Cut(t)'  BY DEF TaskInv, Cut, Trying
  <2>15. Covered(t)'  BY DEF TaskInv, Covered, Attended, Trying
  <2> QED  BY <2>8, <2>9, <2>10, <2>11, <2>12, <2>13, <2>14, <2>15, <2>s DEF TaskInv
<1>p. Probed'
  BY <1>1, ProbedFrame DEF LifeInv, TypeOK, StoreType, GoStart, world
<1> QED  BY <1>3, <1>4, <1>h, <1>5, <1>6, <1>p DEF LifeInv

LEMMA ProcExitKeeps ==
  ASSUME LifeInv, NEW t \in Tasks, NEW i \in Ids, ProcExit(t, i)
  PROVE  LifeInv'
<1>1. open' = open /\ phase' = phase /\ agent' = agent /\ recovery' = recovery /\ excused' = excused
  BY DEF ProcExit, count
<1>2. open' <=> open
  BY Zenon, <1>1
<1>3. TypeOK'
  <2> USE DEF ProcExit, LifeInv, TypeOK, task, count
  <2>1. ProcType' /\ StoreType'  BY DEF ProcType, StoreType
  <2>2. FlagsType'  BY Zenon, <1>1 DEF FlagsType
  <2>3. TrackedType' /\ MutexType'  BY DEF TrackedType, MutexType
  <2>4. StartsType' /\ LoopType'  BY DEF StartsType, LoopType
  <2>5. WatchType'  BY DEF WatchType
  <2>6. AgentType' /\ RecoveryType' /\ CountType'  BY <1>1 DEF AgentType, RecoveryType, CountType
  <2> QED  BY <2>1, <2>2, <2>3, <2>4, <2>5, <2>6 DEF TypeOK
<1>4. Phases'
  BY <1>1, PhasesFrame DEF LifeInv
<1>5. Held'
  BY <1>1, HeldFrame DEF LifeInv, ProcExit, task
<1>6. \A u \in Tasks : SameBoot(u)
  BY <1>1, StillAsleep
<1>7. ASSUME NEW u \in Tasks \ {t} PROVE TaskInv(u)'
  BY <1>1, <1>6, <1>7, Frame DEF LifeInv, ProcExit, task, TypeOK, ProcType
<1>8. TaskInv(t)'
  <2>1. UNCHANGED <<phase, store, stopped, tracked, mutex, starts, loop, found, watching, excused>>
    BY <1>1 DEF ProcExit, task
  <2>2. proc[t][i] = "alive" /\ \A j \in Ids : proc'[t][j] = IF j = i THEN "dead" ELSE proc[t][j]
    BY DEF ProcExit, LifeInv, TypeOK, ProcType
  <2>3. TypeOK /\ TaskInv(t) /\ SameBoot(t)
    BY <1>6 DEF LifeInv
  <2> USE <1>2, <2>1, <2>2, <2>3
      DEF TypeOK, ProcType, StoreType, TrackedType, MutexType, StartsType, LoopType, WatchType
  <2>4. Fresh(t)'  BY DEF TaskInv, Fresh, Ids
  <2>5. Single(t)'  BY DEF TaskInv, Single
  <2>s. Sorted(t)'  BY DEF TaskInv, Sorted, SameBoot
  <2>6. Launched(t)'  BY DEF TaskInv, Launched, Trying
  <2>7. Dormant(t)'  BY DEF TaskInv, Dormant, Free, SameBoot
  <2>8. Known(t)'  BY DEF TaskInv, Known, Trying, SameBoot
  <2>9. Stored(t)'  BY DEF TaskInv, Stored, Trying
  <2>10. Cut(t)'  BY DEF TaskInv, Cut, Trying
  <2>11. Covered(t)'  BY DEF TaskInv, Covered, Attended, Trying
  <2> QED  BY <2>4, <2>5, <2>6, <2>7, <2>8, <2>9, <2>10, <2>11, <2>s DEF TaskInv
<1>p. Probed'
  BY <1>1, ProbedFrame DEF LifeInv, TypeOK, StoreType, ProcExit
<1> QED  BY <1>3, <1>4, <1>5, <1>7, <1>8, <1>p DEF LifeInv

LEMMA CreateKeeps ==
  ASSUME LifeInv, NEW t \in Tasks, phase # "exited", Create(t)
  PROVE  LifeInv'
<1>1. open' = open /\ phase' = phase /\ agent' = agent /\ recovery' = recovery /\ excused' = excused
  BY DEF Create, count
<1>2. open' <=> open
  BY Zenon, <1>1
<1>3. PICK i \in Ids : i = store[t].execCount + 1
  BY LifeBounds DEF Create, LifeInv, TypeOK, StoreType, Ids
<1>4. TypeOK'
  <2> USE <1>3 DEF Create, Number, LifeInv, TypeOK, count
  <2>1. ProcType'  BY DEF ProcType
  <2>2. StoreType'  BY LifeBounds DEF StoreType
  <2>3. FlagsType'  BY Zenon, <1>1 DEF FlagsType
  <2>4. TrackedType' /\ MutexType'  BY DEF TrackedType, MutexType
  <2>5. StartsType' /\ LoopType'  BY DEF StartsType, LoopType
  <2>6. WatchType'  BY DEF WatchType
  <2>7. AgentType' /\ RecoveryType' /\ CountType'  BY <1>1 DEF AgentType, RecoveryType, CountType
  <2> QED  BY <2>1, <2>2, <2>3, <2>4, <2>5, <2>6, <2>7 DEF TypeOK
<1>5. Phases'
  BY <1>1, PhasesFrame DEF LifeInv
<1>6. Held'
  BY <1>1 DEF LifeInv, Create, Held, TypeOK, MutexType
<1>7. ASSUME NEW u \in Tasks \ {t} PROVE TaskInv(u)'
  <2>1. SameBoot(u)
    BY <1>1, StillAsleep
  <2> QED  BY <1>1, <1>7, <2>1, Frame DEF LifeInv, Create, TypeOK, StoreType, TrackedType, LoopType, MutexType
<1>8. TaskInv(t)'
  <2>1. UNCHANGED <<proc, stopped, starts, found, watching, excused>>
    BY <1>1 DEF Create
  <2>2. mutex[t].at = "create" /\ mutex'[t].at = "persist" /\ open
    BY DEF Create, LifeInv, TypeOK, MutexType
  <2>3. /\ store'[t].execCount = i /\ store'[t].instanceIDs = store[t].instanceIDs
        /\ store'[t].pid = store[t].pid
    BY <1>3 DEF Create, Number, LifeInv, TypeOK, StoreType
  <2>4. tracked'[t] = tracked[t] \cup {i}
    BY <1>3 DEF Create, Number, LifeInv, TypeOK, TrackedType
  <2>5. \A j \in Ids : loop'[t][j] = IF j = i THEN "begin" ELSE loop[t][j]
    BY <1>3 DEF Create, Number, LifeInv, TypeOK, LoopType
  <2>6. TypeOK /\ TaskInv(t) /\ ~Asleep(t)
    BY <2>2 DEF LifeInv, TaskInv, Dormant, Free
  <2>7. ~Asleep(t)'
    BY <1>1, <2>6, StillAsleep DEF SameBoot
  <2> USE <1>2, <1>3, <2>1, <2>2, <2>3, <2>4, <2>5, <2>6, <2>7
      DEF TypeOK, ProcType, StoreType, TrackedType, MutexType, StartsType, LoopType, WatchType
  <2>8. /\ tracked[t] \subseteq excused[t] /\ i \notin store[t].instanceIDs /\ i \notin store[t].pid /\ i \notin excused[t]
        /\ proc[t][i] = "none" /\ loop[t][i] = "none" /\ found[t][i] = 0 /\ watching[t][i] = 0
    BY LifeBounds DEF TaskInv, Fresh, Single, Ids
  <2>9. Fresh(t)'  BY DEF TaskInv, Fresh, Ids
  <2>10. Single(t)'  BY <2>8 DEF TaskInv, Single
  <2>s. Sorted(t)'  BY DEF TaskInv, Sorted
  <2>11. Launched(t)'
    <3>1. ASSUME NEW j \in Ids \ {i} PROVE loop'[t][j] = loop[t][j]
      BY <3>1
    <3>2. ASSUME NEW j \in Ids PROVE loop'[t][j] \in {"begin", "launch", "pid"} => j = i \/ Trying(t, j)
      BY <3>1, <3>2 DEF Trying
    <3> QED  BY <2>8, <3>1, <3>2 DEF TaskInv, Launched, Trying
  <2>12. Dormant(t)'  BY DEF Dormant
  <2>13. Known(t)'  BY <2>8 DEF TaskInv, Known, Trying
  <2>14. Stored(t)'  BY <2>8 DEF TaskInv, Stored, Trying
  <2>15. Cut(t)'  BY <2>8 DEF TaskInv, Cut, Trying
  <2>16. Covered(t)'
    <3>1. Attended(t, i)'  BY DEF Attended, Trying
    <3>2. ASSUME NEW j \in Ids \ {i}, Attended(t, j) PROVE Attended(t, j)'  BY <3>2 DEF Attended, Trying
    <3>3. tracked[t] \subseteq Ids
      BY DEF TypeOK, TrackedType
    <3> QED  BY <2>8, <3>1, <3>2, <3>3 DEF TaskInv, Covered
  <2> QED  BY <2>9, <2>10, <2>11, <2>12, <2>13, <2>14, <2>15, <2>16, <2>s DEF TaskInv
<1>p. Probed'
  BY <1>1, ProbedFrame DEF LifeInv, TypeOK, StoreType, Create, Number
<1> QED  BY <1>4, <1>5, <1>6, <1>7, <1>8, <1>p DEF LifeInv

\* The Start that holds the mutex of t returns.
LEMMA ReturnKeeps ==
  ASSUME LifeInv, NEW t \in Tasks, mutex[t].at # "free", Return(t), phase' = phase, open' <=> open,
         recovery' = recovery, excused' = excused, \A u \in Tasks : store[u].pid \subseteq store'[u].pid
  PROVE  AgentType' /\ MutexType' /\ Phases' /\ Held' /\ Probed' /\ \A u \in Tasks : SameBoot(u)
<1> DEFINE by == mutex[t].by
<1>0. by = Go \/ by \in Agents
  BY DEF LifeInv, Held, TypeOK, MutexType
<1>1. /\ mutex' = [mutex EXCEPT ![t] = Free]
      /\ by = Go => agent' = agent
      /\ by # Go => agent' = [agent EXCEPT ![by] = [pc |-> "startTasks", task |-> agent[by].task, left |-> agent[by].left]]
  BY DEF Return, Move, Turn
<1>m. MutexType'
  BY <1>1 DEF LifeInv, TypeOK, MutexType, Free
<1>3. AgentType'
  <2>1. CASE by = Go
    BY <1>1, <2>1 DEF LifeInv, TypeOK, AgentType
  <2>2. CASE by # Go
    <3>1. by \in Agents /\ agent[by] \in [pc : Pc, task : Tasks \cup {NoTask}, left : SUBSET Tasks]
      BY <1>0, <2>2 DEF LifeInv, TypeOK, AgentType
    <3> DEFINE r == [pc |-> "startTasks", task |-> agent[by].task, left |-> agent[by].left]
    <3>2. r \in [pc : Pc, task : Tasks \cup {NoTask}, left : SUBSET Tasks]
      BY <3>1 DEF Pc
    <3>3. agent' = [agent EXCEPT ![by] = r]
      BY <1>1, <2>2
    <3> HIDE DEF r
    <3> QED  BY <3>2, <3>3 DEF LifeInv, TypeOK, AgentType
  <2> QED  BY <2>1, <2>2
<1>4. ASSUME NEW a \in Agents, mutex[t].by = a
      PROVE  agent[a].pc = "starting" /\ agent[a].task = t /\ agent'[a].pc = "startTasks" /\ agent'[a].left = agent[a].left
  <2>1. a # Go
    BY AgentsAssumption
  <2>2. agent[a].pc = "starting" /\ agent[a].task = t
    BY <1>4, <2>1 DEF LifeInv, Held
  <2>3. agent'[a] = [pc |-> "startTasks", task |-> agent[a].task, left |-> agent[a].left]
    BY <1>1, <1>4, <2>1 DEF LifeInv, TypeOK, AgentType
  <2> DEFINE r == [pc |-> "startTasks", task |-> agent[a].task, left |-> agent[a].left]
  <2>4. r.pc = "startTasks" /\ r.left = agent[a].left
    OBVIOUS
  <2>5. agent'[a] = r
    BY <2>3
  <2> HIDE DEF r
  <2> QED  BY <2>2, <2>4, <2>5
<1>5. ASSUME NEW a \in Agents, mutex[t].by # a PROVE agent'[a] = agent[a]
  BY <1>0, <1>1, <1>5 DEF LifeInv, TypeOK, AgentType
<1>6. Main \in Agents /\ Handlers \subseteq Agents
  BY DEF Agents
<1>7. Held'
  <2> SUFFICES ASSUME NEW u \in Tasks, mutex'[u].at # "free", mutex'[u].by # Go
               PROVE  /\ mutex'[u].by \in Agents /\ agent'[mutex'[u].by].pc = "starting" /\ agent'[mutex'[u].by].task = u
    BY DEF Held
  <2>1. u # t /\ mutex'[u] = mutex[u]
    BY <1>1 DEF LifeInv, TypeOK, MutexType, Free
  <2>2. mutex[t].by # mutex[u].by
    BY <1>4, <2>1 DEF LifeInv, Held
  <2> QED  BY <1>5, <2>1, <2>2 DEF LifeInv, Held
<1>8. phase = "boot" => \A h \in Handlers : agent'[h] = Idle
  <2> SUFFICES ASSUME phase = "boot", NEW h \in Handlers PROVE agent'[h] = Idle
    OBVIOUS
  <2>1. agent[h] = Idle /\ agent[h].pc # "starting" /\ h \in Agents
    <3>1. agent[h] = Idle /\ h \in Agents
      BY Zenon, <1>6 DEF LifeInv, Phases
    <3>2. Idle.pc # "starting"
      BY DEF Idle
    <3> QED  BY <3>1, <3>2
  <2> QED  BY <1>4, <1>5, <2>1
<1>9. ASSUME phase = "exited" PROVE FALSE
  BY <1>9 DEF LifeInv, TaskInv, Dormant, Asleep, Free
<1>10. Phases'
  <2>1. phase = "boot" => /\ agent'[Main].pc \in BootPc
                          /\ agent'[Main].pc \in {"recover", "add", "startTask"} =>
                               agent'[Main].task \notin agent'[Main].left
    BY <1>4, <1>5, <1>6 DEF LifeInv, Phases, BootPc
  <2>2. /\ phase \in {"boot", "serving", "stopping"} => open
        /\ phase = "closed" => ~open
    BY DEF LifeInv, Phases
  <2>3. phase \in {"serving", "closed"} => agent'[Main].pc = "idle"
    BY <1>4, <1>5, <1>6 DEF LifeInv, Phases
  <2> QED  BY Zenon, <1>8, <1>9, <2>1, <2>2, <2>3 DEF Phases
<1>11. ASSUME NEW u \in Tasks PROVE SameBoot(u)
  <2>1. CASE mutex[t].by = Main
    <3>1. agent[Main].pc = "starting" /\ agent'[Main].pc = "startTasks" /\ agent'[Main].left = agent[Main].left
      BY <1>4, <1>6, <2>1
    <3>2. agent[Main].pc \notin {"recover", "add", "startStack"} /\ agent'[Main].pc \notin {"recover", "add", "startStack"}
      BY <3>1
    <3>3. ~Waking(u) /\ ~Waking(u)'
      BY Zenon, <3>2 DEF Waking
    <3> QED  BY Zenon, <3>1, <3>2, <3>3 DEF Asleep, SameBoot
  <2>2. CASE mutex[t].by # Main
    <3>1. agent'[Main] = agent[Main]
      BY <1>5, <1>6, <2>2
    <3> QED  BY <3>1, StillAsleep
  <2> QED  BY <2>1, <2>2
<1>12. Probed'
  <2>1. ASSUME NEW a \in Agents, agent'[a].pc \in {"recover", "add"} PROVE agent'[a] = agent[a]
    BY <1>4, <1>5, <2>1
  <2> QED  BY <2>1, ProbedFrame DEF LifeInv
<1> QED  BY <1>m, <1>3, <1>7, <1>10, <1>11, <1>12

LEMMA CreateFailsKeeps ==
  ASSUME LifeInv, NEW t \in Tasks, phase # "exited", CreateFails(t)
  PROVE  LifeInv'
<1>1. open' = open /\ phase' = phase /\ excused' = excused /\ recovery' = recovery /\ mutex[t].at = "create" /\ Return(t)
  BY DEF CreateFails, world, count
<1>2. open' <=> open
  BY Zenon, <1>1
<1>q. \A u \in Tasks : store[u].pid \subseteq store'[u].pid
  BY DEF CreateFails, LifeInv, TypeOK, StoreType, world
<1>3. AgentType' /\ MutexType' /\ Phases' /\ Held' /\ Probed' /\ \A u \in Tasks : SameBoot(u)
  BY <1>1, <1>2, <1>q, ReturnKeeps
<1>4. TypeOK'
  <2> USE DEF CreateFails, LifeInv, TypeOK, world, count
  <2>1. ProcType' /\ StoreType' /\ TrackedType' /\ StartsType' /\ LoopType' /\ WatchType'
    BY DEF ProcType, StoreType, TrackedType, StartsType, LoopType, WatchType
  <2>2. FlagsType'  BY Zenon, <1>1 DEF FlagsType
  <2>3. CountType' /\ RecoveryType'  BY <1>1 DEF CountType, RecoveryType
  <2> QED  BY <1>3, <2>1, <2>2, <2>3 DEF TypeOK
<1>5. UNCHANGED <<proc, store, stopped, tracked, starts, loop, found, watching, excused>>
  BY DEF CreateFails, world, count
<1>6. mutex' = [mutex EXCEPT ![t] = Free]
  BY <1>1 DEF Return
<1>7. ASSUME NEW u \in Tasks \ {t} PROVE TaskInv(u)'
  BY <1>1, <1>3, <1>5, <1>6, <1>7, Frame DEF LifeInv, TypeOK, MutexType
<1>8. TaskInv(t)'
  <2>1. mutex'[t].at = "free" /\ TypeOK /\ TaskInv(t)
    BY <1>6 DEF LifeInv, TypeOK, MutexType, Free
  <2>2. ~open \/ store[t].execCount = MaxExec
    BY DEF CreateFails
  <2>3. ~Asleep(t) /\ ~Asleep(t)'
    BY <1>1, <1>3, <2>1 DEF TaskInv, Dormant, Free, SameBoot
  <2> USE <1>1, <1>2, <1>5, <2>1, <2>2, <2>3
  <2>4. Fresh(t)'  BY DEF TaskInv, Fresh
  <2>5. Single(t)'  BY DEF TaskInv, Single
  <2>s. Sorted(t)'  BY DEF TaskInv, Sorted
  <2>6. Launched(t)'  BY DEF TaskInv, Launched, Trying
  <2>7. Dormant(t)'  BY DEF Dormant
  <2>8. Known(t)'  BY DEF TaskInv, Known, Trying
  <2>9. Stored(t)'  BY DEF TaskInv, Stored, Trying
  <2>10. Cut(t)'  BY DEF TaskInv, Cut, Trying
  <2>11. Covered(t)'  BY DEF TaskInv, Covered, Attended, Trying
  <2> QED  BY <2>4, <2>5, <2>6, <2>7, <2>8, <2>9, <2>10, <2>11, <2>s DEF TaskInv
<1> QED  BY <1>3, <1>4, <1>7, <1>8 DEF LifeInv

LEMMA PersistKeeps ==
  ASSUME LifeInv, NEW t \in Tasks, phase # "exited", Persist(t)
  PROVE  LifeInv'
<1>1. open' = open /\ phase' = phase /\ excused' = excused /\ recovery' = recovery /\ mutex[t].at = "persist" /\ Return(t)
  BY DEF Persist, count
<1>2. open' <=> open
  BY Zenon, <1>1
<1>q. \A u \in Tasks : store[u].pid \subseteq store'[u].pid
  BY DEF Persist, LifeInv, TypeOK, StoreType, world
<1>3. AgentType' /\ MutexType' /\ Phases' /\ Held' /\ Probed' /\ \A u \in Tasks : SameBoot(u)
  BY <1>1, <1>2, <1>q, ReturnKeeps
<1>4. TypeOK'
  <2> USE DEF Persist, LifeInv, TypeOK, count
  <2>1. ProcType' /\ TrackedType' /\ StartsType' /\ LoopType' /\ WatchType'
    BY DEF ProcType, TrackedType, StartsType, LoopType, WatchType
  <2>2. StoreType'
    BY DEF StoreType, TrackedType
  <2>3. FlagsType'  BY Zenon, <1>1 DEF FlagsType
  <2>4. CountType' /\ RecoveryType'  BY <1>1 DEF CountType, RecoveryType
  <2> QED  BY <1>3, <2>1, <2>2, <2>3, <2>4 DEF TypeOK
<1>5. UNCHANGED <<proc, stopped, tracked, starts, loop, found, watching, excused>>
  BY DEF Persist, count
<1>6. mutex' = [mutex EXCEPT ![t] = Free]
  BY <1>1 DEF Return
<1>7. ASSUME NEW u \in Tasks \ {t} PROVE TaskInv(u)'
  <2>1. store'[u] = store[u]
    BY <1>7 DEF Persist, LifeInv, TypeOK, StoreType
  <2> QED  BY <1>1, <1>3, <1>5, <1>6, <1>7, <2>1, Frame DEF LifeInv, TypeOK, MutexType
<1>8. TaskInv(t)'
  <2>1. mutex'[t].at = "free" /\ TypeOK /\ TaskInv(t)
    BY <1>6 DEF LifeInv, TypeOK, MutexType, Free
  <2>2. /\ store'[t].execCount = store[t].execCount /\ store'[t].pid = store[t].pid
        /\ open => store'[t].instanceIDs = tracked[t]
        /\ ~open => store'[t].instanceIDs = store[t].instanceIDs
    BY DEF Persist, LifeInv, TypeOK, StoreType
  <2>3. ~Asleep(t) /\ ~Asleep(t)'
    BY <1>1, <1>3, <2>1 DEF TaskInv, Dormant, Free, SameBoot
  <2>4. tracked[t] \subseteq Ids
    BY <2>1 DEF TypeOK, TrackedType
  <2> USE <1>1, <1>2, <1>5, <2>1, <2>2, <2>3, <2>4
  <2>5. Fresh(t)'  BY DEF TaskInv, Fresh
  <2>6. Single(t)'  BY DEF TaskInv, Single
  <2>s. Sorted(t)'  BY DEF TaskInv, Sorted
  <2>7. Launched(t)'  BY DEF TaskInv, Launched, Trying
  <2>8. Dormant(t)'  BY DEF Dormant
  <2>9. Known(t)'  BY DEF TaskInv, Known, Trying
  <2>10. Stored(t)'  BY DEF TaskInv, Stored, Trying
  <2>11. Cut(t)'  BY DEF TaskInv, Cut, Trying
  <2>12. Covered(t)'  BY DEF TaskInv, Covered, Attended, Trying
  <2> QED  BY <2>5, <2>6, <2>7, <2>8, <2>9, <2>10, <2>11, <2>12, <2>s DEF TaskInv
<1> QED  BY <1>3, <1>4, <1>7, <1>8 DEF LifeInv

-----------------------------------------------------------------------------
(* Agents                                                                   *)

LEMMA TurnTaken ==
  ASSUME AgentType, NEW a \in Agents, NEW pc \in Pc, NEW t \in Tasks \cup {NoTask}, NEW left \in SUBSET Tasks,
         Turn(a, pc, t, left)
  PROVE  /\ AgentType'
         /\ agent'[a].pc = pc /\ agent'[a].task = t /\ agent'[a].left = left
         /\ \A b \in Agents \ {a} : agent'[b] = agent[b]
<1> DEFINE r == [pc |-> pc, task |-> t, left |-> left]
<1>1. r \in [pc : Pc, task : Tasks \cup {NoTask}, left : SUBSET Tasks] /\ r.pc = pc /\ r.task = t /\ r.left = left
  OBVIOUS
<1>2. agent' = [agent EXCEPT ![a] = r]
  BY DEF Turn
<1> HIDE DEF r
<1> QED  BY <1>1, <1>2 DEF AgentType

\* While sysd starts the stacks nobody else is at work.
LEMMA OnlyMain ==
  ASSUME LifeInv, phase = "boot", NEW a \in Agents, agent[a].pc # "idle"
  PROVE  a = Main
<1>1. ASSUME a \in Handlers PROVE FALSE
  <2>1. agent[a] = Idle
    BY Zenon, <1>1 DEF LifeInv, Phases
  <2>2. Idle.pc = "idle"
    BY DEF Idle
  <2> QED  BY <2>1, <2>2
<1> QED  BY <1>1 DEF Agents

LEMMA TurnKeeps ==
  ASSUME LifeInv, NEW a \in Agents, NEW pc \in Pc, NEW t \in Tasks \cup {NoTask}, NEW left \in SUBSET Tasks,
         Turn(a, pc, t, left), agent[a].pc # "starting", agent[a].pc # "idle" \/ a # Main, mutex' = mutex,
         phase' = phase, phase # "exited", open' <=> open,
         phase = "boot" => /\ a = Main /\ pc \in BootPc
                           /\ pc \in {"recover", "add", "startTask"} => t \notin left
  PROVE  AgentType' /\ Phases' /\ Held'
<1>1. /\ AgentType'
      /\ agent'[a].pc = pc /\ agent'[a].task = t /\ agent'[a].left = left
      /\ \A b \in Agents \ {a} : agent'[b] = agent[b]
  BY TurnTaken DEF LifeInv, TypeOK
<1>2. Held'
  BY <1>1, HeldFrame DEF LifeInv
<1>3. /\ phase \in {"boot", "serving", "stopping"} => open
      /\ phase = "closed" => ~open
  BY DEF LifeInv, Phases
<1>4. phase = "boot" => \A h \in Handlers : agent'[h] = Idle
  <2> SUFFICES ASSUME phase = "boot", NEW h \in Handlers PROVE agent'[h] = Idle
    OBVIOUS
  <2>1. agent[h] = Idle
    BY Zenon DEF LifeInv, Phases
  <2> QED  BY <1>1, <2>1, AgentsAssumption DEF Agents
<1>5. phase \in {"serving", "closed"} => agent'[Main].pc = "idle"
  <2>1. phase \in {"serving", "closed"} => agent[Main].pc = "idle"
    BY DEF LifeInv, Phases
  <2> QED  BY <1>1, <2>1 DEF Agents
<1>6. Phases'
  BY Zenon, <1>1, <1>3, <1>4, <1>5 DEF Phases
<1> QED  BY <1>1, <1>2, <1>6

\* Only agents move, and sysd.
LEMMA AgentOnly ==
  ASSUME LifeInv, open' = open,
         UNCHANGED <<proc, store, stopped, tracked, mutex, starts, loop, found, watching, excused>>,
         CountType', stackStopped' \in BOOLEAN, phase' \in Phase, AgentType', RecoveryType', Phases', Held',
         Probed', \A u \in Tasks : SameBoot(u), phase' = "exited" => phase = "exited"
  PROVE  LifeInv'
<1>2. TypeOK'
  <2> USE DEF LifeInv, TypeOK
  <2>1. /\ ProcType' /\ StoreType' /\ TrackedType' /\ MutexType'
        /\ StartsType' /\ LoopType' /\ WatchType'
    BY DEF ProcType, StoreType, TrackedType, MutexType, StartsType, LoopType, WatchType
  <2>2. FlagsType'  BY Zenon DEF FlagsType
  <2> QED  BY <2>1, <2>2 DEF TypeOK
<1>3. ASSUME NEW u \in Tasks PROVE TaskInv(u)'
  BY Frame DEF LifeInv
<1>p. Probed'
  BY ProbedFrame
<1> QED  BY <1>2, <1>3, <1>p DEF LifeInv

LEMMA StackStartKeeps ==
  ASSUME LifeInv, phase # "exited", NEW a \in Agents, StackStart(a)
  PROVE  LifeInv'
<1>1. /\ open' = open /\ phase' = phase /\ agent[a].pc = "startStack" /\ Turn(a, "startTasks", NoTask, Tasks)
      /\ UNCHANGED <<proc, store, stopped, tracked, mutex, starts, loop, found, watching, persistent, excused, requests, boots, recovery>>
      /\ stackStopped' = FALSE
  BY Zenon DEF StackStart, world, task, count
<1>2. open' <=> open
  BY Zenon, <1>1
<1>3. phase = "boot" => a = Main
  BY <1>1, OnlyMain
<1>4. AgentType' /\ Phases' /\ Held'
  BY <1>1, <1>2, <1>3, TurnKeeps DEF Pc, BootPc
<1>5. agent'[a].pc = "startTasks" /\ agent'[a].left = Tasks
  BY <1>1, TurnTaken DEF LifeInv, TypeOK, Pc
<1>6. ASSUME NEW u \in Tasks PROVE SameBoot(u)
  <2>1. CASE phase = "boot"
    <3>1. agent[Main].pc \notin {"recover", "add"} /\ agent'[Main].pc \notin {"recover", "add"}
      BY <1>1, <1>3, <1>5, <2>1
    <3>2. ~Waking(u) /\ ~Waking(u)'
      BY Zenon, <3>1 DEF Waking
    <3> QED  BY Zenon, <1>1, <1>3, <1>5, <1>6, <2>1, <3>2 DEF Asleep, SameBoot
  <2>2. CASE phase # "boot"
    BY <1>1, <2>2, StillAsleep
  <2> QED  BY <2>1, <2>2
<1>7. phase' \in Phase /\ stackStopped' \in BOOLEAN
  BY Zenon, <1>1 DEF LifeInv, TypeOK, FlagsType
<1>8. CountType' /\ RecoveryType'
  BY <1>1 DEF LifeInv, TypeOK, CountType, RecoveryType
<1>p. Probed'
  <2>1. \A b \in Agents : agent'[b].pc \in {"recover", "add"} => agent'[b] = agent[b]
    BY <1>1, <1>5, TurnTaken DEF LifeInv, TypeOK, Pc
  <2> QED  BY <1>1, <2>1, ProbedFrame DEF LifeInv
<1> QED  BY <1>1, <1>4, <1>6, <1>7, <1>8, <1>p, AgentOnly

LEMMA StackStopKeeps ==
  ASSUME LifeInv, phase # "exited", NEW a \in Agents, StackStop(a)
  PROVE  LifeInv'
<1>1. /\ open' = open /\ phase' = phase /\ agent[a].pc = "stopStack"
      /\ Turn(a, "stopTasks", NoTask, Tasks \ persistent)
      /\ UNCHANGED <<proc, store, stopped, tracked, mutex, starts, loop, found, watching, persistent, excused, requests, boots, recovery>>
      /\ stackStopped' = TRUE
  BY Zenon DEF StackStop, world, task, count
<1>2. open' <=> open
  BY Zenon, <1>1
<1>3. phase # "boot"
  BY <1>1, OnlyMain DEF LifeInv, Phases, BootPc
<1>4. AgentType' /\ Phases' /\ Held'
  BY <1>1, <1>2, <1>3, TurnKeeps DEF Pc
<1>5. ASSUME NEW u \in Tasks PROVE SameBoot(u)
  BY <1>1, <1>3, StillAsleep
<1>6. phase' \in Phase /\ stackStopped' \in BOOLEAN
  BY Zenon, <1>1 DEF LifeInv, TypeOK, FlagsType
<1>7. CountType' /\ RecoveryType'
  BY <1>1 DEF LifeInv, TypeOK, CountType, RecoveryType
<1>p. Probed'
  <2>1. \A b \in Agents : agent'[b].pc \in {"recover", "add"} => agent'[b] = agent[b]
    BY <1>1, TurnTaken DEF LifeInv, TypeOK, Pc
  <2> QED  BY <1>1, <2>1, ProbedFrame DEF LifeInv
<1> QED  BY <1>1, <1>4, <1>5, <1>6, <1>7, <1>p, AgentOnly

LEMMA HandlerKeeps ==
  ASSUME LifeInv, phase # "exited", NEW h \in Handlers, HandlerReturns(h) \/ Requests(h)
  PROVE  LifeInv'
<1>1. /\ open' = open /\ phase' = phase /\ stackStopped' = stackStopped
      /\ UNCHANGED <<proc, store, stopped, tracked, mutex, starts, loop, found, watching, persistent, excused, boots, recovery>>
      /\ requests' = requests \/ requests' = requests + 1
  BY Zenon DEF HandlerReturns, Requests, RequestStackStart, RequestStackStop, RequestTaskStart,
               RequestTaskStop, Request, world, task, count
<1>2. open' <=> open
  BY Zenon, <1>1
<1>3. h \in Agents /\ Idle.pc = "idle" /\ h # Main
  BY AgentsAssumption DEF Agents, Idle
<1>4. agent[h].pc # "starting" /\ phase # "boot"
  <2>1. CASE HandlerReturns(h)
    <3>1. agent[h].pc \in {"startTasks", "stopTasks"}
      BY Zenon, <2>1 DEF HandlerReturns, Done
    <3>2. phase = "boot" => agent[h] = Idle
      BY Zenon DEF LifeInv, Phases
    <3> QED  BY <1>3, <3>1, <3>2
  <2>2. CASE Requests(h)
    <3>1. Request(h)
      BY Zenon, <2>2 DEF Requests, RequestStackStart, RequestStackStop, RequestTaskStart, RequestTaskStop
    <3>2. agent[h] = Idle /\ phase \in {"serving", "stopping", "closed"}
      BY Zenon, <3>1 DEF Request
    <3> QED  BY <1>3, <3>2
  <2> QED  BY <2>1, <2>2
<1>5. \E pc \in Pc \ {"recover", "add"}, t \in Tasks \cup {NoTask}, left \in SUBSET Tasks : Turn(h, pc, t, left)
  <2>1. CASE HandlerReturns(h)
    <3>1. Turn(h, "idle", NoTask, {})
      BY Zenon, <2>1 DEF HandlerReturns, Turn, Idle
    <3> QED  BY <3>1 DEF Pc
  <2>2. CASE RequestStackStart(h) \/ RequestStackStop(h)
    <3>1. agent[h].task \in Tasks \cup {NoTask} /\ agent[h].left \in SUBSET Tasks
      BY <1>3 DEF LifeInv, TypeOK, AgentType
    <3>2. Move(h, "startStack") \/ Move(h, "stopStack")
      BY Zenon, <2>2 DEF RequestStackStart, RequestStackStop
    <3>3. "startStack" \in Pc \ {"recover", "add"} /\ "stopStack" \in Pc \ {"recover", "add"}
      BY DEF Pc
    <3> QED  BY Zenon, <3>1, <3>2, <3>3 DEF Move
  <2>3. CASE RequestTaskStart(h)
    <3>1. PICK t \in Tasks : Turn(h, "startTask", t, {})
      BY Zenon, <2>3 DEF RequestTaskStart
    <3> QED  BY <3>1 DEF Pc
  <2>4. CASE RequestTaskStop(h)
    <3>1. PICK t \in Tasks : Turn(h, "stopTasks", NoTask, {t})
      BY Zenon, <2>4 DEF RequestTaskStop
    <3> QED  BY <3>1 DEF Pc
  <2> QED  BY Zenon, <2>1, <2>2, <2>3, <2>4 DEF Requests
<1>6. AgentType' /\ Phases' /\ Held' /\ Probed'
  <2>1. PICK pc \in Pc \ {"recover", "add"}, t \in Tasks \cup {NoTask}, left \in SUBSET Tasks : Turn(h, pc, t, left)
    BY <1>5
  <2>2. AgentType' /\ Phases' /\ Held'
    BY <1>1, <1>2, <1>3, <1>4, <2>1, TurnKeeps
  <2>3. \A b \in Agents : agent'[b].pc \in {"recover", "add"} => agent'[b] = agent[b]
    BY <1>3, <2>1, TurnTaken DEF LifeInv, TypeOK
  <2> QED  BY <1>1, <2>2, <2>3, ProbedFrame DEF LifeInv
<1>7. ASSUME NEW u \in Tasks PROVE SameBoot(u)
  BY <1>1, <1>4, StillAsleep
<1>8. phase' \in Phase /\ stackStopped' \in BOOLEAN
  BY Zenon, <1>1 DEF LifeInv, TypeOK, FlagsType
<1>9. CountType' /\ RecoveryType'
  BY <1>1 DEF LifeInv, TypeOK, CountType, RecoveryType
<1> QED  BY <1>1, <1>6, <1>7, <1>8, <1>9, AgentOnly

LEMMA StartTaskKeeps ==
  ASSUME LifeInv, phase # "exited", NEW a \in Agents, StartTask(a)
  PROVE  LifeInv'
<1>1. /\ open' = open /\ phase' = phase /\ stackStopped' = stackStopped /\ Move(a, "starting")
      /\ UNCHANGED <<proc, store, stopped, tracked, starts, loop, found, watching, persistent, excused, requests, boots, recovery>>
  BY Zenon DEF StartTask, world, count
<1>2. open' <=> open
  BY Zenon, <1>1
<1>3. PICK t \in Tasks : At(a, "startTask", t) /\ Lock(t, a)
  BY Zenon DEF StartTask
<1>4. agent[a].pc = "startTask" /\ agent[a].task = t /\ agent[a].left \in SUBSET Tasks
  BY <1>3 DEF At, LifeInv, TypeOK, AgentType
<1>5. phase = "boot" => a = Main
  BY <1>4, OnlyMain
<1>6. /\ AgentType' /\ agent'[a].pc = "starting" /\ agent'[a].task = t /\ agent'[a].left = agent[a].left
      /\ \A b \in Agents \ {a} : agent'[b] = agent[b]
  <2>1. "starting" \in Pc /\ t \in Tasks \cup {NoTask} /\ AgentType
    BY DEF Pc, LifeInv, TypeOK
  <2>2. Turn(a, "starting", t, agent[a].left)
    BY Zenon, <1>1, <1>4 DEF Move
  <2> QED  BY <1>4, <2>1, <2>2, TurnTaken
<1>7. mutex[t] = Free /\ mutex' = [mutex EXCEPT ![t] = [by |-> a, at |-> IF Needed(t) THEN "create" ELSE "persist"]]
  BY <1>3 DEF Lock
<1>8. MutexType'
  BY <1>7 DEF LifeInv, TypeOK, MutexType
<1>9. /\ mutex'[t].by = a /\ mutex'[t].at = (IF tracked[t] = {} THEN "create" ELSE "persist")
      /\ \A u \in Tasks \ {t} : mutex'[u] = mutex[u]
  BY <1>7 DEF LifeInv, TypeOK, MutexType, Needed
<1>10. Held'
  <2> SUFFICES ASSUME NEW u \in Tasks, mutex'[u].at # "free", mutex'[u].by # Go
               PROVE  /\ mutex'[u].by \in Agents
                      /\ agent'[mutex'[u].by].pc = "starting" /\ agent'[mutex'[u].by].task = u
    BY DEF Held
  <2>1. CASE u = t
    BY <1>6, <1>9, <2>1
  <2>2. CASE u # t
    <3>1. mutex'[u] = mutex[u]
      BY <1>9, <2>2
    <3>2. mutex[u].by \in Agents /\ agent[mutex[u].by].pc = "starting" /\ agent[mutex[u].by].task = u
      BY <3>1 DEF LifeInv, Held
    <3> QED  BY <1>4, <1>6, <3>1, <3>2
  <2> QED  BY <2>1, <2>2
<1>11. Phases'
  <2>1. /\ phase \in {"boot", "serving", "stopping"} => open
        /\ phase = "closed" => ~open
    BY DEF LifeInv, Phases
  <2>2. phase = "boot" => \A h \in Handlers : agent'[h] = Idle
    <3> SUFFICES ASSUME phase = "boot", NEW h \in Handlers PROVE agent'[h] = Idle
      OBVIOUS
    <3>1. agent[h] = Idle
      BY Zenon DEF LifeInv, Phases
    <3> QED  BY <1>5, <1>6, <3>1, AgentsAssumption DEF Agents
  <2>3. phase \in {"serving", "closed"} => agent'[Main].pc = "idle"
    <3>1. phase \in {"serving", "closed"} => agent[Main].pc = "idle"
      BY DEF LifeInv, Phases
    <3> QED  BY <1>4, <1>6, <3>1 DEF Agents
  <2>4. "starting" \in BootPc /\ "starting" \notin {"recover", "add", "startTask"}
    BY DEF BootPc
  <2> QED  BY Zenon, <1>1, <1>2, <1>5, <1>6, <2>1, <2>2, <2>3, <2>4 DEF Phases
<1>12. ASSUME NEW u \in Tasks PROVE SameBoot(u)
  <2>1. CASE phase = "boot"
    <3>1. a = Main /\ agent[Main].pc \notin {"recover", "add", "startStack"} /\ agent'[Main].pc \notin {"recover", "add", "startStack"}
      BY <1>4, <1>5, <1>6, <2>1
    <3>2. ~Waking(u) /\ ~Waking(u)'
      BY Zenon, <3>1 DEF Waking
    <3> QED  BY Zenon, <1>1, <1>6, <2>1, <3>1, <3>2 DEF Asleep, SameBoot
  <2>2. CASE phase # "boot"
    BY <1>1, <2>2, StillAsleep
  <2> QED  BY <2>1, <2>2
<1>13. TypeOK'
  <2> USE DEF LifeInv, TypeOK
  <2>1. /\ ProcType' /\ StoreType' /\ TrackedType' /\ CountType'
        /\ StartsType' /\ LoopType' /\ WatchType' /\ RecoveryType'
    BY <1>1 DEF ProcType, StoreType, TrackedType, StartsType, LoopType, WatchType, CountType, RecoveryType
  <2>2. FlagsType'  BY Zenon, <1>1 DEF FlagsType
  <2> QED  BY <1>6, <1>8, <2>1, <2>2 DEF TypeOK
<1>14. ASSUME NEW u \in Tasks \ {t} PROVE TaskInv(u)'
  BY <1>1, <1>9, <1>12, <1>14, Frame DEF LifeInv
<1>15. TaskInv(t)'
  <2>1. ~Asleep(t) /\ ~Asleep(t)'
    <3>1. ~Asleep(t)
      <4>1. phase = "boot" => agent[Main].pc = "startTask" /\ t \notin agent[Main].left
        <5>1. phase = "boot" /\ agent[Main].pc = "startTask" => agent[Main].task \notin agent[Main].left
          BY DEF LifeInv, Phases
        <5> QED  BY <1>4, <1>5, <5>1
      <4>2. "startTask" # "startStack" /\ "startTask" \notin {"recover", "add"}
        OBVIOUS
      <4> QED  BY Zenon, <4>1, <4>2 DEF Asleep, Waking
    <3> QED  BY <1>12, <3>1 DEF SameBoot
  <2>2. mutex[t].at = "free"
    BY <1>7 DEF Free
  <2>3. TypeOK /\ TaskInv(t)
    BY DEF LifeInv
  <2> HIDE <1>3, <1>4, <1>5, <1>6, <1>7, <1>8, <1>10, <1>11, <1>12, <1>13, <1>14
  <2> USE <1>1, <1>2, <1>9, <2>1, <2>2, <2>3
  <2>4. Fresh(t)'  BY DEF TaskInv, Fresh
  <2>5. Single(t)'  BY DEF TaskInv, Single
  <2>s. Sorted(t)'  BY DEF TaskInv, Sorted
  <2>6. Launched(t)'  BY DEF TaskInv, Launched, Trying
  <2>7. Dormant(t)'  BY DEF Dormant
  <2>8. Known(t)'  BY DEF TaskInv, Known, Trying
  <2>9. Stored(t)'  BY DEF TaskInv, Stored, Trying
  <2>10. Cut(t)'  BY DEF TaskInv, Cut, Trying
  <2>11. Covered(t)'  BY DEF TaskInv, Covered, Attended, Trying
  <2> QED  BY <2>4, <2>5, <2>6, <2>7, <2>8, <2>9, <2>10, <2>11, <2>s DEF TaskInv
<1>p. Probed'
  <2>1. \A b \in Agents : agent'[b].pc \in {"recover", "add"} => agent'[b] = agent[b]
    BY <1>6
  <2> QED  BY <1>1, <2>1, ProbedFrame DEF LifeInv
<1> QED  BY <1>10, <1>11, <1>13, <1>14, <1>15, <1>p DEF LifeInv

\* How far sysd is with the other tasks when an agent moves within Recover of t.
LEMMA OthersSame ==
  ASSUME LifeInv, NEW a \in Agents, NEW u \in Tasks, agent[a].pc # "idle", phase' = phase,
         excused'[u] = excused[u], \A b \in Agents \ {a} : agent'[b] = agent[b] /\ recovery'[b] = recovery[b],
         agent[a].pc # "startStack", agent'[a].pc # "startStack",
         agent[a].pc \in {"recover", "add"} => agent[a].task # u,
         agent'[a].pc \in {"recover", "add"} => agent'[a].task # u,
         u \in agent'[a].left <=> u \in agent[a].left
  PROVE  SameBoot(u)
<1>1. CASE phase = "boot"
  <2>1. a = Main
    BY <1>1, OnlyMain
  <2>2. ~Waking(u) /\ ~Waking(u)'
    BY <2>1 DEF Waking
  <2> QED  BY Zenon, <1>1, <2>1, <2>2 DEF SameBoot, Asleep
<1>2. CASE phase # "boot"
  BY <1>2, StillAsleep
<1> QED  BY <1>1, <1>2

\* Sysd has come to t, and there is nothing of it left to recover.
LEMMA Wake ==
  ASSUME NEW t \in Tasks, TaskInv(t), open' <=> open,
         UNCHANGED <<proc, store, stopped, tracked, mutex, starts, loop, found, watching, excused>>,
         ~Asleep(t)',
         Asleep(t) => open /\ \A i \in Ids : ~(proc[t][i] = "alive" /\ i \notin excused[t])
  PROVE  TaskInv(t)'
<1>1. Fresh(t)'  BY DEF TaskInv, Fresh
<1>2. Single(t)'  BY DEF TaskInv, Single
<1>3. Launched(t)'  BY DEF TaskInv, Launched, Trying
<1>4. Dormant(t)'  BY DEF Dormant
<1>5. Known(t)'
  <2>1. CASE Asleep(t)
    <3>1. \A i \in Ids : loop[t][i] = "none"
      BY <2>1 DEF TaskInv, Dormant
    <3> QED  BY <2>1, <3>1 DEF Known, Trying
  <2>2. CASE ~Asleep(t)
    BY <2>2 DEF TaskInv, Known, Trying
  <2> QED  BY <2>1, <2>2
<1>6. Stored(t)'  BY DEF TaskInv, Stored, Trying
<1>7. Cut(t)'  BY DEF TaskInv, Cut, Trying
<1>8. Covered(t)'  BY DEF TaskInv, Covered, Attended, Trying
<1>9. Sorted(t)'  BY DEF TaskInv, Sorted
<1> QED  BY <1>1, <1>2, <1>3, <1>4, <1>5, <1>6, <1>7, <1>8, <1>9 DEF TaskInv

\* What an agent in Recover leaves alone.
LEMMA RecoverTypes ==
  ASSUME LifeInv, AgentType', RecoveryType',
         UNCHANGED <<world, phase, stackStopped, task, count>>
  PROVE  /\ TypeOK' /\ (open' <=> open) /\ phase' = phase
         /\ UNCHANGED <<proc, store, stopped, tracked, mutex, starts, loop, found, watching, excused>>
<1>1. /\ open' = open /\ phase' = phase /\ stackStopped' = stackStopped
      /\ UNCHANGED <<proc, store, stopped, tracked, mutex, starts, loop, found, watching, excused, persistent, requests, boots>>
  BY Zenon DEF world, task, count
<1>2. open' <=> open
  BY Zenon, <1>1
<1>3. FlagsType'
  BY Zenon, <1>1 DEF LifeInv, TypeOK, FlagsType
<1>4. ProcType' /\ StoreType' /\ TrackedType' /\ MutexType' /\ StartsType' /\ LoopType' /\ WatchType' /\ CountType'
  BY <1>1 DEF LifeInv, TypeOK, ProcType, StoreType, TrackedType, MutexType, StartsType, LoopType, WatchType, CountType
<1> QED  BY <1>1, <1>2, <1>3, <1>4 DEF TypeOK

LEMMA RecoverReadKeeps ==
  ASSUME LifeInv, phase # "exited", NEW a \in Agents, RecoverRead(a)
  PROVE  LifeInv'
<1>1. PICK t \in agent[a].left :
        /\ store[t].instanceIDs # {}
        /\ recovery' = [recovery EXCEPT ![a].ids = store[t].instanceIDs]
        /\ Turn(a, "recover", t, agent[a].left \ {t})
  BY DEF RecoverRead
<1>2. t \in Tasks /\ agent[a].left \ {t} \in SUBSET Tasks /\ "recover" \in Pc /\ "recover" \in BootPc
      /\ store[t].instanceIDs \in SUBSET Ids
  BY DEF LifeInv, TypeOK, AgentType, StoreType, Pc, BootPc
<1>3. agent[a].pc = "startTasks" /\ UNCHANGED <<world, phase, stackStopped, task, count>>
  BY DEF RecoverRead
<1>4. /\ AgentType' /\ agent'[a].pc = "recover" /\ agent'[a].task = t /\ agent'[a].left = agent[a].left \ {t}
      /\ \A b \in Agents \ {a} : agent'[b] = agent[b]
  BY <1>1, <1>2, TurnTaken DEF LifeInv, TypeOK
<1>5. /\ RecoveryType' /\ recovery'[a].ids = store[t].instanceIDs
      /\ \A b \in Agents \ {a} : recovery'[b] = recovery[b]
  BY <1>1, <1>2 DEF LifeInv, TypeOK, RecoveryType
<1>6. /\ TypeOK' /\ (open' <=> open) /\ phase' = phase
      /\ UNCHANGED <<proc, store, stopped, tracked, mutex, starts, loop, found, watching, excused>>
  BY <1>3, <1>4, <1>5, RecoverTypes
<1>7. phase = "boot" => a = Main
  BY <1>3, OnlyMain
<1>8. Phases' /\ Held'
  BY <1>1, <1>2, <1>3, <1>6, <1>7, TurnKeeps
<1>9. Probed'
  BY <1>2, <1>4, <1>5, <1>6 DEF LifeInv, Probed
<1>10. ASSUME NEW u \in Tasks \ {t} PROVE TaskInv(u)'
  <2>1. SameBoot(u)
    BY <1>3, <1>4, <1>5, <1>6, <1>10, OthersSame
  <2> QED  BY <1>6, <1>10, <2>1, Frame DEF LifeInv
<1>11. TaskInv(t)'
  <2>0. TaskInv(t)
    BY <1>2 DEF LifeInv
  <2>1. CASE phase # "boot"
    <3>1. SameBoot(t)
      BY <1>2, <1>6, <2>1, StillAsleep
    <3> QED  BY <1>2, <1>6, <2>0, <3>1, Frame
  <2>2. CASE phase = "boot"
    <3>1. a = Main /\ Asleep(t) /\ open
      BY Zenon, <1>7, <2>2 DEF Asleep, LifeInv, Phases
    <3>2. Waking(t)' /\ \A i \in Ids : Unrecovered(i)' <=> i \in store[t].instanceIDs
      <4>1. agent'[Main].pc # "add" /\ agent'[Main].pc \in {"recover", "add"} /\ agent'[Main].task = t /\ phase' = "boot"
        BY <1>4, <1>6, <2>2, <3>1
      <4> QED  BY Zenon, <1>5, <3>1, <4>1 DEF Waking, Unrecovered
    <3>3. CASE Asleep(t)'
      <4>1. phase' # "exited"
        BY <1>6, <2>2
      <4> USE <1>6, <2>0, <3>1, <3>2, <3>3, <4>1
      <4>2. Fresh(t)'  BY DEF TaskInv, Fresh
      <4>3. Single(t)'  BY DEF TaskInv, Single
      <4>4. Launched(t)'  BY DEF TaskInv, Launched, Trying
      <4>5. Dormant(t)'  BY DEF TaskInv, Dormant, Free
      <4>6. Known(t)'  BY DEF Known
      <4>7. Stored(t)'  BY DEF TaskInv, Stored, Trying
      <4>8. Cut(t)'  BY DEF TaskInv, Cut, Trying
      <4>9. Covered(t)'  BY DEF TaskInv, Covered, Attended, Trying
      <4>10. Sorted(t)'  BY DEF TaskInv, Sorted
      <4> QED  BY <4>2, <4>3, <4>4, <4>5, <4>6, <4>7, <4>8, <4>9, <4>10 DEF TaskInv
    <3>4. CASE ~Asleep(t)'
      <4>1. \A i \in Ids : i \in store[t].instanceIDs => i \in excused[t]
        <5>1. \A i \in Ids \ excused'[t] : ~Unrecovered(i)'
          BY Zenon, <3>2, <3>4 DEF Asleep
        <5> QED  BY <1>6, <3>2, <5>1
      <4>2. \A i \in Ids : ~(proc[t][i] = "alive" /\ i \notin excused[t])
        BY <2>0, <3>1, <4>1 DEF TaskInv, Dormant
      <4> QED  BY <1>2, <1>6, <2>0, <3>1, <3>4, <4>2, Wake
    <3> QED  BY <3>3, <3>4
  <2> QED  BY <2>1, <2>2
<1> QED  BY <1>6, <1>8, <1>9, <1>10, <1>11 DEF LifeInv

LEMMA RecoverProbeKeeps ==
  ASSUME LifeInv, phase # "exited", NEW a \in Agents, RecoverProbe(a)
  PROVE  LifeInv'
<1> DEFINE t == agent[a].task
<1>1. PICK i \in recovery[a].ids :
        /\ Recoverable(t, i)
        /\ recovery' = [recovery EXCEPT ![a] = [ids |-> recovery[a].ids \ {i}, inst |-> i]]
  BY DEF RecoverProbe
<1>2. /\ agent[a].pc = "recover" /\ Turn(a, "add", t, agent[a].left)
      /\ UNCHANGED <<world, phase, stackStopped, task, count>>
  BY DEF RecoverProbe, Move
<1>3. t \in Tasks /\ agent[a].left \in SUBSET Tasks /\ "add" \in Pc /\ "add" \in BootPc /\ i \in Ids /\ i \in 0..MaxExec
  BY <1>2, LifeBounds DEF LifeInv, TypeOK, AgentType, RecoveryType, Pc, BootPc, Probed, Ids
<1>4. /\ AgentType' /\ agent'[a].pc = "add" /\ agent'[a].task = t /\ agent'[a].left = agent[a].left
      /\ \A b \in Agents \ {a} : agent'[b] = agent[b]
  BY <1>2, <1>3, TurnTaken DEF LifeInv, TypeOK
<1>5. /\ RecoveryType' /\ recovery'[a].ids = recovery[a].ids \ {i} /\ recovery'[a].inst = i
      /\ \A b \in Agents \ {a} : recovery'[b] = recovery[b]
  BY <1>1, <1>3 DEF LifeInv, TypeOK, RecoveryType
<1>6. /\ TypeOK' /\ (open' <=> open) /\ phase' = phase
      /\ UNCHANGED <<proc, store, stopped, tracked, mutex, starts, loop, found, watching, excused>>
  BY <1>2, <1>4, <1>5, RecoverTypes
<1>7. phase = "boot" => a = Main /\ agent[Main].task \notin agent[Main].left
  BY <1>2, OnlyMain DEF LifeInv, Phases
<1>8. Phases' /\ Held'
  BY <1>2, <1>3, <1>6, <1>7, TurnKeeps
<1>9. Probed'
  BY <1>1, <1>3, <1>4, <1>5, <1>6 DEF LifeInv, Probed, Recoverable
<1>10. ASSUME NEW u \in Tasks PROVE SameBoot(u)
  <2>1. CASE phase # "boot"
    BY <1>6, <2>1, StillAsleep
  <2>2. CASE phase = "boot"
    <3>1. a = Main
      BY <1>7, <2>2
    <3>2. agent[Main].pc \in {"recover", "add"} /\ agent'[Main].pc \in {"recover", "add"}
          /\ agent[Main].pc # "startStack" /\ agent'[Main].pc # "startStack"
          /\ agent[Main].pc # "add" /\ agent'[Main].pc = "add"
      BY <1>2, <1>4, <3>1
    <3>3. Waking(u)' <=> Waking(u)
      BY Zenon, <1>4, <1>6, <3>1, <3>2 DEF Waking
    <3>4. \A j \in Ids : Unrecovered(j)' <=> Unrecovered(j)
      <4>1. \A j \in Ids : j \in recovery'[Main].ids \/ j = recovery'[Main].inst <=> j \in recovery[Main].ids
        BY <1>5, <3>1
      <4> QED  BY Zenon, <3>2, <4>1 DEF Unrecovered
    <3>5. Asleep(u)' <=> Asleep(u)
      BY Zenon, <1>4, <1>6, <3>1, <3>2, <3>3, <3>4 DEF Asleep
    <3> QED  BY <3>3, <3>4, <3>5 DEF SameBoot
  <2> QED  BY <2>1, <2>2
<1>11. ASSUME NEW u \in Tasks PROVE TaskInv(u)'
  BY <1>6, <1>10, Frame DEF LifeInv
<1> QED  BY <1>6, <1>8, <1>9, <1>11 DEF LifeInv

LEMMA RecoverFailsKeeps ==
  ASSUME LifeInv, phase # "exited", NEW a \in Agents, RecoverFails(a)
  PROVE  LifeInv'
<1> DEFINE Next1(t) == IF t \in Services THEN "startTask" ELSE "startTasks"
<1>1. PICK t \in Tasks :
        /\ \/ /\ agent[a].pc = "startTasks" /\ t \in agent[a].left
              /\ ~open \/ store[t].instanceIDs = {}
           \/ /\ At(a, "recover", t)
              /\ ~open \/ \E i \in recovery[a].ids : ~Recoverable(t, i)
        /\ Turn(a, Next1(t), t, agent[a].left \ {t})
  BY DEF RecoverFails
<1>2. PICK pc \in {"startTasks", "startTask"} : pc = Next1(t)
  OBVIOUS
<1>3. /\ Turn(a, pc, t, agent[a].left \ {t}) /\ agent[a].pc \in {"startTasks", "recover"}
      /\ recovery' = [recovery EXCEPT ![a] = NotRecovering]
      /\ UNCHANGED <<world, phase, stackStopped, task, count>>
  BY <1>1, <1>2 DEF RecoverFails, At
<1>4. agent[a].left \ {t} \in SUBSET Tasks /\ pc \in Pc /\ pc \in BootPc /\ store[t].instanceIDs \subseteq Ids
      /\ recovery[a].ids \subseteq Ids
  BY DEF LifeInv, TypeOK, AgentType, RecoveryType, StoreType, Pc, BootPc
<1>5. /\ AgentType' /\ agent'[a].pc = pc /\ agent'[a].task = t /\ agent'[a].left = agent[a].left \ {t}
      /\ \A b \in Agents \ {a} : agent'[b] = agent[b]
  BY <1>3, <1>4, TurnTaken DEF LifeInv, TypeOK
<1>6. RecoveryType' /\ \A b \in Agents \ {a} : recovery'[b] = recovery[b]
  BY <1>3, LifeBounds DEF LifeInv, TypeOK, RecoveryType, NotRecovering
<1>7. /\ TypeOK' /\ (open' <=> open) /\ phase' = phase
      /\ UNCHANGED <<proc, store, stopped, tracked, mutex, starts, loop, found, watching, excused>>
  BY <1>3, <1>5, <1>6, RecoverTypes
<1>8. phase = "boot" => a = Main
  BY <1>3, OnlyMain
<1>9. Phases' /\ Held'
  BY <1>3, <1>4, <1>7, <1>8, TurnKeeps
<1>10. Probed'
  BY <1>5, <1>6, <1>7 DEF LifeInv, Probed
<1>11. ASSUME NEW u \in Tasks \ {t} PROVE TaskInv(u)'
  <2>1. agent[a].pc \in {"recover", "add"} => agent[a].task # u
    BY <1>1, <1>11 DEF At
  <2>2. SameBoot(u)
    BY <1>3, <1>5, <1>6, <1>7, <1>11, <2>1, OthersSame
  <2> QED  BY <1>7, <1>11, <2>2, Frame DEF LifeInv
<1>12. TaskInv(t)'
  <2>0. TaskInv(t)
    BY DEF LifeInv
  <2>1. CASE phase # "boot"
    <3>1. SameBoot(t)
      BY <1>7, <2>1, StillAsleep
    <3> QED  BY <1>7, <2>0, <2>1, <3>1, Frame
  <2>2. CASE phase = "boot"
    <3>1. a = Main /\ open
      BY Zenon, <1>8, <2>2 DEF LifeInv, Phases
    <3>2. ~Asleep(t)'
      <4>1. /\ agent'[Main].pc \notin {"recover", "add", "startStack"} /\ t \notin agent'[Main].left
            /\ phase' # "exited"
        BY <1>5, <1>7, <2>2, <3>1
      <4> QED  BY Zenon, <4>1 DEF Asleep, Waking
    <3>3. ASSUME Asleep(t), NEW i \in Ids, proc[t][i] = "alive", i \notin excused[t] PROVE FALSE
      <4>1. /\ i \in store[t].instanceIDs /\ i \in store[t].pid
            /\ Waking(t) => Unrecovered(i)
        BY <2>0, <3>3 DEF TaskInv, Dormant
      <4>2. At(a, "recover", t) /\ \E j \in recovery[a].ids : ~Recoverable(t, j)
        BY <1>1, <3>1, <4>1
      <4>3. PICK j \in recovery[a].ids : ~Recoverable(t, j)
        BY <4>2
      <4>4. Waking(t) /\ Unrecovered(j) /\ j \in Ids
        BY <1>4, <2>2, <3>1, <4>2 DEF Waking, Unrecovered, At
      <4>5. j \in store[t].instanceIDs
        BY <2>0, <3>3, <4>4 DEF TaskInv, Dormant
      <4>6. i = j
        BY <2>0, <3>3, <4>1, <4>5 DEF TaskInv, Sorted
      <4> QED  BY <3>3, <4>1, <4>3, <4>6 DEF Recoverable
    <3> QED  BY <1>7, <2>0, <3>1, <3>2, <3>3, Wake
  <2> QED  BY <2>1, <2>2
<1> QED  BY <1>7, <1>9, <1>10, <1>11, <1>12 DEF LifeInv

\* Recover adds i, which it probed, to the instances of t.
LEMMA AddedKeeps ==
  ASSUME TypeOK, NEW t \in Tasks, TaskInv(t), NEW i \in Ids, i \in store[t].pid, open' <=> open,
         UNCHANGED <<proc, store, stopped, mutex, starts, loop, watching>>,
         tracked'[t] = tracked[t] \cup {i},
         \A j \in Ids : found'[t][j] = IF j = i THEN found[t][j] + 1 ELSE found[t][j],
         excused'[t] = IF Relisted(t, i) THEN excused[t] \cup {i} ELSE excused[t],
         ~Asleep(t)',
         Asleep(t) => open /\ \A j \in Ids : proc[t][j] = "alive" /\ j \notin excused[t] =>
                          j = i /\ i \in store[t].instanceIDs
  PROVE  TaskInv(t)'
<1>1. /\ tracked[t] \subseteq Ids /\ excused[t] \subseteq Ids /\ store[t].instanceIDs \subseteq Ids
      /\ \A j \in Ids : found[t][j] \in Nat /\ watching[t][j] \in Nat
  BY DEF TypeOK, TrackedType, CountType, StoreType, WatchType
<1>2. excused[t] \subseteq excused'[t]
  OBVIOUS
<1>3. ~Trying(t, i) /\ i <= store[t].execCount
  BY <1>1 DEF TaskInv, Launched, Fresh, TypeOK, StoreType, Ids
<1>4. Asleep(t) => /\ tracked[t] = {} /\ mutex[t].at = "free" /\ starts[t] = 0
                   /\ \A j \in Ids : loop[t][j] = "none" /\ found[t][j] = 0 /\ watching[t][j] = 0
  BY DEF TaskInv, Dormant, Free
<1>5. ~Asleep(t) => i \in tracked[t] \/ i \in excused'[t]
  BY DEF TaskInv, Known, Relisted
<1>6. Fresh(t)'
  <2>1. \A j \in Ids : j > store[t].execCount => j # i
    BY <1>3 DEF Ids, TypeOK, StoreType
  <2> QED  BY <2>1 DEF TaskInv, Fresh
<1>7. Single(t)'
  <2>1. CASE Asleep(t)
    BY <1>2, <1>4, <2>1 DEF TaskInv, Single
  <2>2. CASE ~Asleep(t)
    BY <1>2, <1>5, <2>2 DEF TaskInv, Single
  <2> QED  BY <2>1, <2>2
<1>8. Sorted(t)'
  BY <1>2 DEF TaskInv, Sorted
<1>9. Launched(t)'
  BY <1>1, <1>3 DEF TaskInv, Launched, Trying
<1>10. Dormant(t)'
  BY DEF Dormant
<1>11. Known(t)'
  BY <1>2, <1>4 DEF TaskInv, Known, Trying
<1>12. Stored(t)'
  <2>1. CASE Asleep(t)
    BY <1>2, <1>4, <2>1 DEF Stored, Trying
  <2>2. CASE ~Asleep(t)
    <3>1. proc[t][i] = "alive" /\ i \notin excused'[t] => i \in tracked[t]
      BY <1>5, <2>2
    <3> QED  BY <1>2, <1>3, <3>1 DEF TaskInv, Stored, Trying
  <2> QED  BY <2>1, <2>2
<1>13. Cut(t)'
  BY <1>2 DEF TaskInv, Cut, Trying
<1>14. Covered(t)'
  <2>1. \A j \in Ids : (Attended(t, j) => Attended(t, j)') /\ Attended(t, i)'
    BY <1>1 DEF Attended, Trying
  <2> QED  BY <1>1, <2>1 DEF TaskInv, Covered
<1> QED  BY <1>6, <1>7, <1>8, <1>9, <1>10, <1>11, <1>12, <1>13, <1>14 DEF TaskInv

LEMMA RecoverAddKeeps ==
  ASSUME LifeInv, phase # "exited", NEW a \in Agents, RecoverAdd(a)
  PROVE  LifeInv'
<1>1. PICK t : t = agent[a].task
  OBVIOUS
<1>2. PICK i : i = recovery[a].inst
  OBVIOUS
<1>3. PICK pc \in {"startTasks", "recover"} : pc = IF recovery[a].ids = {} THEN "startTasks" ELSE "recover"
  OBVIOUS
<1>4. agent[a].pc = "add" /\ t \in Tasks /\ i \in Ids /\ i \in store[t].pid /\ i \notin recovery[a].ids
  BY <1>1, <1>2 DEF RecoverAdd, LifeInv, Probed
<1>5. /\ Track(t, i) /\ Turn(a, pc, t, agent[a].left)
      /\ excused' = IF Relisted(t, i) THEN [excused EXCEPT ![t] = @ \cup {i}] ELSE excused
      /\ recovery' = [recovery EXCEPT ![a].inst = 0]
      /\ UNCHANGED <<proc, store, stopped, mutex, starts, loop, watching, persistent, requests, boots>>
  BY <1>1, <1>2, <1>3 DEF RecoverAdd, Move, world
<1>6. open' = open /\ phase' = phase /\ stackStopped' = stackStopped /\ stopped' = stopped
  BY Zenon DEF RecoverAdd, world
<1>7. (open' <=> open) /\ FlagsType'
  BY Zenon, <1>6 DEF LifeInv, TypeOK, FlagsType
<1>8. agent[a].left \in SUBSET Tasks /\ pc \in Pc /\ pc \in BootPc
  BY DEF LifeInv, TypeOK, AgentType, Pc, BootPc
<1>9. /\ AgentType' /\ agent'[a].pc = pc /\ agent'[a].task = t /\ agent'[a].left = agent[a].left
      /\ \A b \in Agents \ {a} : agent'[b] = agent[b]
  BY <1>4, <1>5, <1>8, TurnTaken DEF LifeInv, TypeOK
<1>10. /\ RecoveryType' /\ recovery'[a].ids = recovery[a].ids
       /\ \A b \in Agents \ {a} : recovery'[b] = recovery[b]
  BY <1>5, LifeBounds DEF LifeInv, TypeOK, RecoveryType
<1>11. phase = "boot" => a = Main /\ agent[Main].task \notin agent[Main].left
  BY <1>4, OnlyMain DEF LifeInv, Phases
<1>12. Phases' /\ Held'
  BY <1>1, <1>4, <1>5, <1>6, <1>7, <1>8, <1>11, TurnKeeps
<1>13. Probed'
  BY <1>4, <1>5, <1>9, <1>10 DEF LifeInv, Probed
<1>14. /\ tracked'[t] = tracked[t] \cup {i}
       /\ \A j \in Ids : found'[t][j] = IF j = i THEN found[t][j] + 1 ELSE found[t][j]
       /\ excused'[t] = IF Relisted(t, i) THEN excused[t] \cup {i} ELSE excused[t]
       /\ \A u \in Tasks \ {t} : tracked'[u] = tracked[u] /\ found'[u] = found[u] /\ excused'[u] = excused[u]
  BY <1>4, <1>5 DEF Track, LifeInv, TypeOK, TrackedType, WatchType, CountType
<1>15. TypeOK'
  <2> USE DEF LifeInv, TypeOK
  <2>1. ProcType' /\ StoreType' /\ MutexType' /\ StartsType' /\ LoopType'
    BY <1>5 DEF ProcType, StoreType, MutexType, StartsType, LoopType
  <2>2. TrackedType'
    BY <1>4, <1>5 DEF Track, TrackedType
  <2>3. WatchType'
    BY <1>4, <1>5 DEF Track, WatchType
  <2>4. CountType'
    BY <1>4, <1>5 DEF CountType
  <2> QED  BY <1>7, <1>9, <1>10, <2>1, <2>2, <2>3, <2>4 DEF TypeOK
<1>16. ASSUME NEW u \in Tasks \ {t} PROVE TaskInv(u)'
  <2>1. SameBoot(u)
    BY <1>1, <1>4, <1>6, <1>9, <1>10, <1>14, <1>16, OthersSame
  <2> QED  BY <1>5, <1>6, <1>7, <1>14, <1>16, <2>1, Frame DEF LifeInv
<1>17. TaskInv(t)'
  <2>0. TaskInv(t) /\ TypeOK
    BY <1>4 DEF LifeInv
  <2>1. CASE phase # "boot"
    <3>1. ~Asleep(t) /\ ~Asleep(t)'
      BY Zenon, <1>6, <2>1 DEF Asleep, Waking
    <3> HIDE <1>1, <1>2, <1>3, <1>6, <1>8, <1>9, <1>10, <1>11, <1>12, <1>13, <1>15, <1>16
    <3> QED  BY <1>4, <1>5, <1>7, <1>14, <2>0, <3>1, AddedKeeps
  <2>2. CASE phase = "boot"
    <3>1. a = Main /\ open /\ t \notin agent[Main].left /\ agent[Main].task = t /\ agent[Main].pc = "add"
      BY <1>1, <1>4, <1>11, <2>2 DEF LifeInv, Phases
    <3>2. Waking(t) /\ Unrecovered(i) /\ \A j \in Ids : Unrecovered(j) <=> j \in recovery[Main].ids \/ j = i
      BY <1>2, <2>2, <3>1 DEF Waking, Unrecovered
    <3>3. ASSUME Asleep(t), NEW j \in Ids, Unrecovered(j) PROVE j \in store[t].instanceIDs
      BY <2>0, <3>2, <3>3 DEF TaskInv, Dormant
    <3>4. ASSUME Asleep(t), NEW j \in Ids, j \notin excused[t], Unrecovered(j) PROVE j = i
      BY <1>4, <2>0, <3>2, <3>3, <3>4 DEF TaskInv, Sorted
    <3>5. ~Asleep(t)'
      <4>1. ASSUME NEW j \in Ids, j \notin excused'[t], j \in recovery[Main].ids PROVE FALSE
        <5>1. j \notin excused[t] /\ Unrecovered(j) /\ j # i
          BY <1>4, <1>14, <3>1, <3>2, <4>1
        <5>2. Asleep(t)
          BY <3>2, <4>1, <5>1 DEF Asleep
        <5> QED  BY <3>4, <5>1, <5>2
      <4>2. /\ agent'[Main].pc # "startStack" /\ agent'[Main].pc # "add" /\ t \notin agent'[Main].left
            /\ phase' # "exited" /\ recovery'[Main].ids = recovery[Main].ids
        BY <1>6, <1>9, <1>10, <2>2, <3>1
      <4>3. \A j \in Ids \ excused'[t] : ~Unrecovered(j)'
        BY <4>1, <4>2 DEF Unrecovered
      <4> QED  BY Zenon, <4>2, <4>3 DEF Asleep
    <3>6. ASSUME Asleep(t), NEW j \in Ids, proc[t][j] = "alive", j \notin excused[t]
          PROVE  j = i /\ i \in store[t].instanceIDs
      <4>1. Unrecovered(j)
        BY <2>0, <3>2, <3>6 DEF TaskInv, Dormant
      <4> QED  BY <1>4, <3>2, <3>3, <3>4, <3>6, <4>1
    <3> HIDE <1>1, <1>2, <1>3, <1>6, <1>8, <1>9, <1>10, <1>11, <1>12, <1>13, <1>15, <1>16
    <3> QED  BY <1>4, <1>5, <1>7, <1>14, <2>0, <3>1, <3>5, <3>6, AddedKeeps
  <2> QED  BY <2>1, <2>2
<1> QED  BY <1>12, <1>13, <1>15, <1>16, <1>17 DEF LifeInv

LEMMA StopTaskKeeps ==
  ASSUME LifeInv, phase # "exited", NEW a \in Agents, StopTask(a)
  PROVE  LifeInv'
<1>1. PICK t \in agent[a].left :
        stopped' = [stopped EXCEPT ![t] = TRUE] /\ Turn(a, "kill", t, agent[a].left \ {t})
  BY Zenon DEF StopTask
<1>2. t \in Tasks /\ agent[a].left \ {t} \in SUBSET Tasks /\ "kill" \in Pc
  BY DEF LifeInv, TypeOK, AgentType, Pc
<1>3. /\ agent[a].pc = "stopTasks" /\ phase' = phase
      /\ UNCHANGED <<proc, store, tracked, mutex, starts, loop, found, watching, persistent, excused, requests, boots, recovery>>
  BY DEF StopTask, world, count
<1>4. (open' <=> open) /\ FlagsType'
  BY Zenon, <1>1, <1>2 DEF StopTask, world, LifeInv, TypeOK, FlagsType
<1>5. phase # "boot"
  BY <1>3, OnlyMain DEF LifeInv, Phases, BootPc
<1>6. AgentType' /\ Phases' /\ Held'
  BY <1>1, <1>2, <1>3, <1>4, <1>5, TurnKeeps
<1>7. TypeOK'
  <2> USE DEF LifeInv, TypeOK
  <2>1. /\ ProcType' /\ StoreType' /\ TrackedType' /\ MutexType'
        /\ StartsType' /\ LoopType' /\ WatchType' /\ CountType' /\ RecoveryType'
    BY <1>3 DEF ProcType, StoreType, TrackedType, MutexType, StartsType, LoopType, WatchType, CountType, RecoveryType
  <2> QED  BY <1>4, <1>6, <2>1 DEF TypeOK
<1>8. \A u \in Tasks : SameBoot(u) /\ ~Asleep(u) /\ ~Asleep(u)'
  <2>1. \A u \in Tasks : SameBoot(u)
    BY <1>3, <1>5, StillAsleep
  <2> QED  BY Zenon, <1>3, <1>5, <2>1 DEF Asleep, Waking
<1>9. ASSUME NEW u \in Tasks \ {t} PROVE TaskInv(u)'
  <2>1. stopped'[u] = stopped[u]
    BY Zenon, <1>1, <1>9 DEF LifeInv, TypeOK, FlagsType
  <2> QED  BY <1>3, <1>4, <1>8, <1>9, <2>1, Frame DEF LifeInv
<1>10. TaskInv(t)'
  <2>1. stopped'[t] = TRUE
    BY Zenon, <1>1, <1>2 DEF LifeInv, TypeOK, FlagsType
  <2>2. TaskInv(t) /\ ~Asleep(t) /\ ~Asleep(t)'
    BY <1>2, <1>8 DEF LifeInv
  <2> USE <1>3, <1>4, <2>1, <2>2
  <2>3. Fresh(t)'  BY DEF TaskInv, Fresh
  <2>4. Single(t)'  BY DEF TaskInv, Single
  <2>s. Sorted(t)'  BY DEF TaskInv, Sorted
  <2>5. Launched(t)'  BY DEF TaskInv, Launched, Trying
  <2>6. Dormant(t)'  BY DEF Dormant
  <2>7. Known(t)'  BY DEF TaskInv, Known, Trying
  <2>8. Stored(t)'  BY DEF TaskInv, Stored, Trying
  <2>9. Cut(t)'  BY DEF TaskInv, Cut, Trying
  <2>10. Covered(t)'  BY DEF TaskInv, Covered, Attended, Trying
  <2> QED  BY <2>3, <2>4, <2>5, <2>6, <2>7, <2>8, <2>9, <2>10, <2>s DEF TaskInv
<1>p. Probed'
  <2>1. \A b \in Agents : agent'[b].pc \in {"recover", "add"} => agent'[b] = agent[b]
    BY <1>1, <1>2, TurnTaken DEF LifeInv, TypeOK
  <2> QED  BY <1>3, <2>1, ProbedFrame DEF LifeInv
<1> QED  BY <1>6, <1>7, <1>9, <1>10, <1>p DEF LifeInv

LEMMA KillKeeps ==
  ASSUME LifeInv, phase # "exited", NEW a \in Agents, Kill(a)
  PROVE  LifeInv'
<1>1. PICK t \in Tasks, spared \in SUBSET Wayward :
        /\ At(a, "kill", t)
        /\ proc' = [proc EXCEPT ![t] = [i \in Ids |->
                     IF i \in tracked[t] \ spared /\ @[i] = "alive" THEN "dead" ELSE @[i]]]
  BY DEF Kill
<1>2. agent[a].pc = "kill" /\ agent[a].left \in SUBSET Tasks /\ "stopTasks" \in Pc
      /\ Turn(a, "stopTasks", t, agent[a].left)
  BY <1>1 DEF LifeInv, TypeOK, AgentType, Pc, Kill, Move, At
<1>3. /\ phase' = phase
      /\ UNCHANGED <<store, stopped, tracked, mutex, starts, loop, found, watching, persistent, excused, requests, boots, recovery>>
  BY DEF Kill, task, count
<1>4. (open' <=> open) /\ FlagsType'
  BY Zenon DEF Kill, task, LifeInv, TypeOK, FlagsType
<1>5. phase # "boot"
  BY <1>2, OnlyMain DEF LifeInv, Phases, BootPc
<1>6. AgentType' /\ Phases' /\ Held'
  BY <1>2, <1>3, <1>4, <1>5, TurnKeeps
<1>7. TypeOK'
  <2> USE DEF LifeInv, TypeOK
  <2>1. ProcType'
    BY <1>1 DEF ProcType
  <2>2. /\ StoreType' /\ TrackedType' /\ MutexType'
        /\ StartsType' /\ LoopType' /\ WatchType' /\ CountType' /\ RecoveryType'
    BY <1>3 DEF StoreType, TrackedType, MutexType, StartsType, LoopType, WatchType, CountType, RecoveryType
  <2> QED  BY <1>4, <1>6, <2>1, <2>2 DEF TypeOK
<1>8. \A u \in Tasks : SameBoot(u) /\ ~Asleep(u) /\ ~Asleep(u)'
  <2>1. \A u \in Tasks : SameBoot(u)
    BY <1>3, <1>5, StillAsleep
  <2> QED  BY Zenon, <1>3, <1>5, <2>1 DEF Asleep, Waking
<1>9. ASSUME NEW u \in Tasks \ {t} PROVE TaskInv(u)'
  <2>1. proc'[u] = proc[u]
    BY <1>1, <1>9 DEF LifeInv, TypeOK, ProcType
  <2> QED  BY <1>3, <1>4, <1>8, <1>9, <2>1, Frame DEF LifeInv
<1>10. TaskInv(t)'
  <2>1. \A i \in Ids : proc'[t][i] = IF i \in tracked[t] \ spared /\ proc[t][i] = "alive" THEN "dead" ELSE proc[t][i]
    BY <1>1 DEF LifeInv, TypeOK, ProcType
  <2>2. TaskInv(t) /\ ~Asleep(t) /\ ~Asleep(t)' /\ tracked[t] \subseteq Ids
    BY <1>8 DEF LifeInv, TypeOK, TrackedType
  <2> USE <1>3, <1>4, <2>1, <2>2
  <2>3. Fresh(t)'  BY DEF TaskInv, Fresh
  <2>4. Single(t)'  BY DEF TaskInv, Single
  <2>s. Sorted(t)'  BY DEF TaskInv, Sorted
  <2>5. Launched(t)'  BY DEF TaskInv, Launched, Trying
  <2>6. Dormant(t)'  BY DEF Dormant
  <2>7. Known(t)'  BY DEF TaskInv, Known, Trying
  <2>8. Stored(t)'  BY DEF TaskInv, Stored, Trying
  <2>9. Cut(t)'  BY DEF TaskInv, Cut, Trying
  <2>10. Covered(t)'  BY DEF TaskInv, Covered, Attended, Trying
  <2> QED  BY <2>3, <2>4, <2>5, <2>6, <2>7, <2>8, <2>9, <2>10, <2>s DEF TaskInv
<1>p. Probed'
  <2>1. \A b \in Agents : agent'[b].pc \in {"recover", "add"} => agent'[b] = agent[b]
    BY <1>2, TurnTaken, TasksAssumption DEF LifeInv, TypeOK
  <2> QED  BY <1>3, <2>1, ProbedFrame DEF LifeInv
<1> QED  BY <1>6, <1>7, <1>9, <1>10, <1>p DEF LifeInv

-----------------------------------------------------------------------------
(* Sysd                                                                     *)

LEMMA ServeKeeps ==
  ASSUME LifeInv, Serve
  PROVE  LifeInv'
<1>1. /\ phase = "boot" /\ phase' = "serving" /\ stackStopped' = stackStopped
      /\ agent[Main].pc \in {"startTasks", "stopTasks"} /\ agent[Main].left = {}
      /\ UNCHANGED <<proc, store, stopped, tracked, mutex, starts, loop, found, watching, persistent, excused, requests, boots, recovery>>
  BY DEF Serve, Done, world, task, count
<1>2. open' = open
  BY Zenon DEF Serve, world
<1>3. Main \in Agents /\ Idle.pc = "idle" /\ Turn(Main, "idle", NoTask, {}) /\ "idle" \in Pc
  BY DEF Serve, Agents, Idle, Turn, Pc
<1>4. /\ AgentType' /\ agent'[Main].pc = "idle"
      /\ \A b \in Agents \ {Main} : agent'[b] = agent[b]
  BY <1>3, TurnTaken DEF LifeInv, TypeOK
<1>5. Held'
  BY <1>1, <1>4, HeldFrame DEF LifeInv
<1>6. open
  BY <1>1 DEF LifeInv, Phases
<1>7. Phases'
  <2>1. open'
    BY Zenon, <1>2, <1>6
  <2> QED  BY <1>1, <1>4, <2>1 DEF Phases
<1>8. ASSUME NEW u \in Tasks PROVE SameBoot(u)
  <2>1. agent[Main].pc \notin {"startStack", "recover", "add"}
    BY <1>1
  <2>2. ~Waking(u) /\ ~Waking(u)'
    BY <1>1, <2>1 DEF Waking
  <2> QED  BY <1>1, <2>1, <2>2 DEF Asleep, SameBoot
<1>9. phase' \in Phase /\ stackStopped' \in BOOLEAN
  BY Zenon, <1>1 DEF LifeInv, TypeOK, FlagsType, Phase
<1>10. CountType' /\ RecoveryType'
  BY <1>1 DEF LifeInv, TypeOK, CountType, RecoveryType
<1>11. phase' # "exited"
  BY <1>1
<1>p. Probed'
  BY <1>1, <1>4, ProbedFrame DEF LifeInv
<1> QED  BY Zenon, <1>1, <1>2, <1>4, <1>5, <1>7, <1>8, <1>9, <1>10, <1>11, <1>p, AgentOnly

LEMMA SignalKeeps ==
  ASSUME LifeInv, Signal
  PROVE  LifeInv'
<1>1. /\ phase = "serving" /\ phase' = "stopping" /\ stackStopped' = stackStopped
      /\ Move(Main, "stopStack")
      /\ UNCHANGED <<proc, store, stopped, tracked, mutex, starts, loop, found, watching, persistent, excused, requests, boots, recovery>>
  BY DEF Signal, world, task, count
<1>2. open' = open
  BY Zenon DEF Signal, world
<1>3. /\ Main \in Agents /\ "stopStack" \in Pc
      /\ agent[Main].task \in Tasks \cup {NoTask} /\ agent[Main].left \in SUBSET Tasks
  BY DEF Agents, Pc, LifeInv, TypeOK, AgentType
<1>4. /\ AgentType' /\ agent'[Main].pc = "stopStack"
      /\ \A b \in Agents \ {Main} : agent'[b] = agent[b]
  BY <1>1, <1>3, TurnTaken DEF LifeInv, TypeOK, Move
<1>5. agent[Main].pc = "idle" /\ open
  BY <1>1 DEF LifeInv, Phases
<1>6. Held'
  BY <1>1, <1>4, <1>5, HeldFrame DEF LifeInv
<1>7. Phases'
  <2>1. open'
    BY Zenon, <1>2, <1>5
  <2> QED  BY <1>1, <2>1 DEF Phases
<1>8. ASSUME NEW u \in Tasks PROVE SameBoot(u)
  BY <1>1 DEF Asleep, Waking, SameBoot
<1>9. phase' \in Phase /\ stackStopped' \in BOOLEAN
  BY Zenon, <1>1 DEF LifeInv, TypeOK, FlagsType, Phase
<1>10. CountType' /\ RecoveryType'
  BY <1>1 DEF LifeInv, TypeOK, CountType, RecoveryType
<1>11. phase' # "exited"
  BY <1>1
<1>p. Probed'
  BY <1>1, <1>4, ProbedFrame DEF LifeInv
<1> QED  BY Zenon, <1>1, <1>2, <1>4, <1>6, <1>7, <1>8, <1>9, <1>10, <1>11, <1>p, AgentOnly

LEMMA CloseStoresKeeps ==
  ASSUME LifeInv, CloseStores
  PROVE  LifeInv'
<1>1. /\ phase = "stopping" /\ phase' = "closed" /\ ~open'
      /\ agent[Main].pc \in {"startTasks", "stopTasks"} /\ excused' = CutOff
      /\ UNCHANGED <<proc, store, stopped, tracked, mutex, starts, loop, found, watching, persistent, requests, boots, recovery>>
  BY DEF CloseStores, Done, task
<1>2. FlagsType'
  BY Zenon DEF CloseStores, task, LifeInv, TypeOK, FlagsType, Phase
<1>3. Main \in Agents /\ Idle.pc = "idle" /\ Turn(Main, "idle", NoTask, {}) /\ "idle" \in Pc
  BY DEF CloseStores, Agents, Idle, Turn, Pc
<1>4. /\ AgentType' /\ agent'[Main].pc = "idle"
      /\ \A b \in Agents \ {Main} : agent'[b] = agent[b]
  BY <1>3, TurnTaken DEF LifeInv, TypeOK
<1>5. Held'
  BY <1>1, <1>4, HeldFrame DEF LifeInv
<1>6. open
  BY <1>1 DEF LifeInv, Phases
<1>7. Phases'
  BY <1>1, <1>4 DEF Phases
<1>8. \A t \in Tasks : excused'[t] = excused[t] \cup Unfinished(t) \cup PassedOver(t)
  BY <1>1, <1>6 DEF CutOff
<1>9. TypeOK'
  <2> USE DEF LifeInv, TypeOK
  <2>1. CountType'
    BY <1>1 DEF CountType, CutOff, Unfinished, PassedOver, StoreType
  <2>2. /\ ProcType' /\ StoreType' /\ TrackedType' /\ MutexType'
        /\ StartsType' /\ LoopType' /\ WatchType' /\ RecoveryType'
    BY <1>1 DEF RecoveryType, ProcType, StoreType, TrackedType, MutexType, StartsType, LoopType, WatchType
  <2> QED  BY <1>2, <1>4, <2>1, <2>2 DEF TypeOK
<1>10. ASSUME NEW t \in Tasks PROVE TaskInv(t)'
  <2>1. ~Asleep(t) /\ ~Asleep(t)' /\ TaskInv(t) /\ tracked[t] \subseteq Ids /\ store[t].instanceIDs \subseteq Ids
    BY <1>1 DEF Asleep, Waking, LifeInv, TypeOK, TrackedType, StoreType
  <2>2. \A i \in Ids : i \in excused'[t] <=>
           \/ i \in excused[t]
           \/ Trying(t, i)
           \/ mutex[t].at = "persist" /\ i \in tracked[t] \ store[t].instanceIDs
           \/ i \in store[t].instanceIDs /\ store[t].instanceIDs \cap excused[t] # {}
    <3>1. \A i \in Ids : i \in Unfinished(t) <=>
             \/ Trying(t, i)
             \/ mutex[t].at = "persist" /\ i \in tracked[t] \ store[t].instanceIDs
      BY DEF Unfinished, Trying
    <3>2. \A i \in Ids : i \in PassedOver(t) <=>
             i \in store[t].instanceIDs /\ store[t].instanceIDs \cap excused[t] # {}
      BY DEF PassedOver
    <3> QED  BY <1>8, <3>1, <3>2
  <2>a. \A i \in excused[t] : i \in excused'[t]
    BY <1>8
  <2>b. UNCHANGED <<proc, store, stopped, tracked, mutex, starts, loop, found, watching>> /\ ~open'
    BY <1>1
  <2> USE <1>6, <2>1, <2>2, <2>a, <2>b
  <2>3. Fresh(t)'  BY DEF TaskInv, Fresh, Trying
  <2>4. Single(t)'  BY DEF TaskInv, Single
  <2>s. Sorted(t)'  BY DEF TaskInv, Sorted, Single
  <2>5. Launched(t)'  BY DEF TaskInv, Launched, Trying
  <2>6. Dormant(t)'  BY DEF Dormant
  <2>7. Known(t)'  BY DEF TaskInv, Known, Trying
  <2>8. Stored(t)'  BY DEF TaskInv, Stored, Trying
  <2>9. Cut(t)'  BY DEF TaskInv, Cut, Launched, Trying
  <2>10. Covered(t)'  BY DEF TaskInv, Covered, Attended, Trying
  <2> QED  BY <2>3, <2>4, <2>5, <2>6, <2>7, <2>8, <2>9, <2>10, <2>s DEF TaskInv
<1>p. Probed'
  BY <1>1, <1>4, ProbedFrame DEF LifeInv
<1> QED  BY <1>5, <1>7, <1>9, <1>10, <1>p DEF LifeInv

LEMMA GoneKeeps ==
  ASSUME LifeInv, phase # "exited", Exit \/ Crash
  PROVE  LifeInv'
<1>1. /\ phase' = "exited"
      /\ tracked' = [t \in Tasks |-> {}] /\ mutex' = [t \in Tasks |-> Free]
      /\ starts' = [t \in Tasks |-> 0] /\ loop' = NoneOf("none")
      /\ found' = NoneOf(0) /\ watching' = NoneOf(0)
      /\ agent' = [a \in Agents |-> Idle] /\ recovery' = [a \in Agents |-> NotRecovering]
      /\ UNCHANGED <<proc, store, persistent, requests, boots>>
  BY DEF Exit, Crash, Gone, world
<1>2. (open' <=> open) /\ FlagsType' /\ stopped' = [t \in Tasks |-> TRUE]
  <2>1. /\ open' = open /\ phase' = "exited" /\ stackStopped' = TRUE
        /\ stopped' = [t \in Tasks |-> TRUE]
    BY Zenon DEF Exit, Crash, Gone, world
  <2>2. stopped' \in [Tasks -> BOOLEAN] /\ "exited" \in Phase
    BY Zenon, <2>1 DEF Phase
  <2> QED  BY Zenon, <2>1, <2>2 DEF LifeInv, TypeOK, FlagsType
<1>3. \A t \in Tasks : excused'[t] = excused[t] \cup (IF open THEN Unfinished(t) \cup PassedOver(t) ELSE {})
  <2>1. CASE Exit
    <3>1. ~open /\ excused' = excused
      BY <2>1 DEF Exit, LifeInv, Phases
    <3> QED  BY <3>1
  <2>2. CASE Crash
    BY <2>2 DEF Crash, CutOff
  <2> QED  BY <2>1, <2>2
<1>4. Phases' /\ Held'
  BY <1>1 DEF Phases, Held, Free
<1>5. TypeOK'
  <2> USE DEF LifeInv, TypeOK
  <2>1. CountType'
    <3>1. CASE Exit
      BY <1>1, <3>1 DEF Exit, CountType
    <3>2. CASE Crash
      BY <1>1, <3>2 DEF Crash, CountType, CutOff, Unfinished, PassedOver, StoreType
    <3> QED  BY <3>1, <3>2
  <2>2. ProcType' /\ StoreType' /\ TrackedType' /\ StartsType' /\ LoopType' /\ WatchType'
    BY <1>1 DEF ProcType, StoreType, TrackedType, StartsType, LoopType, WatchType, NoneOf
  <2>3. MutexType' /\ AgentType' /\ RecoveryType'
    BY <1>1, LifeBounds DEF MutexType, AgentType, RecoveryType, NotRecovering, Free, Idle, Pc
  <2> QED  BY <1>2, <2>1, <2>2, <2>3 DEF TypeOK
<1>6. ASSUME NEW t \in Tasks PROVE TaskInv(t)'
  <2>1. /\ Asleep(t)' /\ ~Waking(t)' /\ TaskInv(t) /\ tracked[t] \subseteq Ids /\ store[t].instanceIDs \subseteq Ids
        /\ tracked'[t] = {} /\ mutex'[t] = Free /\ mutex'[t].at = "free" /\ starts'[t] = 0
        /\ \A i \in Ids : loop'[t][i] = "none" /\ found'[t][i] = 0 /\ watching'[t][i] = 0
    BY <1>1 DEF Asleep, Waking, LifeInv, TypeOK, TrackedType, StoreType, NoneOf, Free
  <2>2. stopped'[t]
    BY Zenon, <1>2
  <2>3. \A i \in Ids : i \in excused'[t] <=>
           \/ i \in excused[t]
           \/ open /\ Trying(t, i)
           \/ open /\ mutex[t].at = "persist" /\ i \in tracked[t] \ store[t].instanceIDs
           \/ open /\ i \in store[t].instanceIDs /\ store[t].instanceIDs \cap excused[t] # {}
    <3>1. \A i \in Ids : i \in Unfinished(t) <=>
             \/ Trying(t, i)
             \/ mutex[t].at = "persist" /\ i \in tracked[t] \ store[t].instanceIDs
      BY DEF Unfinished, Trying
    <3>2. \A i \in Ids : i \in PassedOver(t) <=>
             i \in store[t].instanceIDs /\ store[t].instanceIDs \cap excused[t] # {}
      BY DEF PassedOver
    <3> QED  BY <1>3, <3>1, <3>2
  <2>4. UNCHANGED <<proc, store>> /\ (open' <=> open)
    BY <1>1, <1>2
  <2> HIDE <1>1, <1>2, <1>3, <1>4, <1>5
  <2> USE <2>1, <2>2, <2>3, <2>4
  <2>5. Fresh(t)'  BY DEF TaskInv, Fresh, Trying
  <2>6. Single(t)'  BY DEF TaskInv, Single
  <2>s. Sorted(t)'  BY DEF TaskInv, Sorted, Single
  <2>7. Launched(t)'  BY DEF TaskInv, Launched, Trying
  <2>8. Dormant(t)'
    <3>1. ASSUME NEW i \in Ids, proc[t][i] = "alive", i \notin excused'[t]
          PROVE  i \in store[t].instanceIDs /\ i \in store[t].pid
      <4>1. CASE Asleep(t)
        <5>1. i \notin excused[t]
          BY <3>1
        <5> QED  BY <3>1, <4>1, <5>1 DEF TaskInv, Dormant
      <4>2. CASE ~Asleep(t)
        <5>1. i \notin excused[t] /\ i \in tracked[t]
          BY <3>1, <4>2 DEF TaskInv, Known
        <5>2. ~Trying(t, i)
          BY <3>1, <5>1 DEF TaskInv, Cut
        <5> QED  BY <3>1, <5>1, <5>2 DEF TaskInv, Stored
      <4> QED  BY <4>1, <4>2
    <3> QED  BY <3>1 DEF Dormant
  <2>9. Known(t)'  BY DEF Known
  <2>10. Stored(t)'  BY DEF Stored
  <2>11. Cut(t)'  BY DEF TaskInv, Cut, Launched, Trying
  <2>12. Covered(t)'  BY DEF Covered
  <2> QED  BY <2>5, <2>6, <2>7, <2>8, <2>9, <2>10, <2>11, <2>12, <2>s DEF TaskInv
<1>p. Probed'
  BY <1>1 DEF Probed, Idle
<1> QED  BY <1>4, <1>5, <1>6, <1>p DEF LifeInv

LEMMA BootKeeps ==
  ASSUME LifeInv, Boot
  PROVE  LifeInv'
<1>1. /\ phase = "exited" /\ phase' = "boot" /\ open' /\ Move(Main, "startStack") /\ boots' = boots + 1
      /\ UNCHANGED <<proc, store, tracked, mutex, starts, loop, found, watching, persistent, excused, requests, recovery>>
  BY DEF Boot, task
<1>2. stopped' = stopped /\ FlagsType'
  BY Zenon DEF Boot, task, LifeInv, TypeOK, FlagsType, Phase
<1>3. \A a \in Agents : agent[a] = Idle
  BY <1>1 DEF LifeInv, Phases
<1>4. /\ Main \in Agents /\ "startStack" \in Pc /\ Idle.pc = "idle"
      /\ agent[Main].task \in Tasks \cup {NoTask} /\ agent[Main].left \in SUBSET Tasks
  BY DEF Agents, Pc, LifeInv, TypeOK, AgentType, Idle
<1>5. /\ AgentType' /\ agent'[Main].pc = "startStack"
      /\ \A b \in Agents \ {Main} : agent'[b] = agent[b]
  BY <1>1, <1>4, TurnTaken DEF LifeInv, TypeOK, Move
<1>6. Held'
  BY <1>1, <1>3, <1>4, <1>5, HeldFrame DEF LifeInv
<1>7. Phases'
  <2>1. \A h \in Handlers : agent'[h] = Idle
    BY <1>3, <1>5, AgentsAssumption DEF Agents
  <2>2. "startStack" \in BootPc /\ "startStack" \notin {"recover", "add", "startTask"}
    BY DEF BootPc
  <2> QED  BY <1>1, <1>5, <2>1, <2>2 DEF Phases
<1>8. TypeOK'
  <2> USE DEF LifeInv, TypeOK
  <2>1. /\ ProcType' /\ StoreType' /\ TrackedType' /\ MutexType'
        /\ StartsType' /\ LoopType' /\ WatchType' /\ CountType' /\ RecoveryType'
    BY <1>1 DEF ProcType, StoreType, TrackedType, MutexType, StartsType, LoopType, WatchType, CountType, RecoveryType
  <2> QED  BY <1>2, <1>5, <2>1 DEF TypeOK
<1>9. ASSUME NEW t \in Tasks PROVE TaskInv(t)'
  <2>1. Asleep(t) /\ Asleep(t)' /\ ~Waking(t) /\ ~Waking(t)' /\ TaskInv(t) /\ phase' # "exited"
    BY <1>1, <1>5 DEF Asleep, Waking, LifeInv
  <2>2. /\ tracked[t] = {} /\ mutex[t] = Free /\ mutex[t].at = "free" /\ starts[t] = 0
        /\ \A i \in Ids : loop[t][i] = "none" /\ found[t][i] = 0 /\ watching[t][i] = 0
    BY <2>1 DEF TaskInv, Dormant, Free
  <2>3. stopped'[t]
    <3>1. stopped[t]
      BY <1>1, <2>1 DEF TaskInv, Dormant
    <3> QED  BY Zenon, <1>2, <3>1
  <2> USE <1>1, <2>1, <2>2, <2>3
  <2>4. Fresh(t)'  BY DEF TaskInv, Fresh
  <2>5. Single(t)'  BY DEF TaskInv, Single
  <2>s. Sorted(t)'  BY DEF TaskInv, Sorted
  <2>6. Launched(t)'  BY DEF TaskInv, Launched, Trying
  <2>7. Dormant(t)'  BY DEF TaskInv, Dormant
  <2>8. Known(t)'  BY DEF Known
  <2>9. Stored(t)'  BY DEF Stored
  <2>10. Cut(t)'  BY DEF TaskInv, Cut, Trying
  <2>11. Covered(t)'  BY DEF Covered
  <2> QED  BY <2>4, <2>5, <2>6, <2>7, <2>8, <2>9, <2>10, <2>11, <2>s DEF TaskInv
<1>p. Probed'
  BY <1>1, <1>3, <1>4, <1>5 DEF Probed, Idle
<1> QED  BY <1>6, <1>7, <1>8, <1>9, <1>p DEF LifeInv

-----------------------------------------------------------------------------
(* The theorems                                                             *)

LEMMA LifeInit == Init => LifeInv
<1> SUFFICES ASSUME Init PROVE LifeInv
  OBVIOUS
<1>1. TypeOK
  BY TypeInit
<1>2. Phases
  BY DEF Init, Phases
<1>3. Held
  BY DEF Init, Held, Free
<1>4. ASSUME NEW t \in Tasks PROVE TaskInv(t)
  <2>1. /\ phase = "exited" /\ Asleep(t) /\ ~Waking(t) /\ tracked[t] = {} /\ mutex[t] = Free /\ mutex[t].at = "free"
        /\ starts[t] = 0 /\ excused[t] = {} /\ store[t].instanceIDs = {} /\ store[t].pid = {}
        /\ \A i \in Ids : /\ proc[t][i] = "none" /\ loop[t][i] = "none"
                          /\ found[t][i] = 0 /\ watching[t][i] = 0
    BY DEF Init, Asleep, Waking, NoneOf, Free
  <2>2. stopped[t]
    BY Zenon DEF Init
  <2> HIDE DEF Init
  <2> USE <2>1, <2>2
  <2>3. Fresh(t)  BY DEF Fresh
  <2>4. Single(t)  BY DEF Single
  <2>5. Launched(t)  BY DEF Launched, Trying
  <2>6. Dormant(t)  BY DEF Dormant
  <2>7. Known(t)  BY DEF Known
  <2>8. Stored(t)  BY DEF Stored
  <2>s. Sorted(t)  BY DEF Sorted
  <2>9. Cut(t)  BY DEF Cut, Trying
  <2>10. Covered(t)  BY DEF Covered
  <2> QED  BY <2>3, <2>4, <2>5, <2>6, <2>7, <2>8, <2>9, <2>10, <2>s DEF TaskInv
<1>5. Probed
  BY DEF Init, Probed, Idle
<1> QED  BY <1>1, <1>2, <1>3, <1>4, <1>5 DEF LifeInv

LEMMA LifeStutter == ASSUME LifeInv, UNCHANGED vars PROVE LifeInv'
<1>1. open' = open /\ phase' = phase /\ stackStopped' = stackStopped /\ agent' = agent /\ recovery' = recovery
      /\ UNCHANGED <<proc, store, stopped, tracked, mutex, starts, loop, found, watching, persistent, excused, requests, boots>>
  BY Zenon DEF vars, world, task, count
<1>2. Phases'
  BY Zenon, <1>1, PhasesFrame DEF LifeInv
<1>3. Held'
  BY <1>1, HeldFrame DEF LifeInv
<1>4. AgentType' /\ RecoveryType' /\ CountType'
  BY <1>1 DEF LifeInv, TypeOK, AgentType, RecoveryType, CountType
<1>5. phase' \in Phase /\ stackStopped' \in BOOLEAN
  BY Zenon, <1>1 DEF LifeInv, TypeOK, FlagsType
<1>6. \A u \in Tasks : SameBoot(u)
  BY <1>1, StillAsleep
<1>7. Probed'
  BY <1>1, ProbedFrame DEF LifeInv
<1> QED  BY <1>1, <1>2, <1>3, <1>4, <1>5, <1>6, <1>7, AgentOnly

LEMMA LifeNext == LifeInv /\ [Next]_vars => LifeInv'
<1> SUFFICES ASSUME LifeInv, [Next]_vars PROVE LifeInv'
  OBVIOUS
<1>1. CASE UNCHANGED vars
  BY <1>1, LifeStutter
<1>2. ASSUME NEW a \in Agents, phase # "exited", Agent(a) PROVE LifeInv'
  BY <1>2, StackStartKeeps, RecoverReadKeeps, RecoverProbeKeeps, RecoverAddKeeps, RecoverFailsKeeps, StartTaskKeeps, StackStopKeeps,
     StopTaskKeeps, KillKeeps DEF Agent
<1>3. ASSUME NEW h \in Handlers, phase # "exited", HandlerReturns(h) \/ Requests(h) PROVE LifeInv'
  BY <1>3, HandlerKeeps
<1>4. ASSUME NEW t \in Tasks, phase # "exited", Goroutine(t) PROVE LifeInv'
  BY <1>4, GoStartKeeps, CreateKeeps, CreateFailsKeeps, PersistKeeps DEF Goroutine
<1>5. ASSUME NEW t \in Tasks, NEW i \in Ids, phase # "exited", Instance(t, i) PROVE LifeInv'
  BY <1>5, BeginKeeps, LaunchKeeps, StorePidKeeps, BeginRecoveredKeeps, WatcherKeeps DEF Instance
<1>6. CASE phase # "exited" /\ (Daemon \/ Signal \/ Crash)
  BY <1>6, ServeKeeps, CloseStoresKeeps, SignalKeeps, GoneKeeps DEF Daemon
<1>7. ASSUME NEW t \in Tasks, NEW i \in Ids, ProcExit(t, i) PROVE LifeInv'
  BY <1>7, ProcExitKeeps
<1>8. CASE Boot
  BY <1>8, BootKeeps
<1> QED  BY <1>1, <1>2, <1>3, <1>4, <1>5, <1>6, <1>7, <1>8 DEF Next, Running

\* Sysd, the handlers, the goroutines of the tasks and the archive keep the whole
\* invariant, over every restart.
THEOREM StackLifeInductive == Spec => []LifeInv
<1>1. Init => LifeInv
  BY LifeInit
<1>2. LifeInv /\ [Next]_vars => LifeInv'
  BY LifeNext
<1> QED  BY <1>1, <1>2, PTL DEF Spec

\* Every variable keeps its type.
THEOREM StackLifeTypeCorrect == Spec => []TypeOK
<1>1. LifeInv => TypeOK
  BY DEF LifeInv
<1> QED  BY <1>1, StackLifeInductive, PTL

LEMMA AtMostOne ==
  ASSUME NEW S, \A x, y \in S : x = y
  PROVE  Cardinality(S) <= 1
<1>1. CASE S = {}
  BY <1>1, FS_EmptySet
<1>2. ASSUME NEW x \in S PROVE Cardinality(S) <= 1
  <2>1. S = {x}
    BY <1>2
  <2> QED  BY <2>1, FS_Singleton
<1> QED  BY <1>1, <1>2

\* Whoever starts, stops and restarts a stack, paasbox included: a task has one process
\* beside those that paasbox may lose (stack.go:318, task.go:606).
THEOREM NoSecondProcessHolds == Spec => []NoSecondProcess
<1>1. LifeInv => NoSecondProcess
  <2> SUFFICES ASSUME LifeInv, NEW t \in Tasks PROVE Cardinality(Alive(t) \ excused[t]) <= 1
    BY DEF NoSecondProcess
  <2>1. \A i, j \in Alive(t) \ excused[t] : i = j
    <3>1. CASE Asleep(t)
      <4>1. Alive(t) \ excused[t] \subseteq store[t].instanceIDs
        BY <3>1 DEF LifeInv, TaskInv, Dormant, Alive
      <4> QED  BY <4>1 DEF LifeInv, TaskInv, Single
    <3>2. CASE ~Asleep(t)
      <4>1. Alive(t) \ excused[t] \subseteq tracked[t]
        BY <3>2 DEF LifeInv, TaskInv, Known, Alive
      <4> QED  BY <4>1 DEF LifeInv, TaskInv, Single
    <3> QED  BY <3>1, <3>2
  <2> QED  BY <2>1, AtMostOne
<1> QED  BY <1>1, StackLifeInductive, PTL

\* When nothing is under way, a task knows of the process it has, unless that is excused:
\* Stop reaches it (task.go:530, 746).
THEOREM NoOrphanHolds == Spec => []NoOrphan
<1>1. LifeInv => NoOrphan
  <2> SUFFICES ASSUME LifeInv, NEW t \in Tasks, Settled(t) PROVE Alive(t) \ excused[t] \subseteq tracked[t]
    BY DEF NoOrphan
  <2>1. ~Asleep(t)
    BY DEF Settled, Asleep, Waking
  <2> QED  BY <2>1 DEF LifeInv, TaskInv, Known, Alive
<1> QED  BY <1>1, StackLifeInductive, PTL

\* When nothing is under way, a service that says it is started has a process it tracks or
\* one it gave up and still watches, until the numbers of the model are used up
\* (task.go:739, api.go:459).
THEOREM StartedIsCoveredHolds == Spec => []StartedIsCovered
<1>1. LifeInv => StartedIsCovered
  <2> SUFFICES ASSUME LifeInv, NEW t \in Services, Settled(t), ~stopped[t], store[t].execCount # MaxExec
               PROVE  \E i \in Alive(t) : i \in tracked[t] \/ (i \in excused[t] /\ watching[t][i] > 0)
    BY DEF StartedIsCovered
  <2>1. t \in Tasks /\ TaskInv(t) /\ open /\ ~Asleep(t)
    BY TasksAssumption DEF LifeInv, Settled, Phases, Asleep, Waking
  <2>2. mutex[t].at # "create" /\ ~(starts[t] > 0)
    BY DEF Settled, Free
  <2>3. PICK i \in Ids : Attended(t, i)
    BY <2>1, <2>2 DEF TaskInv, Covered
  <2>4. watching[t][i] > 0 /\ proc[t][i] = "alive"
    BY <2>3 DEF Attended, Trying, Settled
  <2>5. i \notin excused[t] => i \in tracked[t]
    BY <2>1, <2>4 DEF TaskInv, Known
  <2> QED  BY <2>4, <2>5 DEF Alive
<1> QED  BY <1>1, StackLifeInductive, PTL
=============================================================================
