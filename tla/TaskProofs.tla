------------------------------ MODULE TaskProofs ------------------------------
(***************************************************************************)
(* Proofs about module Task, for every value of its constants. First type   *)
(* correctness, FreshIds, NoLostChild and CreatedAtMostTarget: none of them *)
(* is inductive by itself; IInv, their conjunction with what they rest on,  *)
(* is. Its parts are preserved separately: Counting needs Counting and      *)
(* TypeOK only, Lifecycle needs those and itself, Quota needs TypeOK,       *)
(* Counting and itself. Then what a task promises to others: to the next    *)
(* paasbox, which looks for its instances in the store (CreatedIsPersisted);*)
(* to the load balancer, which forwards to them (NoStaleBackend); to the    *)
(* API, which reads their end in the archive (ExitReported); and to its     *)
(* users, who expect a missing instance to be replaced (NoLostRestart).     *)
(* Each rests on IInv and on an invariant of its own.                       *)
(***************************************************************************)
EXTENDS Task, FiniteSetTheorems, TLAPS

\* What has ever been done in the name of instance i, in memory, in the store
\* or in the operating system.
Used(i) ==
    \/ waitLoop[i] # "none" \/ proc[i] # "none"
    \/ i \in instances \cup process \cup store.pid \cup store.running
    \/ i \in store.instanceIDs \cup todo

\* execCount is persisted before the number is used, and bounds every number
\* used; the number about to be used is above all of them.
Counting ==
    /\ store.execCount = execCount
    /\ \A i \in Ids : Used(i) => i <= execCount /\ (crit = "create" => i # execCount)
    /\ crit = "count" => need <= MaxExec - execCount
    /\ crit = "create" => need > 0 /\ need - 1 <= MaxExec - execCount /\ execCount > 0

\* The course of an instance: tracked before its process exists, launched at
\* most once, recovered only if nothing was done for it since the boot, watched
\* when waitLoop is over, over before done(), and tracked while it lives.
TrackedFirst(i) == waitLoop[i] \in {"begin", "start"} => i \in instances
LaunchedOnce(i) ==
    /\ waitLoop[i] \in {"begin", "start"} /\ i \notin recovered => proc[i] = "none"
    /\ i \in process => proc[i] # "none"
RecoveredOnce(i) == i \in todo => waitLoop[i] = "none"
WatchedLast(i) == watcher[i] # "none" => waitLoop[i] = "end"
LaunchedFirst(i) ==
    waiter[i] # "none" \/ waitLoop[i] \in {"pid", "run", "wait"} \/ i \in recovered => i \in process
Over(i) == proc[i] = "dead" \/ i \in astray
OverWhenDone(i) == waiter[i] = "close" \/ i \in isDone => Over(i)
AliveTracked(i) == i \in process /\ proc[i] = "alive" => i \in instances \cup astray

\* A handler calls done() only after it has killed the process, or tried to.
KilledFirst(h) == sweep[h].pc \in {"done", "close"} => sweep[h].cur \in Ids /\ Over(sweep[h].cur)

Lifecycle ==
    /\ \A i \in Ids : /\ TrackedFirst(i) /\ LaunchedOnce(i) /\ RecoveredOnce(i)
                      /\ WatchedLast(i) /\ LaunchedFirst(i) /\ OverWhenDone(i) /\ AliveTracked(i)
    /\ \A h \in Handlers : KilledFirst(h)

\* The Start that holds execMutex creates no more than is missing.
Quota ==
    /\ Cardinality(Created) <= OriginalTarget
    /\ crit \in {"count", "create"} => Cardinality(Created) + need <= OriginalTarget

\* The inductive invariant.
IInv == TypeOK /\ Counting /\ Lifecycle /\ Quota

-----------------------------------------------------------------------------
(* Constants and finite sets.                                               *)

LEMMA ConstantFacts ==
    /\ OriginalTarget \in Nat /\ NumPorts \in Nat /\ MaxExec \in Nat
    /\ MaxRequests \in Nat /\ MaxCrashes \in Nat
    /\ Ids \subseteq Int /\ Devs \cap Ids = {}
    /\ IsFiniteSet(AllIds)
<1>1. IsFiniteSet(Ids)
  BY BoundsAssumption, FS_Interval DEF Ids
<1>2. IsFiniteSet(AllIds)
  BY <1>1, DevsAssumption, FS_Union DEF AllIds
<1> QED
  BY <1>2, TargetAssumption, PortsAssumption, BoundsAssumption, DevsAssumption DEF Ids

\* The number of tracked instances is a number, so Capped has a natural value
\* that leaves execCount within its bound.
LEMMA NeedIsNatural ==
    ASSUME TypeOK
    PROVE  /\ Need \in Int /\ Capped(Need) \in Nat
           /\ Capped(Need) <= MaxExec - execCount
<1>1. Cardinality(instances) \in Nat
  BY ConstantFacts, FS_Subset, FS_CardinalityType DEF TypeOK, FieldsTypeOK
<1>2. targetInstances \in Int /\ execCount \in 0..MaxExec
  BY ConstantFacts DEF TypeOK, FieldsTypeOK
<1> QED
  BY <1>1, <1>2, ConstantFacts DEF Need, Capped

-----------------------------------------------------------------------------
(* Initial states.                                                          *)

LEMMA InitIInv == Init => IInv
<1> SUFFICES ASSUME Init PROVE IInv
  OBVIOUS
<1>1. TypeOK
  <2>1. PersistentTypeOK
    BY ConstantFacts DEF Init, PersistentTypeOK
  <2>2. FieldsTypeOK
    BY ConstantFacts DEF Init, FieldsTypeOK
  <2>7. FlagsTypeOK
    BY Zenon DEF Init, FlagsTypeOK
  <2>6. MutexTypeOK /\ EnvTypeOK
    BY DEF Init, MutexTypeOK, EnvTypeOK
  <2>3. InstancesTypeOK
    BY DEF Init, InstancesTypeOK, WaitLoopPC, AllIds
  <2>4. SweepTypeOK
    BY ConstantFacts DEF Init, SweepTypeOK, NoSweep
  <2>5. LBTypeOK /\ OddsTypeOK
    BY DEF Init, LBTypeOK, OddsTypeOK
  <2> QED
    BY <2>1, <2>2, <2>3, <2>4, <2>5, <2>6, <2>7 DEF TypeOK
<1>2. Counting
  BY ConstantFacts DEF Init, Counting, Used, Ids, AllIds
<1>3. Lifecycle
  BY DEF Init, Lifecycle, TrackedFirst, LaunchedOnce, RecoveredOnce, WatchedLast, LaunchedFirst,
         OverWhenDone, AliveTracked, KilledFirst, NoSweep, AllIds
<1>4. Quota
  BY ConstantFacts, FS_EmptySet DEF Init, Quota, Created
<1> QED
  BY <1>1, <1>2, <1>3, <1>4 DEF IInv

-----------------------------------------------------------------------------
(* Who writes what: for each group of variables, the actions that change it. *)
(* The proofs about a group then look at those actions only.                 *)

WritersOfFlags ==
    \/ UNCHANGED <<stopped, devMode>> \/ Reboot
    \/ \E i \in AllIds : WaitLoopBegin(i)
    \/ StopTask \/ DevModeOn \/ DevModeOff \/ DevModeOffPanic

WritersOfFields ==
    \/ UNCHANGED <<boot, targetInstances, execCount, instances>> \/ Reboot
    \/ Boot \/ BootStart \/ StartLoop
    \/ \E i \in AllIds : WatcherDelete(i)
    \/ DevModeOnEnd \/ DevModeOn \/ DevModeOff

WritersOfPersistent ==
    \/ UNCHANGED <<store, proc>>
    \/ StartCount \/ StartPersist \/ DevModeOnEnd
    \/ \E i \in AllIds : Launch(i) \/ StorePid(i) \/ StoreRunning(i)
    \/ \E i \in Ids : WaiterClose(i) \/ ProcExit(i)
    \/ \E h \in Handlers : SweepKill(h) \/ SweepClose(h)

WritersOfMutex ==
    \/ UNCHANGED mutex \/ Reboot
    \/ BootStart \/ StartLock \/ StartLoop \/ SetEnvEnd \/ DevModeOnEnd
    \/ \E i \in AllIds : WatcherEnd(i)
    \/ \E h \in Handlers : SweepPanic(h)
    \/ StartTask \/ SetEnv \/ DevModeOn \/ DevModeOff

WritersOfInstances ==
    \/ UNCHANGED <<marks, waitLoop, waiter, watcher>> \/ Reboot
    \/ \E i \in todo : RecoverInstance(i)
    \/ StartCreate \/ DevModeOnEnd \/ DevModeOff
    \/ \E i \in AllIds : WaitLoop(i) \/ Watcher(i)
    \/ \E i \in Ids : WaiterDone(i) \/ WaitFails(i) \/ WaiterClose(i)
    \/ \E h \in Handlers : SweepClose(h)

WritersOfSweep ==
    \/ UNCHANGED sweep \/ Reboot
    \/ StartCreate \/ SweepEnd \/ StopTask \/ SetEnv \/ DevModeOn
    \/ \E h \in Handlers : SweepLoop(h)
    \/ ReapEnd \/ \E i \in Ids : CheckReaps(i)

WritersOfLB ==
    \/ UNCHANGED lb \/ Reboot
    \/ \E i \in AllIds : AddToKnownListener(i) \/ AddListener(i) \/ WatcherEnd(i)
    \/ \E i \in Ids : CheckUnlist(i) \/ CheckRelist(i)

WritersOfOdds ==
    \/ UNCHANGED odds \/ Reboot
    \/ \E i \in Ids : WaitFails(i) \/ CheckReturns(i) \/ CheckRelist(i)
    \/ \E h \in Handlers : SweepKillFails(h)

WritersOfEnv ==
    \/ UNCHANGED env
    \/ Reboot /\ (UNCHANGED crashes \/ crashes' = crashes + 1)
    \/ \E r \in AllRequests : Request(r)

LEMMA Writers ==
    ASSUME [Next]_vars
    PROVE  /\ WritersOfFlags /\ WritersOfFields /\ WritersOfPersistent /\ WritersOfMutex
           /\ WritersOfInstances /\ WritersOfSweep /\ WritersOfLB /\ WritersOfOdds
           /\ WritersOfEnv
<1> USE DEF Next, vars, Boot, StartLoop, WaitLoop, Waiter, Watcher, SweepLoop, SweepEnd,
        boot, fields, mutex, marks, lb, env, Goto, Done, Request, AllRequests,
        RecoverInstance, RecoverFails, RecoverDone, BootStart, StartLock, EnterStart,
        StartCount, StartCreate, StartPersist, WaitLoopBegin, Launch, LaunchFails,
        LaunchSkipped, StorePid, StoreRunning, Wait, AddToKnownListener, ListenerUnknown,
        AddListener, AddListenerFails, WaitLoopEnd, WaiterDone, WaitFails, WaiterClose, WaiterPanic,
        WatcherDelete, WatcherEnd, SweepSkip, SweepKill, SweepKillFails, SweepDone, SweepClose,
        SweepPanic, Reap, ReapPanic, ReapEnd, Check, CheckUnlist, CheckReturns, CheckRelist, CheckReaps,
        odds, StopEnd, SetEnvEnd, DevModeOnEnd, StartTask, StopTask, SetEnv, DevModeOn, DevModeOff,
        DevModeOffPanic, ProcExit, Crash
<1>1. WritersOfFlags
  BY DEF WritersOfFlags
<1>2. WritersOfFields
  BY DEF WritersOfFields
<1>3. WritersOfPersistent
  BY DEF WritersOfPersistent, Reboot
<1>4. WritersOfMutex
  BY DEF WritersOfMutex
<1>5. WritersOfInstances
  BY DEF WritersOfInstances
<1>6. WritersOfSweep
  BY DEF WritersOfSweep
<1>7. WritersOfLB
  BY DEF WritersOfLB
<1>8. WritersOfEnv
  BY DEF WritersOfEnv
<1>9. WritersOfOdds
  BY DEF WritersOfOdds
<1> QED
  BY <1>1, <1>2, <1>3, <1>4, <1>5, <1>6, <1>7, <1>8, <1>9

-----------------------------------------------------------------------------
(* Type correctness. Reboot gives every variable of the memory the value it  *)
(* has in Init, and StartCount needs Counting for the range of execCount.    *)

LEMMA RebootType ==
    ASSUME TypeOK, Reboot
    PROVE  /\ FlagsTypeOK' /\ FieldsTypeOK' /\ MutexTypeOK' /\ InstancesTypeOK'
           /\ SweepTypeOK' /\ LBTypeOK' /\ OddsTypeOK'
<1>1. FlagsTypeOK'
  BY Zenon DEF Reboot, FlagsTypeOK
<1>2. FieldsTypeOK'
  BY ConstantFacts DEF Reboot, ReadExecCount, TypeOK, FieldsTypeOK, PersistentTypeOK
<1>3. MutexTypeOK'
  BY DEF Reboot, MutexTypeOK
<1>4. InstancesTypeOK'
  BY DEF Reboot, InstancesTypeOK, WaitLoopPC, AllIds
<1>5. SweepTypeOK'
  BY ConstantFacts DEF Reboot, SweepTypeOK, NoSweep
<1>6. LBTypeOK' /\ OddsTypeOK'
  BY DEF Reboot, LBTypeOK, OddsTypeOK
<1> QED
  BY <1>1, <1>2, <1>3, <1>4, <1>5, <1>6

LEMMA FlagsTypeStep == TypeOK /\ [Next]_vars => FlagsTypeOK'
<1> SUFFICES ASSUME TypeOK, [Next]_vars PROVE FlagsTypeOK'
  OBVIOUS
<1>1. CASE UNCHANGED <<stopped, devMode>>
  BY <1>1, Zenon DEF TypeOK, FlagsTypeOK
<1>2. ASSUME NEW i \in AllIds, WaitLoopBegin(i) PROVE FlagsTypeOK'
  BY <1>2, Zenon DEF WaitLoopBegin, TypeOK, FlagsTypeOK
<1>3. CASE StopTask \/ DevModeOn \/ DevModeOff \/ DevModeOffPanic
  BY <1>3, Zenon DEF StopTask, DevModeOn, DevModeOff, DevModeOffPanic, TypeOK, FlagsTypeOK
<1> QED
  BY <1>1, <1>2, <1>3, Writers, RebootType DEF WritersOfFlags

LEMMA FieldsTypeStep == TypeOK /\ Counting /\ [Next]_vars => FieldsTypeOK'
<1> SUFFICES ASSUME TypeOK, Counting, [Next]_vars PROVE FieldsTypeOK'
  OBVIOUS
<1> USE DEF FieldsTypeOK, fields, boot
<1>1. CASE UNCHANGED <<boot, targetInstances, execCount, instances>>
  BY <1>1 DEF TypeOK
<1>2. CASE Boot
  BY <1>2 DEF Boot, RecoverInstance, RecoverFails, RecoverDone, TypeOK, Recoverable, AllIds
<1>3. CASE BootStart
  BY <1>3 DEF BootStart, EnterStart, TypeOK
<1>4. CASE StartCount
  BY <1>4, ConstantFacts DEF StartCount, Counting, TypeOK, MutexTypeOK
<1>5. CASE StartCreate
  BY <1>5, ConstantFacts DEF StartCreate, Counting, TypeOK, AllIds, Ids
<1>6. CASE StartPersist
  BY <1>6 DEF StartPersist, TypeOK
<1>7. ASSUME NEW i \in AllIds, WatcherDelete(i) PROVE FieldsTypeOK'
  BY <1>7 DEF WatcherDelete, TypeOK
<1>8. CASE DevModeOnEnd
  BY <1>8 DEF DevModeOnEnd, WithPlaceholder, TypeOK, AllIds
<1>9. CASE DevModeOn \/ DevModeOff
  BY <1>9 DEF DevModeOn, DevModeOff, TypeOK
<1> HIDE DEF FieldsTypeOK
<1> QED
  BY <1>1, <1>2, <1>3, <1>4, <1>5, <1>6, <1>7, <1>8, <1>9, Writers, RebootType
  DEF WritersOfFields, StartLoop

LEMMA PersistentTypeStep == TypeOK /\ Counting /\ [Next]_vars => PersistentTypeOK'
<1> SUFFICES ASSUME TypeOK, Counting, [Next]_vars PROVE PersistentTypeOK'
  OBVIOUS
<1> USE DEF PersistentTypeOK
<1>1. CASE UNCHANGED <<store, proc>>
  BY <1>1 DEF TypeOK
<1>2. CASE StartCount
  BY <1>2, ConstantFacts DEF StartCount, StoredCount, Counting, TypeOK, FieldsTypeOK, MutexTypeOK
<1>3. CASE StartPersist
  BY <1>3 DEF StartPersist, PersistedIDs, TypeOK, FieldsTypeOK
<1>4. CASE DevModeOnEnd
  BY <1>4 DEF DevModeOnEnd, WithPlaceholder, TypeOK, FieldsTypeOK, AllIds
<1>5. ASSUME NEW i \in AllIds, Launch(i) PROVE PersistentTypeOK'
  BY <1>5 DEF Launch, TypeOK
<1>6. ASSUME NEW i \in AllIds, StorePid(i) \/ StoreRunning(i) PROVE PersistentTypeOK'
  BY <1>6 DEF StorePid, StoreRunning, TypeOK, InstancesTypeOK, AllIds
<1>7. ASSUME NEW i \in Ids, WaiterClose(i) \/ ProcExit(i) PROVE PersistentTypeOK'
  BY <1>7 DEF WaiterClose, ProcExit, Done, TypeOK
<1>8. ASSUME NEW h \in Handlers, SweepKill(h) \/ SweepClose(h) PROVE PersistentTypeOK'
  BY <1>8 DEF SweepKill, SweepClose, Done, TypeOK
<1> HIDE DEF PersistentTypeOK
<1> QED
  BY <1>1, <1>2, <1>3, <1>4, <1>5, <1>6, <1>7, <1>8, Writers DEF WritersOfPersistent

LEMMA MutexTypeStep == TypeOK /\ Counting /\ [Next]_vars => MutexTypeOK'
<1> SUFFICES ASSUME TypeOK, Counting, [Next]_vars PROVE MutexTypeOK'
  OBVIOUS
<1> USE DEF MutexTypeOK, mutex
<1>1. CASE UNCHANGED mutex
  BY <1>1 DEF TypeOK
<1>2. CASE BootStart \/ StartLock
  BY <1>2, NeedIsNatural DEF BootStart, StartLock, EnterStart, TypeOK
<1>3. CASE StartLoop
  BY <1>3 DEF StartLoop, StartCount, StartCreate, StartPersist, Counting, TypeOK
<1>4. CASE SetEnvEnd \/ DevModeOnEnd
  BY <1>4 DEF SetEnvEnd, DevModeOnEnd, TypeOK
<1>5. ASSUME NEW i \in AllIds, WatcherEnd(i) PROVE MutexTypeOK'
  BY <1>5 DEF WatcherEnd, TypeOK
<1>6. ASSUME NEW h \in Handlers, SweepPanic(h) PROVE MutexTypeOK'
  BY <1>6 DEF SweepPanic, TypeOK
<1>7. CASE StartTask \/ SetEnv \/ DevModeOn \/ DevModeOff
  BY <1>7 DEF StartTask, SetEnv, DevModeOn, DevModeOff, TypeOK
<1> HIDE DEF MutexTypeOK
<1> QED
  BY <1>1, <1>2, <1>3, <1>4, <1>5, <1>6, <1>7, Writers, RebootType DEF WritersOfMutex

LEMMA InstancesTypeStep == TypeOK /\ Counting /\ Lifecycle /\ [Next]_vars => InstancesTypeOK'
<1> SUFFICES ASSUME TypeOK, Counting, Lifecycle, [Next]_vars PROVE InstancesTypeOK'
  OBVIOUS
<1> USE DEF InstancesTypeOK, marks, WaitLoopPC
<1>1. CASE UNCHANGED <<marks, waitLoop, waiter, watcher>>
  BY <1>1 DEF TypeOK
<1>2. ASSUME NEW i \in todo, RecoverInstance(i) PROVE InstancesTypeOK'
  BY <1>2, ConstantFacts DEF RecoverInstance, Recoverable, TypeOK, AllIds
<1>3. CASE StartCreate
  BY <1>3, ConstantFacts DEF StartCreate, Counting, TypeOK, FieldsTypeOK, AllIds, Ids
<1>4. CASE DevModeOnEnd
  BY <1>4, ConstantFacts DEF DevModeOnEnd, Goto, TypeOK, AllIds
<1>5. CASE DevModeOff
  BY <1>5 DEF DevModeOff, OpenDevs, TypeOK, AllIds
<1>6. ASSUME NEW i \in AllIds, WaitLoop(i) PROVE InstancesTypeOK'
  <2>1. CASE WaitLoopBegin(i) \/ LaunchFails(i) \/ StorePid(i) \/ StoreRunning(i)
    BY <2>1 DEF WaitLoopBegin, LaunchFails, StorePid, StoreRunning, Goto, TypeOK, AllIds
  <2>2. CASE Launch(i)
    BY <2>2, ConstantFacts DEF Launch, Goto, TypeOK
  <2>3. CASE LaunchSkipped(i)
    BY <2>3, ConstantFacts DEF LaunchSkipped, Goto, TypeOK, AllIds
  <2>4. CASE Wait(i)
    BY <2>4 DEF Wait, Goto, TypeOK, AllIds
  <2>5. CASE AddToKnownListener(i) \/ ListenerUnknown(i) \/ AddListener(i) \/ AddListenerFails(i)
    BY <2>5 DEF AddToKnownListener, ListenerUnknown, AddListener, AddListenerFails, Goto, TypeOK, AllIds
  <2>6. CASE WaitLoopEnd(i)
    BY <2>6 DEF WaitLoopEnd, Goto, TypeOK
  <2> HIDE DEF InstancesTypeOK
  <2> QED
    BY <1>6, <2>1, <2>2, <2>3, <2>4, <2>5, <2>6 DEF WaitLoop
<1>7. ASSUME NEW i \in AllIds, Watcher(i) PROVE InstancesTypeOK'
  BY <1>7 DEF Watcher, WatcherDelete, WatcherEnd, TypeOK
<1>8. ASSUME NEW i \in Ids, WaiterDone(i) \/ WaitFails(i) \/ WaiterClose(i) PROVE InstancesTypeOK'
  BY <1>8 DEF WaiterDone, WaitFails, WaiterClose, Done, TypeOK, AllIds
<1>9. ASSUME NEW h \in Handlers, SweepClose(h) PROVE InstancesTypeOK'
  BY <1>9 DEF SweepClose, Done, Lifecycle, KilledFirst, TypeOK, AllIds
<1> HIDE DEF InstancesTypeOK
<1> QED
  BY <1>1, <1>2, <1>3, <1>4, <1>5, <1>6, <1>7, <1>8, <1>9, Writers, RebootType
  DEF WritersOfInstances

LEMMA SweepTypeStep == TypeOK /\ Counting /\ [Next]_vars => SweepTypeOK'
<1> SUFFICES ASSUME TypeOK, Counting, [Next]_vars PROVE SweepTypeOK'
  OBVIOUS
<1> USE DEF SweepTypeOK, Handlers
<1>1. CASE UNCHANGED sweep
  BY <1>1 DEF TypeOK
<1>2. CASE StartCreate
  BY <1>2, ConstantFacts DEF StartCreate, Counting, TypeOK, FieldsTypeOK, AllIds, Ids
<1>3. CASE SweepEnd
  BY <1>3, ConstantFacts DEF SweepEnd, StopEnd, SetEnvEnd, DevModeOnEnd, NoSweep, TypeOK
<1>4. CASE StopTask \/ SetEnv \/ DevModeOn
  BY <1>4, ConstantFacts DEF StopTask, SetEnv, DevModeOn, TypeOK, FieldsTypeOK
<1>5. ASSUME NEW h \in Handlers, SweepLoop(h) PROVE SweepTypeOK'
  BY <1>5, ConstantFacts
  DEF SweepLoop, SweepSkip, SweepKill, SweepKillFails, SweepDone, SweepClose, SweepPanic, NoSweep,
      Stoppable, TypeOK, Ids
<1>6. CASE ReapEnd
  BY <1>6, ConstantFacts DEF ReapEnd, NoSweep, TypeOK
<1>7. ASSUME NEW i \in Ids, CheckReaps(i) PROVE SweepTypeOK'
  BY <1>7, ConstantFacts DEF CheckReaps, TypeOK, AllIds
<1> HIDE DEF SweepTypeOK
<1> QED
  BY <1>1, <1>2, <1>3, <1>4, <1>5, <1>6, <1>7, Writers, RebootType DEF WritersOfSweep

LEMMA LBTypeStep == TypeOK /\ [Next]_vars => LBTypeOK'
<1> SUFFICES ASSUME TypeOK, [Next]_vars PROVE LBTypeOK'
  OBVIOUS
<1> USE DEF LBTypeOK, lb
<1>1. CASE UNCHANGED lb
  BY <1>1 DEF TypeOK
<1>2. ASSUME NEW i \in AllIds, AddToKnownListener(i) PROVE LBTypeOK'
  BY <1>2 DEF AddToKnownListener, TypeOK
<1>3. ASSUME NEW i \in AllIds, AddListener(i) PROVE LBTypeOK'
  BY <1>3 DEF AddListener, TypeOK
<1>4. ASSUME NEW i \in AllIds, WatcherEnd(i) PROVE LBTypeOK'
  BY <1>4 DEF WatcherEnd, removeInstanceFromLB, TypeOK
<1>5. ASSUME NEW i \in Ids, CheckUnlist(i) PROVE LBTypeOK'
  BY <1>5 DEF CheckUnlist, removeInstanceFromLB, TypeOK
<1>6. ASSUME NEW i \in Ids, CheckRelist(i) PROVE LBTypeOK'
  BY <1>6, ConstantFacts DEF CheckRelist, TypeOK, Ports, AllIds
<1> HIDE DEF LBTypeOK
<1> QED
  BY <1>1, <1>2, <1>3, <1>4, <1>5, <1>6, Writers, RebootType DEF WritersOfLB

LEMMA OddsTypeStep == TypeOK /\ [Next]_vars => OddsTypeOK'
<1> SUFFICES ASSUME TypeOK, [Next]_vars PROVE OddsTypeOK'
  OBVIOUS
<1> USE DEF OddsTypeOK, odds
<1>1. CASE UNCHANGED odds
  BY <1>1 DEF TypeOK
<1>2. ASSUME NEW i \in Ids, WaitFails(i) \/ CheckReturns(i) \/ CheckRelist(i) PROVE OddsTypeOK'
  BY <1>2 DEF WaitFails, CheckReturns, CheckRelist, TypeOK
<1>3. ASSUME NEW h \in Handlers, SweepKillFails(h) PROVE OddsTypeOK'
  BY <1>3 DEF SweepKillFails, Stoppable, TypeOK
<1> HIDE DEF OddsTypeOK
<1> QED
  BY <1>1, <1>2, <1>3, Writers, RebootType DEF WritersOfOdds

LEMMA EnvTypeStep == TypeOK /\ [Next]_vars => EnvTypeOK'
<1> SUFFICES ASSUME TypeOK, [Next]_vars PROVE EnvTypeOK'
  OBVIOUS
<1>1. CASE UNCHANGED env
  BY <1>1 DEF env, TypeOK, EnvTypeOK
<1>2. CASE Reboot /\ (UNCHANGED crashes \/ crashes' = crashes + 1)
  BY <1>2 DEF Reboot, TypeOK, EnvTypeOK
<1>3. ASSUME NEW r \in AllRequests, Request(r) PROVE EnvTypeOK'
  BY <1>3 DEF Request, TypeOK, EnvTypeOK
<1> QED
  BY <1>1, <1>2, <1>3, Writers DEF WritersOfEnv

LEMMA TypeStep == TypeOK /\ Counting /\ Lifecycle /\ [Next]_vars => TypeOK'
BY FlagsTypeStep, FieldsTypeStep, PersistentTypeStep, MutexTypeStep, InstancesTypeStep,
   SweepTypeStep, LBTypeStep, OddsTypeStep, EnvTypeStep DEF TypeOK

-----------------------------------------------------------------------------
(* Counting.                                                                *)

\* Creating an instance is the only step that uses a number not used before.
LEMMA UsedStep ==
    ASSUME TypeOK, [Next]_vars, NEW i \in Ids, ~Used(i), ~(StartCreate /\ i = execCount)
    PROVE  ~Used(i)'
<1> USE DEF Used
<1>1. waitLoop'[i] = "none" /\ i \notin process'
  <2> DEFINE Clean == waitLoop'[i] = "none" /\ i \notin process'
  <2> SUFFICES Clean
    OBVIOUS
  <2>1. CASE UNCHANGED <<marks, waitLoop, waiter, watcher>>
    BY <2>1 DEF marks
  <2>2. CASE Reboot
    BY <2>2 DEF Reboot, AllIds
  <2>3. ASSUME NEW j \in todo, RecoverInstance(j) PROVE Clean
    BY <2>3 DEF RecoverInstance, TypeOK, InstancesTypeOK, AllIds
  <2>4. CASE StartCreate
    BY <2>4 DEF StartCreate, marks, TypeOK, InstancesTypeOK, AllIds
  <2>5. CASE DevModeOnEnd
    BY <2>5, ConstantFacts DEF DevModeOnEnd, Goto, marks, TypeOK, InstancesTypeOK, AllIds
  <2>6. CASE DevModeOff
    BY <2>6 DEF DevModeOff
  <2>7. ASSUME NEW j \in AllIds, WaitLoop(j) PROVE Clean
    BY <2>7
    DEF WaitLoop, WaitLoopBegin, Launch, LaunchFails, LaunchSkipped, StorePid, StoreRunning, Wait,
        AddToKnownListener, ListenerUnknown, AddListener, AddListenerFails, WaitLoopEnd, Goto,
        marks, TypeOK, InstancesTypeOK, AllIds
  <2>8. ASSUME NEW j \in AllIds, Watcher(j) PROVE Clean
    BY <2>8 DEF Watcher, WatcherDelete, WatcherEnd, marks
  <2>9. ASSUME NEW j \in Ids, WaiterDone(j) \/ WaitFails(j) \/ WaiterClose(j) PROVE Clean
    BY <2>9 DEF WaiterDone, WaitFails, WaiterClose, marks
  <2>10. ASSUME NEW h \in Handlers, SweepClose(h) PROVE Clean
    BY <2>10 DEF SweepClose
  <2> HIDE DEF Clean, Used
  <2> QED
    BY <2>1, <2>2, <2>3, <2>4, <2>5, <2>6, <2>7, <2>8, <2>9, <2>10, Writers
    DEF WritersOfInstances
<1>2. proc'[i] = "none" /\ i \notin store'.pid \cup store'.running \cup store'.instanceIDs
  <2> DEFINE Clean == /\ proc'[i] = "none"
                      /\ i \notin store'.pid \cup store'.running \cup store'.instanceIDs
  <2> SUFFICES Clean
    OBVIOUS
  <2> USE DEF TypeOK, PersistentTypeOK
  <2>1. CASE UNCHANGED <<store, proc>>
    BY <2>1
  <2>2. CASE StartCount \/ StartPersist
    BY <2>2 DEF StartCount, StartPersist, PersistedIDs
  <2>3. CASE DevModeOnEnd
    BY <2>3, ConstantFacts DEF DevModeOnEnd, WithPlaceholder
  <2>4. ASSUME NEW j \in AllIds, Launch(j) \/ StorePid(j) \/ StoreRunning(j) PROVE Clean
    BY <2>4 DEF Launch, StorePid, StoreRunning
  <2>5. ASSUME NEW j \in Ids, WaiterClose(j) \/ ProcExit(j) PROVE Clean
    BY <2>5 DEF WaiterClose, ProcExit, Done
  <2>6. ASSUME NEW h \in Handlers, SweepKill(h) \/ SweepClose(h) PROVE Clean
    BY <2>6 DEF SweepKill, SweepClose, Done, Stoppable
  <2> HIDE DEF Clean, Used, TypeOK
  <2> QED
    BY <2>1, <2>2, <2>3, <2>4, <2>5, <2>6, Writers DEF WritersOfPersistent
<1>3. i \notin instances' \cup todo'
  <2> DEFINE Clean == i \notin instances' \cup todo'
  <2> SUFFICES Clean
    OBVIOUS
  <2>1. CASE UNCHANGED <<boot, targetInstances, execCount, instances>>
    BY <2>1 DEF boot
  <2>2. CASE Reboot
    BY <2>2 DEF Reboot
  <2>3. CASE Boot \/ BootStart
    BY <2>3 DEF Boot, RecoverInstance, RecoverFails, RecoverDone, BootStart, EnterStart
  <2>4. CASE StartLoop
    BY <2>4 DEF StartLoop, StartCount, StartCreate, StartPersist, boot
  <2>5. ASSUME NEW j \in AllIds, WatcherDelete(j) PROVE Clean
    BY <2>5 DEF WatcherDelete, boot
  <2>6. CASE DevModeOnEnd
    BY <2>6, ConstantFacts DEF DevModeOnEnd, WithPlaceholder, boot
  <2>7. CASE DevModeOn \/ DevModeOff
    BY <2>7 DEF DevModeOn, DevModeOff, boot
  <2> HIDE DEF Clean, Used
  <2> QED
    BY <2>1, <2>2, <2>3, <2>4, <2>5, <2>6, <2>7, Writers DEF WritersOfFields
<1> QED
  BY <1>1, <1>2, <1>3

\* execCount changes in StartCount only (a boot reads the same number back),
\* and StartCount is the way into "create".
LEMMA ExecCountStep ==
    ASSUME Counting, [Next]_vars
    PROVE  \/ StartCount
           \/ execCount' = execCount /\ (crit' = "create" => crit = "create" /\ ~StartCreate)
<1> DEFINE Kept == execCount' = execCount
           Out == crit' = "create" => crit = "create" /\ ~StartCreate
<1>1. StartCount \/ Kept
  <2>1. CASE UNCHANGED <<boot, targetInstances, execCount, instances>>
    BY <2>1
  <2>2. CASE Reboot
    BY <2>2 DEF Reboot, ReadExecCount, Counting
  <2>3. CASE Boot \/ BootStart
    BY <2>3 DEF Boot, RecoverInstance, RecoverFails, RecoverDone, BootStart, EnterStart, fields
  <2>4. CASE StartCreate \/ StartPersist \/ DevModeOnEnd
    BY <2>4 DEF StartCreate, StartPersist, DevModeOnEnd, fields
  <2>5. ASSUME NEW j \in AllIds, WatcherDelete(j) PROVE Kept
    BY <2>5 DEF WatcherDelete, fields
  <2>6. CASE DevModeOn \/ DevModeOff
    BY <2>6 DEF DevModeOn, DevModeOff
  <2> HIDE DEF Kept
  <2> QED
    BY <2>1, <2>2, <2>3, <2>4, <2>5, <2>6, Writers DEF WritersOfFields, StartLoop, Kept
<1>2. StartCount \/ Out
  <2>1. CASE UNCHANGED mutex
    BY <2>1 DEF mutex, StartCreate
  <2>2. CASE Reboot \/ BootStart \/ StartLock
    BY <2>2 DEF Reboot, BootStart, StartLock, EnterStart
  <2>3. CASE StartCreate \/ StartPersist \/ SetEnvEnd \/ DevModeOnEnd
    BY <2>3 DEF StartCreate, StartPersist, SetEnvEnd, DevModeOnEnd
  <2>4. ASSUME NEW j \in AllIds, WatcherEnd(j) PROVE Out
    BY <2>4 DEF WatcherEnd, StartCreate
  <2>5. ASSUME NEW h \in Handlers, SweepPanic(h) PROVE Out
    BY <2>5 DEF SweepPanic, StartCreate
  <2>6. CASE StartTask \/ SetEnv \/ DevModeOn \/ DevModeOff
    BY <2>6 DEF StartTask, SetEnv, DevModeOn, DevModeOff, StartCreate
  <2> HIDE DEF Out
  <2> QED
    BY <2>1, <2>2, <2>3, <2>4, <2>5, <2>6, Writers DEF WritersOfMutex, StartLoop
<1> QED
  BY <1>1, <1>2

\* What happens to execMutex and the loop of the Start that holds it.
LEMMA HolderStep ==
    ASSUME [Next]_vars
    PROVE  \/ StartCount \/ StartCreate \/ BootStart \/ StartLock
           \/ crit' \notin {"count", "create"} \/ (crit' = crit /\ need' = need)
<1> DEFINE Rest == \/ StartCount \/ StartCreate \/ BootStart \/ StartLock
                   \/ crit' \notin {"count", "create"} \/ (crit' = crit /\ need' = need)
<1> SUFFICES Rest
  OBVIOUS
<1>1. CASE UNCHANGED mutex
  BY <1>1 DEF mutex
<1>2. CASE Reboot \/ StartPersist \/ SetEnvEnd \/ DevModeOnEnd
  BY <1>2 DEF Reboot, StartPersist, SetEnvEnd, DevModeOnEnd
<1>3. ASSUME NEW j \in AllIds, WatcherEnd(j) PROVE Rest
  BY <1>3 DEF WatcherEnd
<1>4. ASSUME NEW h \in Handlers, SweepPanic(h) PROVE Rest
  BY <1>4 DEF SweepPanic
<1>5. CASE StartTask \/ SetEnv \/ DevModeOn \/ DevModeOff
  BY <1>5 DEF StartTask, SetEnv, DevModeOn, DevModeOff
<1> QED
  BY <1>1, <1>2, <1>3, <1>4, <1>5, Writers DEF WritersOfMutex, StartLoop

LEMMA CountingStep == TypeOK /\ Counting /\ [Next]_vars => Counting'
<1> SUFFICES ASSUME TypeOK, Counting, [Next]_vars PROVE Counting'
  OBVIOUS
<1>1. store'.execCount = execCount'
  <2> DEFINE Same == store'.execCount = store.execCount
  <2>1. CASE StartCount
    BY <2>1 DEF StartCount, StoredCount, TypeOK, PersistentTypeOK
  <2>2. StartCount \/ Same
    <3> USE DEF TypeOK, PersistentTypeOK
    <3>1. CASE UNCHANGED <<store, proc>>
      BY <3>1
    <3>2. CASE StartPersist \/ DevModeOnEnd
      BY <3>2 DEF StartPersist, DevModeOnEnd
    <3>3. ASSUME NEW j \in AllIds, Launch(j) \/ StorePid(j) \/ StoreRunning(j) PROVE Same
      BY <3>3 DEF Launch, StorePid, StoreRunning
    <3>4. ASSUME NEW j \in Ids, WaiterClose(j) \/ ProcExit(j) PROVE Same
      BY <3>4 DEF WaiterClose, ProcExit, Done
    <3>5. ASSUME NEW h \in Handlers, SweepKill(h) \/ SweepClose(h) PROVE Same
      BY <3>5 DEF SweepKill, SweepClose, Done
    <3> HIDE DEF Same, TypeOK
    <3> QED
      BY <3>1, <3>2, <3>3, <3>4, <3>5, Writers DEF WritersOfPersistent
  <2> QED
    BY <2>1, <2>2, ExecCountStep DEF Counting
<1>2. ASSUME NEW i \in Ids, Used(i)'
      PROVE  i <= execCount' /\ (crit' = "create" => i # execCount')
  <2>1. CASE Used(i) /\ StartCount
    BY <2>1, ConstantFacts DEF Counting, StartCount, TypeOK, FieldsTypeOK
  <2>2. CASE Used(i) /\ ~StartCount
    BY <2>2, ExecCountStep DEF Counting
  <2>3. CASE StartCreate /\ i = execCount
    BY <2>3, ConstantFacts DEF StartCreate, fields, TypeOK, FieldsTypeOK
  <2> QED
    BY <1>2, <2>1, <2>2, <2>3, UsedStep
<1>3. /\ crit' = "count" => need' <= MaxExec - execCount'
      /\ crit' = "create" =>
           need' > 0 /\ need' - 1 <= MaxExec - execCount' /\ execCount' > 0
  <2> DEFINE Bounded == /\ crit' = "count" => need' <= MaxExec - execCount'
                        /\ crit' = "create" =>
                             need' > 0 /\ need' - 1 <= MaxExec - execCount' /\ execCount' > 0
  <2> SUFFICES Bounded
    OBVIOUS
  <2> USE ConstantFacts DEF TypeOK, FieldsTypeOK, MutexTypeOK
  <2>1. CASE StartCount
    BY <2>1 DEF StartCount, Counting
  <2>2. CASE StartCreate
    BY <2>2 DEF StartCreate, Counting, fields
  <2>3. CASE BootStart \/ StartLock
    BY <2>3, NeedIsNatural DEF BootStart, StartLock, EnterStart, fields
  <2>4. CASE crit' \notin {"count", "create"}
    BY <2>4
  <2>5. CASE execCount' = execCount /\ crit' = crit /\ need' = need
    BY <2>5 DEF Counting
  <2> HIDE DEF Bounded, TypeOK
  <2> QED
    BY <2>1, <2>2, <2>3, <2>4, <2>5, HolderStep, ExecCountStep
<1> QED
  BY <1>1, <1>2, <1>3 DEF Counting

-----------------------------------------------------------------------------
(* The life of one instance.                                                *)

\* No process is launched twice, so a process that is gone stays gone.
LEMMA DeadStaysDead ==
    ASSUME TypeOK, Lifecycle, [Next]_vars, NEW i \in Ids, proc[i] = "dead"
    PROVE  proc'[i] = "dead"
<1> DEFINE Dead == proc'[i] = "dead"
<1> SUFFICES Dead
  OBVIOUS
<1> USE DEF TypeOK, PersistentTypeOK
<1>1. CASE UNCHANGED <<store, proc>> \/ StartCount \/ StartPersist \/ DevModeOnEnd
  BY <1>1 DEF StartCount, StartPersist, DevModeOnEnd
<1>2. ASSUME NEW j \in AllIds, Launch(j) \/ StorePid(j) \/ StoreRunning(j) PROVE Dead
  BY <1>2 DEF Launch, StorePid, StoreRunning, Lifecycle, LaunchedOnce
<1>3. ASSUME NEW j \in Ids, WaiterClose(j) \/ ProcExit(j) PROVE Dead
  BY <1>3 DEF WaiterClose, ProcExit
<1>4. ASSUME NEW h \in Handlers, SweepKill(h) \/ SweepClose(h) PROVE Dead
  BY <1>4 DEF SweepKill, SweepClose
<1> HIDE DEF Dead, TypeOK
<1> QED
  BY <1>1, <1>2, <1>3, <1>4, Writers DEF WritersOfPersistent

\* What was given up stays so.
LEMMA AstrayStays ==
    ASSUME [Next]_vars, NEW i \in astray PROVE i \in astray' \/ Reboot
<1> DEFINE Goal == i \in astray' \/ Reboot
<1>1. ASSUME UNCHANGED odds PROVE Goal
  BY <1>1 DEF odds
<1>2. ASSUME NEW j \in Ids, WaitFails(j) \/ CheckReturns(j) \/ CheckRelist(j) PROVE Goal
  BY <1>2 DEF WaitFails, CheckReturns, CheckRelist
<1>3. ASSUME NEW h \in Handlers, SweepKillFails(h) PROVE Goal
  BY <1>3 DEF SweepKillFails
<1> HIDE DEF Goal
<1>4. Goal \/ Reboot
  BY <1>1, <1>2, <1>3, Writers DEF WritersOfOdds
<1> QED
  BY <1>4 DEF Goal

LEMMA OverStep ==
    ASSUME TypeOK, Lifecycle, [Next]_vars, NEW i \in Ids, Over(i)
    PROVE  Over(i)' \/ Reboot
BY DeadStaysDead, AstrayStays DEF Over

\* What leaves proc[i] = "none" is the launch of i.
LEMMA NoneUntilLaunch ==
    ASSUME TypeOK, Lifecycle, [Next]_vars, NEW i \in Ids, proc[i] = "none", ~Launch(i)
    PROVE  proc'[i] = "none"
<1> DEFINE None == proc'[i] = "none"
<1> SUFFICES None
  OBVIOUS
<1> USE DEF TypeOK, PersistentTypeOK
<1>1. CASE UNCHANGED <<store, proc>> \/ StartCount \/ StartPersist \/ DevModeOnEnd
  BY <1>1 DEF StartCount, StartPersist, DevModeOnEnd
<1>2. ASSUME NEW j \in AllIds, Launch(j) \/ StorePid(j) \/ StoreRunning(j) PROVE None
  BY <1>2 DEF Launch, StorePid, StoreRunning
<1>3. ASSUME NEW j \in Ids, WaiterClose(j) \/ ProcExit(j) PROVE None
  BY <1>3 DEF WaiterClose, ProcExit
<1>4. ASSUME NEW h \in Handlers, SweepKill(h) \/ SweepClose(h) PROVE None
  BY <1>4 DEF SweepKill, SweepClose, Stoppable, Lifecycle, LaunchedOnce
<1> HIDE DEF None, TypeOK
<1> QED
  BY <1>1, <1>2, <1>3, <1>4, Writers DEF WritersOfPersistent

\* An instance leaves t.instances when its process is over, or at a reboot.
LEMMA UntrackedIsOver ==
    ASSUME TypeOK, Lifecycle, [Next]_vars, NEW i \in Ids, i \in instances, i \notin instances'
    PROVE  Reboot \/ (Over(i) /\ waitLoop'[i] = waitLoop[i] /\ waitLoop[i] = "end")
<1> DEFINE Goal == Reboot \/ (Over(i) /\ waitLoop'[i] = waitLoop[i] /\ waitLoop[i] = "end")
<1> SUFFICES Goal
  OBVIOUS
<1>1. CASE UNCHANGED <<boot, targetInstances, execCount, instances>>
  BY <1>1
<1>2. CASE Boot \/ BootStart
  BY <1>2 DEF Boot, RecoverInstance, RecoverFails, RecoverDone, BootStart, EnterStart
<1>3. CASE StartLoop
  BY <1>3 DEF StartLoop, StartCount, StartCreate, StartPersist
<1>4. ASSUME NEW j \in AllIds, WatcherDelete(j) PROVE Goal
  BY <1>4, ConstantFacts DEF WatcherDelete, Key, Lifecycle, OverWhenDone, WatchedLast
<1>5. CASE DevModeOnEnd
  BY <1>5, ConstantFacts DEF DevModeOnEnd, WithPlaceholder
<1>6. CASE DevModeOn \/ DevModeOff
  BY <1>6 DEF DevModeOn, DevModeOff
<1> HIDE DEF Goal
<1>7. Reboot => Goal
  BY DEF Goal
<1> QED
  BY <1>1, <1>2, <1>3, <1>4, <1>5, <1>6, <1>7, Writers DEF WritersOfFields

\* How waitLoop[i] changes: a new goroutine, or the next step of one.
LEMMA WaitLoopStep ==
    ASSUME TypeOK, [Next]_vars, NEW i \in Ids
    PROVE  \/ Reboot
           \/ i \in todo /\ RecoverInstance(i)
           \/ StartCreate /\ i = execCount
           \/ WaitLoop(i)
           \/ /\ waitLoop'[i] = waitLoop[i]
              /\ (i \in recovered <=> i \in recovered') /\ (i \in process' => i \in process)
<1> DEFINE Kept == /\ waitLoop'[i] = waitLoop[i]
                   /\ (i \in recovered <=> i \in recovered') /\ (i \in process' => i \in process)
           Goal == \/ Reboot \/ (i \in todo /\ RecoverInstance(i)) \/ (StartCreate /\ i = execCount)
                   \/ WaitLoop(i) \/ Kept
<1> SUFFICES Goal
  OBVIOUS
<1> USE DEF TypeOK, InstancesTypeOK, AllIds
<1>1. CASE UNCHANGED <<marks, waitLoop, waiter, watcher>>
  BY <1>1 DEF marks
<1>2. ASSUME NEW j \in todo, RecoverInstance(j), j # i PROVE Kept
  BY <1>2 DEF RecoverInstance
<1>3. CASE StartCreate /\ i # execCount
  BY <1>3 DEF StartCreate, marks
<1>4. CASE DevModeOnEnd
  BY <1>4, ConstantFacts DEF DevModeOnEnd, Goto, marks
<1>5. CASE DevModeOff
  BY <1>5 DEF DevModeOff
<1>6. ASSUME NEW j \in AllIds, WaitLoop(j), j # i PROVE Kept
  BY <1>6
  DEF WaitLoop, WaitLoopBegin, Launch, LaunchFails, LaunchSkipped, StorePid, StoreRunning, Wait,
      AddToKnownListener, ListenerUnknown, AddListener, AddListenerFails, WaitLoopEnd, Goto, marks
<1>7. ASSUME NEW j \in AllIds, Watcher(j) PROVE Kept
  BY <1>7 DEF Watcher, WatcherDelete, WatcherEnd, marks
<1>8. ASSUME NEW j \in Ids, WaiterDone(j) \/ WaitFails(j) \/ WaiterClose(j) PROVE Kept
  BY <1>8 DEF WaiterDone, WaitFails, WaiterClose, marks
<1>9. ASSUME NEW h \in Handlers, SweepClose(h) PROVE Kept
  BY <1>9 DEF SweepClose
<1> HIDE DEF Kept, TypeOK, InstancesTypeOK, AllIds
<1> QED
  BY <1>1, <1>2, <1>3, <1>4, <1>5, <1>6, <1>7, <1>8, <1>9, Writers DEF WritersOfInstances


\* A process that was ever launched is never forgotten again.
LEMMA OnceLaunched ==
    ASSUME TypeOK, [Next]_vars, NEW i \in Ids, proc[i] # "none"
    PROVE  proc'[i] # "none"
<1> DEFINE Goal == proc'[i] # "none"
<1> SUFFICES Goal
  OBVIOUS
<1> USE DEF TypeOK, PersistentTypeOK
<1>1. CASE UNCHANGED <<store, proc>> \/ StartCount \/ StartPersist \/ DevModeOnEnd
  BY <1>1 DEF StartCount, StartPersist, DevModeOnEnd
<1>2. ASSUME NEW j \in AllIds, Launch(j) \/ StorePid(j) \/ StoreRunning(j) PROVE Goal
  BY <1>2 DEF Launch, StorePid, StoreRunning
<1>3. ASSUME NEW j \in Ids, WaiterClose(j) \/ ProcExit(j) PROVE Goal
  BY <1>3 DEF WaiterClose, ProcExit
<1>4. ASSUME NEW h \in Handlers, SweepKill(h) \/ SweepClose(h) PROVE Goal
  BY <1>4 DEF SweepKill, SweepClose
<1> HIDE DEF Goal, TypeOK
<1> QED
  BY <1>1, <1>2, <1>3, <1>4, Writers DEF WritersOfPersistent

\* Recover only takes ids off its list.
LEMMA TodoShrinks ==
    ASSUME [Next]_vars
    PROVE  Reboot \/ todo' \subseteq todo
<1> DEFINE Goal == todo' \subseteq todo
<1>1. CASE UNCHANGED <<boot, targetInstances, execCount, instances>>
  BY <1>1 DEF boot
<1>2. CASE Boot \/ BootStart
  BY <1>2 DEF Boot, RecoverInstance, RecoverFails, RecoverDone, BootStart, EnterStart
<1>3. CASE StartLoop
  BY <1>3 DEF StartLoop, StartCount, StartCreate, StartPersist, boot
<1>4. ASSUME NEW j \in AllIds, WatcherDelete(j) PROVE Goal
  BY <1>4 DEF WatcherDelete, boot
<1>5. CASE DevModeOnEnd \/ DevModeOn \/ DevModeOff
  BY <1>5 DEF DevModeOnEnd, DevModeOn, DevModeOff, boot
<1> HIDE DEF Goal
<1>6. Reboot \/ Goal
  BY <1>1, <1>2, <1>3, <1>4, <1>5, Writers DEF WritersOfFields, Goal
<1> QED
  BY <1>6 DEF Goal

LEMMA LaunchStep ==
    ASSUME TypeOK, Counting, Lifecycle, [Next]_vars, NEW i \in Ids
    PROVE  TrackedFirst(i)' /\ LaunchedOnce(i)' /\ RecoveredOnce(i)'
<1> DEFINE Goal == TrackedFirst(i)' /\ LaunchedOnce(i)' /\ RecoveredOnce(i)'
<1> SUFFICES Goal
  OBVIOUS
<1> USE DEF TypeOK, InstancesTypeOK, PersistentTypeOK, AllIds, TrackedFirst, LaunchedOnce,
            RecoveredOnce
<1>1. CASE Reboot
  BY <1>1 DEF Reboot
<1>2. CASE i \in todo /\ RecoverInstance(i)
  BY <1>2 DEF RecoverInstance, Recoverable
<1>3. CASE StartCreate /\ i = execCount
  BY <1>3 DEF StartCreate, marks, boot, Counting, Used, Lifecycle
<1>4. CASE WaitLoop(i)
  <2>1. CASE Launch(i)
    BY <2>1 DEF Launch, Goto, boot, Lifecycle
  <2>2. CASE ~Launch(i)
    BY <1>4, <2>2, ConstantFacts
    DEF WaitLoop, WaitLoopBegin, LaunchFails, LaunchSkipped, StorePid, StoreRunning, Wait,
        AddToKnownListener, ListenerUnknown, AddListener, AddListenerFails, WaitLoopEnd, Goto,
        marks, boot, Lifecycle
  <2> QED
    BY <2>1, <2>2
<1>5. CASE /\ ~Reboot /\ ~WaitLoop(i) /\ waitLoop'[i] = waitLoop[i]
           /\ (i \in recovered <=> i \in recovered') /\ (i \in process' => i \in process)
  <2>1. TrackedFirst(i)'
    BY <1>5, UntrackedIsOver DEF Lifecycle
  <2>2. LaunchedOnce(i)'
    BY <1>5, NoneUntilLaunch, OnceLaunched DEF Lifecycle, WaitLoop
  <2>3. RecoveredOnce(i)'
    BY <1>5, TodoShrinks DEF Lifecycle
  <2> QED
    BY <2>1, <2>2, <2>3
<1> HIDE DEF Goal, TypeOK
<1> QED
  BY <1>1, <1>2, <1>3, <1>4, <1>5, WaitLoopStep

LEMMA WatchStep ==
    ASSUME TypeOK, Counting, Lifecycle, [Next]_vars, NEW i \in Ids
    PROVE  WatchedLast(i)'
<1> DEFINE Goal == WatchedLast(i)'
<1> SUFFICES Goal
  OBVIOUS
<1> USE DEF TypeOK, InstancesTypeOK, AllIds, WatchedLast
<1>1. CASE Reboot
  BY <1>1 DEF Reboot
<1>2. CASE UNCHANGED <<marks, waitLoop, waiter, watcher>>
  BY <1>2 DEF Lifecycle
<1>3. ASSUME NEW j \in todo, RecoverInstance(j) PROVE Goal
  BY <1>3 DEF RecoverInstance, Lifecycle, RecoveredOnce
<1>4. CASE StartCreate
  BY <1>4 DEF StartCreate, Counting, Used, Lifecycle
<1>5. CASE DevModeOnEnd
  BY <1>5, ConstantFacts DEF DevModeOnEnd, Goto, Lifecycle
<1>6. CASE DevModeOff
  BY <1>6 DEF DevModeOff, Lifecycle
<1>7. ASSUME NEW j \in AllIds, WaitLoop(j) PROVE Goal
  BY <1>7
  DEF WaitLoop, WaitLoopBegin, Launch, LaunchFails, LaunchSkipped, StorePid, StoreRunning, Wait,
      AddToKnownListener, ListenerUnknown, AddListener, AddListenerFails, WaitLoopEnd, Goto,
      Lifecycle
<1>8. ASSUME NEW j \in AllIds, Watcher(j) PROVE Goal
  BY <1>8 DEF Watcher, WatcherDelete, WatcherEnd, Lifecycle
<1>9. ASSUME NEW j \in Ids, WaiterDone(j) \/ WaitFails(j) \/ WaiterClose(j) PROVE Goal
  BY <1>9 DEF WaiterDone, WaitFails, WaiterClose, Lifecycle
<1>10. ASSUME NEW h \in Handlers, SweepClose(h) PROVE Goal
  BY <1>10 DEF SweepClose, Lifecycle
<1> HIDE DEF Goal, TypeOK
<1> QED
  BY <1>1, <1>2, <1>3, <1>4, <1>5, <1>6, <1>7, <1>8, <1>9, <1>10, Writers DEF WritersOfInstances

\* An instance that is waited for was launched, or recovered.
LEMMA LaunchedFirstStep ==
    ASSUME TypeOK, Counting, Lifecycle, [Next]_vars, NEW i \in Ids
    PROVE  LaunchedFirst(i)'
<1> DEFINE Goal == LaunchedFirst(i)'
<1> SUFFICES Goal
  OBVIOUS
<1> USE DEF TypeOK, InstancesTypeOK, AllIds, LaunchedFirst
<1>1. CASE Reboot
  BY <1>1 DEF Reboot
<1>2. CASE UNCHANGED <<marks, waitLoop, waiter, watcher>>
  BY <1>2 DEF marks, Lifecycle
<1>3. ASSUME NEW j \in todo, RecoverInstance(j) PROVE Goal
  BY <1>3 DEF RecoverInstance, Lifecycle
<1>4. CASE StartCreate
  BY <1>4 DEF StartCreate, marks, Lifecycle
<1>5. CASE DevModeOnEnd
  BY <1>5, ConstantFacts DEF DevModeOnEnd, Goto, marks, Lifecycle
<1>6. CASE DevModeOff
  BY <1>6 DEF DevModeOff, Lifecycle
<1>7. ASSUME NEW j \in AllIds, WaitLoop(j) PROVE Goal
  BY <1>7
  DEF WaitLoop, WaitLoopBegin, Launch, LaunchFails, LaunchSkipped, StorePid, StoreRunning, Wait,
      AddToKnownListener, ListenerUnknown, AddListener, AddListenerFails, WaitLoopEnd, Goto,
      marks, Lifecycle
<1>8. ASSUME NEW j \in AllIds, Watcher(j) PROVE Goal
  BY <1>8 DEF Watcher, WatcherDelete, WatcherEnd, marks, Lifecycle
<1>9. ASSUME NEW j \in Ids, WaiterDone(j) \/ WaitFails(j) \/ WaiterClose(j) PROVE Goal
  BY <1>9 DEF WaiterDone, WaitFails, WaiterClose, marks, Lifecycle
<1>10. ASSUME NEW h \in Handlers, SweepClose(h) PROVE Goal
  BY <1>10 DEF SweepClose, Lifecycle
<1> HIDE DEF Goal, TypeOK
<1> QED
  BY <1>1, <1>2, <1>3, <1>4, <1>5, <1>6, <1>7, <1>8, <1>9, <1>10, Writers DEF WritersOfInstances

LEMMA DoneStep ==
    ASSUME TypeOK, Lifecycle, [Next]_vars, NEW i \in Ids
    PROVE  OverWhenDone(i)'
<1>0. CASE Reboot
  BY <1>0 DEF Reboot, OverWhenDone
<1>1. CASE Over(i)
  BY <1>0, <1>1, OverStep DEF OverWhenDone
<1>2. CASE ~Over(i)
  <2> DEFINE Goal == ~(waiter'[i] = "close" \/ i \in isDone') \/ Over(i)'
  <2>1. ~(waiter[i] = "close" \/ i \in isDone)
    BY <1>2 DEF Lifecycle, OverWhenDone
  <2> USE DEF TypeOK, InstancesTypeOK, AllIds
  <2>2. CASE Reboot
    BY <2>2 DEF Reboot, OverWhenDone
  <2>3. ASSUME UNCHANGED <<marks, waitLoop, waiter, watcher>> PROVE Goal
    BY <2>1, <2>3 DEF marks
  <2>4. ASSUME NEW j \in todo, RecoverInstance(j) PROVE Goal
    BY <2>1, <2>4 DEF RecoverInstance
  <2>5. ASSUME StartCreate \/ DevModeOnEnd PROVE Goal
    BY <2>1, <2>5 DEF StartCreate, DevModeOnEnd, marks
  <2>6. ASSUME DevModeOff PROVE Goal
    BY <2>1, <2>6, ConstantFacts DEF DevModeOff, OpenDevs
  <2>7. ASSUME NEW j \in AllIds, WaitLoop(j) PROVE Goal
    BY <2>1, <2>7
    DEF WaitLoop, WaitLoopBegin, Launch, LaunchFails, LaunchSkipped, StorePid, StoreRunning, Wait,
        AddToKnownListener, ListenerUnknown, AddListener, AddListenerFails, WaitLoopEnd, marks
  <2>8. ASSUME NEW j \in AllIds, Watcher(j) PROVE Goal
    BY <2>1, <2>8 DEF Watcher, WatcherDelete, WatcherEnd, marks
  <2>9. ASSUME NEW j \in Ids, WaiterDone(j) PROVE Goal
    BY <2>1, <2>9, <1>2 DEF WaiterDone, Gone, marks, Over
  <2>13. ASSUME NEW j \in Ids, WaitFails(j) PROVE Goal
    BY <2>1, <2>13 DEF WaitFails, marks, Over
  <2>10. ASSUME NEW j \in Ids, WaiterClose(j) PROVE Goal
    BY <2>1, <2>10 DEF WaiterClose, Done
  <2>11. ASSUME NEW h \in Handlers, SweepClose(h) PROVE Goal
    BY <2>1, <2>11, <1>2 DEF SweepClose, Done, Lifecycle, KilledFirst
  <2> HIDE DEF Goal, TypeOK
  <2>12. Reboot \/ Goal
    BY <2>3, <2>4, <2>5, <2>6, <2>7, <2>8, <2>9, <2>10, <2>11, <2>13, Writers DEF WritersOfInstances
  <2> QED
    BY <2>2, <2>12 DEF Goal, OverWhenDone
<1> QED
  BY <1>1, <1>2

LEMMA AliveStep ==
    ASSUME TypeOK, Counting, Lifecycle, [Next]_vars, NEW i \in Ids
    PROVE  AliveTracked(i)'
<1>1. CASE Reboot
  BY <1>1 DEF Reboot, AliveTracked
<1>2. CASE i \in todo /\ RecoverInstance(i)
  BY <1>2 DEF RecoverInstance, AliveTracked
<1>3. CASE StartCreate /\ i = execCount
  BY <1>3 DEF StartCreate, AliveTracked
<1>4. CASE WaitLoop(i)
  <2>1. CASE Launch(i)
    BY <2>1 DEF Launch, AliveTracked, Lifecycle, TrackedFirst
  <2>2. CASE ~Launch(i)
    BY <1>4, <2>2
    DEF WaitLoop, WaitLoopBegin, LaunchFails, LaunchSkipped, StorePid, StoreRunning, Wait,
        AddToKnownListener, ListenerUnknown, AddListener, AddListenerFails, WaitLoopEnd,
        marks, odds, AliveTracked, Lifecycle
  <2> QED
    BY <2>1, <2>2
<1>5. CASE ~Reboot /\ ~WaitLoop(i) /\ (i \in process' => i \in process)
  <2>1. CASE i \in process /\ proc[i] = "alive"
    <3>1. i \in instances \cup astray
      BY <2>1 DEF Lifecycle, AliveTracked
    <3>2. CASE Over(i)
      BY <1>5, <2>1, <3>2, AstrayStays DEF Over, AliveTracked
    <3>3. CASE i \in instances'
      BY <3>3 DEF AliveTracked
    <3> QED
      BY <1>5, <3>1, <3>2, <3>3, UntrackedIsOver DEF Over
  <2>2. CASE i \in process /\ proc[i] = "dead"
    BY <2>2, DeadStaysDead DEF AliveTracked
  <2>3. CASE i \notin process
    BY <1>5, <2>3 DEF AliveTracked
  <2>4. i \in process => proc[i] \in {"alive", "dead"}
    BY DEF Lifecycle, LaunchedOnce, TypeOK, PersistentTypeOK
  <2> QED
    BY <2>1, <2>2, <2>3, <2>4
<1> QED
  BY <1>1, <1>2, <1>3, <1>4, <1>5, WaitLoopStep

LEMMA KillStep ==
    ASSUME TypeOK, Lifecycle, [Next]_vars, NEW h \in Handlers
    PROVE  KilledFirst(h)'
<1> DEFINE Killed == sweep'[h].pc \in {"done", "close"} =>
                         sweep'[h].cur \in Ids /\ Over(sweep'[h].cur)
<1> USE DEF TypeOK, SweepTypeOK, PersistentTypeOK, Lifecycle, KilledFirst
<1>1. ASSUME UNCHANGED sweep PROVE Killed
  BY <1>1
<1>2. ASSUME Reboot PROVE Killed
  BY <1>2 DEF Reboot, NoSweep
<1>3. ASSUME StartCreate PROVE Killed
  BY <1>3 DEF StartCreate, Handlers
<1>4. ASSUME SweepEnd PROVE Killed
  BY <1>4 DEF SweepEnd, StopEnd, SetEnvEnd, DevModeOnEnd, NoSweep, Handlers
<1>5. ASSUME StopTask \/ SetEnv \/ DevModeOn PROVE Killed
  BY <1>5 DEF StopTask, SetEnv, DevModeOn, Handlers
<1>6. ASSUME NEW g \in Handlers, SweepLoop(g), ~SweepKill(g), ~SweepKillFails(g) PROVE Killed
  BY <1>6 DEF SweepLoop, SweepSkip, SweepDone, SweepClose, SweepPanic, NoSweep, Handlers
<1>7. ASSUME NEW g \in Handlers, SweepKill(g) \/ SweepKillFails(g), g # h PROVE Killed
  BY <1>7 DEF SweepKill, SweepKillFails, Handlers
<1>8. ASSUME SweepKill(h) \/ SweepKillFails(h) PROVE KilledFirst(h)'
  BY <1>8 DEF SweepKill, SweepKillFails, Stoppable, Over
<1>9. ASSUME Killed, ~Reboot PROVE KilledFirst(h)'
  <2>1. ASSUME sweep'[h].cur \in Ids, Over(sweep'[h].cur) PROVE Over(sweep[h].cur)'
    <3> DEFINE c == sweep'[h].cur
    <3>1. proc'[c] = "dead" \/ c \in astray'
      BY <1>9, <2>1, OverStep DEF Over
    <3> QED
      BY <3>1 DEF Over
  <2> QED
    BY <1>9, <2>1
<1>11. ASSUME Reboot PROVE KilledFirst(h)'
  BY <1>11 DEF Reboot, NoSweep
<1>12. ASSUME ReapEnd PROVE Killed
  BY <1>12 DEF ReapEnd, NoSweep, Handlers
<1>13. ASSUME NEW j \in Ids, CheckReaps(j) PROVE Killed
  BY <1>13 DEF CheckReaps, Handlers
<1> HIDE DEF Killed, TypeOK, Lifecycle, KilledFirst
<1>10. Killed \/ SweepKill(h) \/ SweepKillFails(h)
  BY <1>1, <1>2, <1>3, <1>4, <1>5, <1>6, <1>7, <1>12, <1>13, Writers DEF WritersOfSweep
<1> QED
  BY <1>8, <1>9, <1>10, <1>11

LEMMA LifecycleStep == TypeOK /\ Counting /\ Lifecycle /\ [Next]_vars => Lifecycle'
<1> SUFFICES ASSUME TypeOK, Counting, Lifecycle, [Next]_vars PROVE Lifecycle'
  OBVIOUS
<1>1. ASSUME NEW i \in Ids
      PROVE  /\ TrackedFirst(i)' /\ LaunchedOnce(i)' /\ RecoveredOnce(i)'
             /\ WatchedLast(i)' /\ LaunchedFirst(i)' /\ OverWhenDone(i)' /\ AliveTracked(i)'
  BY LaunchStep, WatchStep, LaunchedFirstStep, DoneStep, AliveStep
<1>2. ASSUME NEW h \in Handlers PROVE KilledFirst(h)'
  BY KillStep
<1> QED
  BY <1>1, <1>2 DEF Lifecycle

-----------------------------------------------------------------------------
(* Quota.                                                                   *)

LEMMA CreatedIsFinite ==
    ASSUME TypeOK
    PROVE  /\ IsFiniteSet(Created) /\ Cardinality(Created) \in Nat
           /\ Cardinality(instances) \in Nat /\ Cardinality(Created) <= Cardinality(instances)
<1>1. IsFiniteSet(instances) /\ Created \subseteq instances
  BY ConstantFacts, FS_Subset DEF TypeOK, FieldsTypeOK, Created
<1> QED
  BY <1>1, FS_Subset, FS_CardinalityType

\* Only StartCreate adds to the created instances.
LEMMA CreatedStep ==
    ASSUME [Next]_vars
    PROVE  StartCreate \/ Created' \subseteq Created
<1> DEFINE Smaller == Created' \subseteq Created
<1> SUFFICES StartCreate \/ Smaller
  OBVIOUS
<1>1. ASSUME Reboot PROVE Smaller
  BY <1>1 DEF Reboot, Created
<1>2. ASSUME NEW j \in todo, RecoverInstance(j) PROVE Smaller
  BY <1>2 DEF RecoverInstance, Created
<1>3. recovered \subseteq recovered' \/ Reboot
  <2> DEFINE Grows == recovered \subseteq recovered'
  <2> SUFFICES Grows \/ Reboot
    OBVIOUS
  <2>1. ASSUME UNCHANGED <<marks, waitLoop, waiter, watcher>> PROVE Grows
    BY <2>1 DEF marks
  <2>2. ASSUME NEW j \in todo, RecoverInstance(j) PROVE Grows
    BY <2>2 DEF RecoverInstance
  <2>3. ASSUME StartCreate \/ DevModeOnEnd \/ DevModeOff PROVE Grows
    BY <2>3 DEF StartCreate, DevModeOnEnd, DevModeOff, marks
  <2>4. ASSUME NEW j \in AllIds, WaitLoop(j) \/ Watcher(j) PROVE Grows
    BY <2>4
    DEF WaitLoop, WaitLoopBegin, Launch, LaunchFails, LaunchSkipped, StorePid, StoreRunning, Wait,
        AddToKnownListener, ListenerUnknown, AddListener, AddListenerFails, WaitLoopEnd, marks,
        Watcher, WatcherDelete, WatcherEnd
  <2>5. ASSUME NEW j \in Ids, WaiterDone(j) \/ WaitFails(j) \/ WaiterClose(j) PROVE Grows
    BY <2>5 DEF WaiterDone, WaitFails, WaiterClose, marks
  <2>6. ASSUME NEW h \in Handlers, SweepClose(h) PROVE Grows
    BY <2>6 DEF SweepClose
  <2> HIDE DEF Grows
  <2> QED
    BY <2>1, <2>2, <2>3, <2>4, <2>5, <2>6, Writers DEF WritersOfInstances
<1>4. \/ instances' \cap Ids \subseteq instances \/ Reboot \/ StartCreate
      \/ \E j \in todo : RecoverInstance(j)
  <2> DEFINE Shrinks == instances' \cap Ids \subseteq instances
  <2> SUFFICES \/ Shrinks \/ Reboot \/ StartCreate \/ \E j \in todo : RecoverInstance(j)
    OBVIOUS
  <2>1. ASSUME UNCHANGED <<boot, targetInstances, execCount, instances>> PROVE Shrinks
    BY <2>1
  <2>2. ASSUME RecoverFails \/ RecoverDone \/ BootStart PROVE Shrinks
    BY <2>2 DEF RecoverFails, RecoverDone, BootStart, EnterStart
  <2>3. ASSUME StartCount \/ StartPersist PROVE Shrinks
    BY <2>3 DEF StartCount, StartPersist
  <2>4. ASSUME NEW j \in AllIds, WatcherDelete(j) PROVE Shrinks
    BY <2>4 DEF WatcherDelete
  <2>5. ASSUME DevModeOnEnd PROVE Shrinks
    BY <2>5, ConstantFacts DEF DevModeOnEnd, WithPlaceholder
  <2>6. ASSUME DevModeOn \/ DevModeOff PROVE Shrinks
    BY <2>6 DEF DevModeOn, DevModeOff
  <2> HIDE DEF Shrinks
  <2> QED
    BY <2>1, <2>2, <2>3, <2>4, <2>5, <2>6, Writers DEF WritersOfFields, Boot, StartLoop
<1>5. ASSUME recovered \subseteq recovered', instances' \cap Ids \subseteq instances PROVE Smaller
  BY <1>5 DEF Created
<1> HIDE DEF Smaller
<1> QED
  BY <1>1, <1>2, <1>3, <1>4, <1>5

LEMMA QuotaStep == TypeOK /\ Counting /\ Quota /\ [Next]_vars => Quota'
<1> SUFFICES ASSUME TypeOK, Counting, Quota, [Next]_vars PROVE Quota'
  OBVIOUS
<1> USE ConstantFacts, CreatedIsFinite
<1>1. CASE StartCreate
  <2>1. Created' \subseteq Created \cup {execCount}
    BY <1>1 DEF StartCreate, Created, marks
  <2>2. Cardinality(Created') \in Nat /\ Cardinality(Created') <= Cardinality(Created) + 1
    <3>1. /\ IsFiniteSet(Created \cup {execCount})
          /\ Cardinality(Created \cup {execCount}) \in {Cardinality(Created), Cardinality(Created) + 1}
      BY FS_AddElement
    <3>2. Cardinality(Created') \in Nat /\ Cardinality(Created') <= Cardinality(Created \cup {execCount})
      BY <2>1, <3>1, FS_Subset, FS_CardinalityType
    <3> QED
      BY <3>1, <3>2
  <2>3. Cardinality(Created) + need <= OriginalTarget /\ need \in Nat /\ need > 0
    BY <1>1 DEF StartCreate, Quota, Counting, TypeOK, MutexTypeOK
  <2>4. need' = need - 1
    BY <1>1 DEF StartCreate
  <2> QED
    BY <2>2, <2>3, <2>4 DEF Quota
<1>2. CASE ~StartCreate
  <2>1. Cardinality(Created') \in Nat /\ Cardinality(Created') <= Cardinality(Created)
    BY <1>2, CreatedStep, FS_Subset, FS_CardinalityType
  <2>2. Cardinality(Created') <= OriginalTarget
    BY <2>1 DEF Quota
  <2>3. CASE BootStart \/ StartLock
    <3>1. need' = Capped(Need)
      BY <2>3 DEF BootStart, StartLock, EnterStart
    <3>2. targetInstances \in Nat /\ targetInstances <= OriginalTarget /\ execCount \in Nat
      BY DEF TypeOK, FieldsTypeOK
    <3>3. Capped(Need) <= 0 \/ Capped(Need) <= OriginalTarget - Cardinality(instances)
      BY <3>2 DEF Capped, Need
    <3>4. Cardinality(Created) + Capped(Need) <= OriginalTarget
      BY <3>3, NeedIsNatural DEF Quota
    <3> QED
      BY <2>1, <2>2, <3>1, <3>4, NeedIsNatural DEF Quota
  <2>4. CASE StartCount \/ (crit' = crit /\ need' = need)
    <3>1. need' = need /\ (crit' \in {"count", "create"} => crit \in {"count", "create"})
      BY <2>4 DEF StartCount
    <3> QED
      BY <2>1, <2>2, <3>1 DEF Quota, TypeOK, MutexTypeOK
  <2>5. CASE crit' \notin {"count", "create"}
    BY <2>2, <2>5 DEF Quota
  <2> QED
    BY <1>2, <2>3, <2>4, <2>5, HolderStep
<1> QED
  BY <1>1, <1>2

-----------------------------------------------------------------------------
(* The theorems.                                                            *)

LEMMA NextIInv == IInv /\ [Next]_vars => IInv'
BY TypeStep, CountingStep, LifecycleStep, QuotaStep DEF IInv

\* The inductive invariant holds: an instance is numbered, tracked, launched,
\* waited for and untracked in that order, whatever paasbox is asked for and
\* however often it crashes.
THEOREM Invariance == Spec => []IInv
BY InitIInv, NextIInv, PTL DEF Spec

\* Every variable keeps the values the program gives it (task.go, instance.go).
THEOREM TypeCorrect == Spec => []TypeOK
<1>1. IInv => TypeOK
  BY DEF IInv
<1> QED
  BY <1>1, Invariance, PTL

\* Start never reuses the number of an instance, also not after a crash between
\* its writes to the store (task.go:613-635).
THEOREM FreshIdsHolds == Spec => []FreshIds
<1>1. IInv => FreshIds
  <2> SUFFICES ASSUME IInv, crit = "create" PROVE FreshIds
    BY DEF FreshIds
  <2>1. execCount \in Ids
    BY ConstantFacts DEF IInv, Counting, TypeOK, FieldsTypeOK, Ids
  <2>2. ~Used(execCount)
    BY <2>1 DEF IInv, Counting
  <2> QED
    BY <2>1, <2>2 DEF Used, FreshIds
<1> QED
  BY <1>1, Invariance, PTL

\* No live process of this paasbox is out of reach of task.Stop and of the
\* healthchecks, which look for it in t.instances (task.go:730, 746-758).
THEOREM NoLostChildHolds == Spec => []NoLostChild
<1>1. IInv => NoLostChild
  BY DEF IInv, Lifecycle, AliveTracked, NoLostChild, TypeOK, InstancesTypeOK
<1> QED
  BY <1>1, Invariance, PTL

\* However many restarts, requests and crashes there are, Start never makes the
\* task exceed its configured number of instances (task.go:611-613).
THEOREM CreatedAtMostTargetHolds == Spec => []CreatedAtMostTarget
<1>1. IInv => CreatedAtMostTarget
  BY DEF IInv, Quota, CreatedAtMostTarget
<1> QED
  BY <1>1, Invariance, PTL

-----------------------------------------------------------------------------
(* What a task promises to others.                                         *)

\* The handler that sweeps under execMutex holds it as long as it sweeps.
SweepHolds == sweep["crit"].pc # "idle" => crit \in {"env", "devOn"}

\* Nothing Start created is missing from the stored list but while a Start is
\* between its first count and its last write.
Listed == crit \notin {"count", "create"} => Created \subseteq store.instanceIDs

StoreInv == SweepHolds /\ Listed

\* An instance whose waitLoop is at work has not been untracked, as its watcher
\* is only started at the end; so what waitLoop adds to the load balancer is
\* tracked when it is added.
AtWork(i) ==
    waitLoop[i] \in {"begin", "start", "pid", "run", "wait", "lb", "bind"} => i \in instances

BackendInv == \A i \in Ids : AtWork(i) /\ ListedIsTracked(i)

-----------------------------------------------------------------------------
(* The store.                                                               *)

\* execMutex is freed by its holder, by a handler that panics, or by a crash.
LEMMA CritStep ==
    ASSUME TypeOK, SweepHolds, [Next]_vars
    PROVE  \/ Reboot \/ BootStart \/ StartLock \/ StartCount \/ StartCreate \/ StartPersist
           \/ crit \notin {"count", "create"} \/ crit' = crit
<1> DEFINE Rest == crit \notin {"count", "create"} \/ crit' = crit
<1>1. ASSUME UNCHANGED mutex PROVE Rest
  BY <1>1 DEF mutex
<1>2. ASSUME SetEnvEnd \/ DevModeOnEnd PROVE Rest
  BY <1>2 DEF SetEnvEnd, DevModeOnEnd
<1>3. ASSUME NEW j \in AllIds, WatcherEnd(j) PROVE Rest
  BY <1>3 DEF WatcherEnd
<1>4. ASSUME NEW h \in Handlers, SweepPanic(h) PROVE Rest
  BY <1>4 DEF SweepPanic, SweepHolds
<1>5. ASSUME StartTask \/ SetEnv \/ DevModeOn \/ DevModeOff PROVE Rest
  BY <1>5 DEF StartTask, SetEnv, DevModeOn, DevModeOff
<1> HIDE DEF Rest
<1>6. Rest \/ Reboot \/ BootStart \/ StartLock \/ StartCount \/ StartCreate \/ StartPersist
  BY <1>1, <1>2, <1>3, <1>4, <1>5, Writers DEF WritersOfMutex, StartLoop
<1> QED
  BY <1>6 DEF Rest

LEMMA SweepHoldsStep ==
    ASSUME TypeOK, SweepHolds, [Next]_vars
    PROVE  SweepHolds'
<1> DEFINE Kept == sweep'["crit"].pc # "idle" => sweep["crit"].pc # "idle"
           Held == sweep'["crit"].pc # "idle" => crit' \in {"env", "devOn"}
<1> USE DEF TypeOK, SweepTypeOK, Handlers
<1>1. ASSUME UNCHANGED sweep PROVE Kept
  BY <1>1
<1>2. ASSUME Reboot \/ SetEnvEnd \/ DevModeOnEnd PROVE Held
  BY <1>2 DEF Reboot, SetEnvEnd, DevModeOnEnd, NoSweep
<1>3. ASSUME SetEnv \/ DevModeOn PROVE Held
  BY <1>3 DEF SetEnv, DevModeOn
<1>4. ASSUME StartCreate \/ StopEnd \/ StopTask PROVE Kept
  BY <1>4 DEF StartCreate, StopEnd, StopTask
<1>5. ASSUME NEW h \in Handlers, SweepLoop(h) PROVE Kept
  BY <1>5 DEF SweepLoop, SweepSkip, SweepKill, SweepKillFails, SweepDone, SweepClose, SweepPanic, NoSweep
<1>8. ASSUME ReapEnd PROVE Kept
  BY <1>8 DEF ReapEnd
<1>9. ASSUME NEW j \in Ids, CheckReaps(j) PROVE Kept
  BY <1>9 DEF CheckReaps
<1>6. Kept \/ Held
  <2> HIDE DEF Kept, Held, TypeOK, Handlers
  <2> QED
    BY <1>1, <1>2, <1>3, <1>4, <1>5, <1>8, <1>9, Writers DEF WritersOfSweep, SweepEnd
<1>7. ASSUME sweep["crit"].pc # "idle", sweep'["crit"].pc # "idle" PROVE Held
  <2>1. crit \in {"env", "devOn"}
    BY <1>7 DEF SweepHolds
  <2>2. ASSUME UNCHANGED mutex PROVE Held
    BY <2>1, <2>2 DEF mutex
  <2>3. ASSUME NEW j \in AllIds, WatcherEnd(j) PROVE Held
    BY <2>1, <2>3 DEF WatcherEnd
  <2>4. ASSUME NEW h \in Handlers, SweepPanic(h) PROVE Held
    BY <2>1, <2>4 DEF SweepPanic, NoSweep
  <2>5. ASSUME StartTask \/ SetEnv \/ DevModeOn \/ DevModeOff PROVE Held
    BY <2>1, <2>5 DEF StartTask, SetEnv, DevModeOn, DevModeOff
  <2>6. ~BootStart /\ ~StartLock /\ ~StartLoop
    BY <2>1 DEF BootStart, StartLock, EnterStart, StartLoop, StartCount, StartCreate, StartPersist
  <2> HIDE DEF Held, TypeOK, Handlers
  <2> QED
    BY <1>2, <2>2, <2>3, <2>4, <2>5, <2>6, Writers DEF WritersOfMutex
<1> QED
  BY <1>6, <1>7 DEF SweepHolds

LEMMA StoredIDsStep ==
    ASSUME TypeOK, [Next]_vars
    PROVE  \/ store'.instanceIDs = store.instanceIDs \/ StartPersist \/ DevModeOnEnd
<1> DEFINE Same == store'.instanceIDs = store.instanceIDs
<1> USE DEF TypeOK, PersistentTypeOK
<1>1. ASSUME UNCHANGED <<store, proc>> PROVE Same
  BY <1>1
<1>2. ASSUME StartCount PROVE Same
  BY <1>2 DEF StartCount
<1>3. ASSUME NEW j \in AllIds, Launch(j) \/ StorePid(j) \/ StoreRunning(j) PROVE Same
  BY <1>3 DEF Launch, StorePid, StoreRunning
<1>4. ASSUME NEW j \in Ids, WaiterClose(j) \/ ProcExit(j) PROVE Same
  BY <1>4 DEF WaiterClose, ProcExit, Done
<1>5. ASSUME NEW h \in Handlers, SweepKill(h) \/ SweepClose(h) PROVE Same
  BY <1>5 DEF SweepKill, SweepClose, Done
<1> HIDE DEF Same, TypeOK
<1>6. Same \/ StartPersist \/ DevModeOnEnd
  BY <1>1, <1>2, <1>3, <1>4, <1>5, Writers DEF WritersOfPersistent
<1> QED
  BY <1>6 DEF Same

LEMMA ListedStep ==
    ASSUME TypeOK, SweepHolds, Listed, [Next]_vars
    PROVE  Listed'
<1>1. CASE Reboot
  BY <1>1 DEF Reboot, Created, Listed
<1>2. CASE StartPersist \/ DevModeOnEnd
  <2>1. store'.instanceIDs = instances'
    BY <1>2 DEF StartPersist, PersistedIDs, DevModeOnEnd, TypeOK, PersistentTypeOK
  <2> QED
    BY <2>1 DEF Created, Listed
<1>3. CASE BootStart \/ StartLock \/ StartCount \/ StartCreate
  BY <1>3 DEF BootStart, StartLock, EnterStart, StartCount, StartCreate, Listed
<1>4. CASE /\ store'.instanceIDs = store.instanceIDs /\ Created' \subseteq Created
           /\ crit \notin {"count", "create"} \/ crit' = crit
  BY <1>4 DEF Listed
<1> QED
  BY <1>1, <1>2, <1>3, <1>4, StoredIDsStep, CritStep, CreatedStep

LEMMA StoreInvariance == Spec => []StoreInv
<1>1. Init => StoreInv
  BY DEF Init, StoreInv, SweepHolds, Listed, Created, NoSweep, Handlers
<1>2. TypeOK /\ StoreInv /\ [Next]_vars => StoreInv'
  BY SweepHoldsStep, ListedStep DEF StoreInv
<1> QED
  BY <1>1, <1>2, TypeCorrect, PTL DEF Spec

\* Whatever Starts, watchers, handlers and crashes do, while execMutex is free a
\* paasbox that starts after a crash finds in the store every tracked instance a
\* Start created (task.go:611-650).
THEOREM CreatedIsPersistedHolds == Spec => []CreatedIsPersisted
<1>1. StoreInv => CreatedIsPersisted
  BY DEF StoreInv, Listed, CreatedIsPersisted
<1> QED
  BY <1>1, StoreInvariance, PTL

-----------------------------------------------------------------------------
(* The load balancer.                                                       *)

\* An instance leaves t.instances through its watcher, or with the paasbox.
LEMMA UntrackStep ==
    ASSUME TypeOK, [Next]_vars, NEW i \in Ids, i \in instances, i \notin instances'
    PROVE  Reboot \/ WatcherDelete(i)
<1> DEFINE Goal == Reboot \/ WatcherDelete(i)
<1> SUFFICES Goal
  OBVIOUS
<1>1. CASE UNCHANGED <<boot, targetInstances, execCount, instances>> \/ DevModeOn \/ DevModeOff
  BY <1>1 DEF DevModeOn, DevModeOff
<1>2. CASE Boot \/ BootStart \/ StartLoop
  BY <1>2 DEF Boot, RecoverInstance, RecoverFails, RecoverDone, BootStart, EnterStart, StartLoop,
              StartCount, StartCreate, StartPersist
<1>3. ASSUME NEW j \in AllIds, WatcherDelete(j) PROVE Goal
  BY <1>3, ConstantFacts DEF WatcherDelete, Key
<1>4. CASE DevModeOnEnd
  BY <1>4, ConstantFacts DEF DevModeOnEnd, WithPlaceholder
<1> QED
  BY <1>1, <1>2, <1>3, <1>4, Writers DEF WritersOfFields

LEMMA AtWorkStep ==
    ASSUME IInv, [Next]_vars, NEW i \in Ids, AtWork(i)
    PROVE  AtWork(i)'
<1> USE DEF AtWork
<1>1. CASE Reboot
  BY <1>1 DEF Reboot, AllIds
<1>2. CASE i \in todo /\ RecoverInstance(i)
  BY <1>2 DEF RecoverInstance
<1>3. CASE StartCreate /\ i = execCount
  BY <1>3 DEF StartCreate
<1>4. CASE WaitLoop(i) \/ waitLoop'[i] = waitLoop[i]
  <2> DEFINE Pcs == {"begin", "start", "pid", "run", "wait", "lb", "bind"}
  <2>1. waitLoop'[i] \in Pcs => waitLoop[i] \in Pcs
    BY <1>4
    DEF WaitLoop, WaitLoopBegin, Launch, LaunchFails, LaunchSkipped, StorePid, StoreRunning, Wait,
        AddToKnownListener, ListenerUnknown, AddListener, AddListenerFails, WaitLoopEnd, Goto,
        IInv, TypeOK, InstancesTypeOK
  <2>2. CASE i \in instances => i \in instances'
    BY <2>1, <2>2
  <2>3. CASE WatcherDelete(i)
    BY <2>3 DEF WatcherDelete, IInv, Lifecycle, WatchedLast
  <2> QED
    BY <1>1, <2>2, <2>3, UntrackStep DEF IInv
<1> QED
  BY <1>1, <1>2, <1>3, <1>4, WaitLoopStep DEF IInv

LEMMA WatcherStep ==
    ASSUME TypeOK, [Next]_vars, NEW i \in Ids, watcher[i] = "unlist", watcher'[i] # "unlist"
    PROVE  Reboot \/ WatcherEnd(i) \/ WaitLoopEnd(i)
<1> DEFINE Kept == watcher'[i] = watcher[i]
           Goal == Reboot \/ WatcherEnd(i) \/ WaitLoopEnd(i) \/ Kept
<1> SUFFICES Goal
  OBVIOUS
<1> USE DEF TypeOK, InstancesTypeOK, AllIds
<1>1. ASSUME UNCHANGED <<marks, waitLoop, waiter, watcher>> PROVE Kept
  BY <1>1
<1>2. ASSUME NEW j \in todo, RecoverInstance(j) PROVE Kept
  BY <1>2 DEF RecoverInstance
<1>3. ASSUME StartCreate \/ DevModeOnEnd \/ DevModeOff PROVE Kept
  BY <1>3 DEF StartCreate, DevModeOnEnd, DevModeOff
<1>4. ASSUME NEW j \in AllIds, WaitLoop(j) PROVE Kept \/ WaitLoopEnd(i)
  BY <1>4
  DEF WaitLoop, WaitLoopBegin, Launch, LaunchFails, LaunchSkipped, StorePid, StoreRunning, Wait,
      AddToKnownListener, ListenerUnknown, AddListener, AddListenerFails, WaitLoopEnd
<1>5. ASSUME NEW j \in AllIds, Watcher(j) PROVE Kept \/ WatcherEnd(i)
  BY <1>5 DEF Watcher, WatcherDelete, WatcherEnd
<1>6. ASSUME NEW j \in Ids, WaiterDone(j) \/ WaitFails(j) \/ WaiterClose(j) PROVE Kept
  BY <1>6 DEF WaiterDone, WaitFails, WaiterClose
<1>7. ASSUME NEW h \in Handlers, SweepClose(h) PROVE Kept
  BY <1>7 DEF SweepClose
<1> HIDE DEF Kept, TypeOK
<1> QED
  BY <1>1, <1>2, <1>3, <1>4, <1>5, <1>6, <1>7, Writers DEF WritersOfInstances

\* Only waitLoop(i) and a healthcheck of i add it to a listener.
LEMMA ListStep ==
    ASSUME TypeOK, [Next]_vars, NEW i \in Ids, NEW k \in Ports,
           i \in backends'[k], i \notin backends[k]
    PROVE  (waitLoop[i] \in {"lb", "bind"} /\ instances' = instances) \/ CheckRelist(i)
<1> DEFINE Goal == (waitLoop[i] \in {"lb", "bind"} /\ instances' = instances) \/ CheckRelist(i)
<1> SUFFICES Goal
  OBVIOUS
<1> USE DEF TypeOK, LBTypeOK, Ports
<1>1. ASSUME UNCHANGED lb PROVE Goal
  BY <1>1 DEF lb
<1>2. ASSUME Reboot PROVE Goal
  BY <1>2 DEF Reboot
<1>3. ASSUME NEW j \in AllIds, AddToKnownListener(j) PROVE Goal
  BY <1>3 DEF AddToKnownListener
<1>4. ASSUME NEW j \in AllIds, AddListener(j) PROVE Goal
  BY <1>4 DEF AddListener, Goto
<1>5. ASSUME NEW j \in AllIds, WatcherEnd(j) PROVE Goal
  BY <1>5 DEF WatcherEnd, removeInstanceFromLB
<1>6. ASSUME NEW j \in Ids, CheckUnlist(j) PROVE Goal
  BY <1>6 DEF CheckUnlist, removeInstanceFromLB
<1>7. ASSUME NEW j \in Ids, CheckRelist(j) PROVE Goal
  <2>1. j = i
    BY <1>7 DEF CheckRelist
  <2> QED
    BY <1>7, <2>1
<1> HIDE DEF Goal, TypeOK
<1> QED
  BY <1>1, <1>2, <1>3, <1>4, <1>5, <1>6, <1>7, Writers DEF WritersOfLB

\* What a healthcheck lists too late is known to have been.
LEMMA RelistStep ==
    ASSUME IInv, NEW i \in Ids, CheckRelist(i)
    PROVE  i \in instances' \cup late' \/ watcher'[i] = "unlist"
BY DEF CheckRelist

LEMMA LateStays ==
    ASSUME [Next]_vars, NEW i \in late PROVE i \in late' \/ Reboot
<1> DEFINE Goal == i \in late' \/ Reboot
<1>1. ASSUME UNCHANGED odds PROVE Goal
  BY <1>1 DEF odds
<1>2. ASSUME NEW j \in Ids, WaitFails(j) \/ CheckReturns(j) \/ CheckRelist(j) PROVE Goal
  BY <1>2 DEF WaitFails, CheckReturns, CheckRelist
<1>3. ASSUME NEW h \in Handlers, SweepKillFails(h) PROVE Goal
  BY <1>3 DEF SweepKillFails
<1> HIDE DEF Goal
<1>4. Goal \/ Reboot
  BY <1>1, <1>2, <1>3, Writers DEF WritersOfOdds
<1> QED
  BY <1>4 DEF Goal

LEMMA ListedIsTrackedStep ==
    ASSUME IInv, [Next]_vars, NEW i \in Ids, AtWork(i), ListedIsTracked(i)
    PROVE  ListedIsTracked(i)'
<1> SUFFICES ASSUME NEW k \in Ports, i \in backends'[k]
             PROVE  i \in instances' \cup late' \/ watcher'[i] = "unlist"
  BY DEF ListedIsTracked, Ports
<1>1. CASE i \notin backends[k]
  BY <1>1, ListStep, RelistStep DEF AtWork, IInv
<1>2. CASE i \in backends[k]
  <2>1. ~Reboot
    BY DEF Reboot
  <2>2. i \in instances \/ watcher[i] = "unlist" \/ i \in late'
    BY <1>2, <2>1, LateStays DEF ListedIsTracked
  <2>3. CASE WatcherDelete(i)
    BY <2>3 DEF WatcherDelete, IInv, TypeOK, InstancesTypeOK, AllIds
  <2>4. ~WatcherEnd(i)
    BY DEF WatcherEnd, removeInstanceFromLB
  <2>5. watcher[i] = "unlist" => ~WaitLoopEnd(i)
    BY DEF WaitLoopEnd, IInv, Lifecycle, WatchedLast
  <2> QED
    BY <2>1, <2>2, <2>3, <2>4, <2>5, UntrackStep, WatcherStep DEF IInv
<1> QED
  BY <1>1, <1>2

\* The load balancer never forwards to an instance the task has forgotten, but
\* for the moment its watcher needs between the two (task.go:727-742), or when a
\* healthcheck lists the instance after that (healthcheck.go:166).
THEOREM NoStaleBackendHolds == Spec => []NoStaleBackend
<1>1. Init => BackendInv
  BY DEF Init, BackendInv, AtWork, ListedIsTracked, AllIds
<1>2. IInv /\ BackendInv /\ [Next]_vars => BackendInv'
  <2> SUFFICES ASSUME IInv, BackendInv, [Next]_vars, NEW i \in Ids
               PROVE  AtWork(i)' /\ ListedIsTracked(i)'
    BY DEF BackendInv, Ids
  <2> QED
    BY AtWorkStep, ListedIsTrackedStep DEF BackendInv
<1>3. BackendInv => NoStaleBackend
  BY DEF BackendInv, NoStaleBackend
<1> QED
  BY <1>1, <1>2, <1>3, Invariance, PTL DEF Spec
-----------------------------------------------------------------------------
(* The archive. The end of an instance may be written before its start is,   *)
(* when a handler calls Stop in between; then nobody waits for its process.  *)

\* The waiter starts after waitLoop has stored running = "true" ...
WaitedFor(i) == waiter[i] # "none" => waitLoop[i] \in {"lb", "bind", "end", "failed"}

\* ... and whoever closes doneCh stores "false" before.
Reported(i) == i \in isDone \cap store.running => waiter[i] = "none"

ExitInv == \A i \in Ids : WaitedFor(i) /\ Reported(i)

LEMMA WaitedForStep ==
    ASSUME IInv, NEW i \in Ids, WaitedFor(i), [Next]_vars
    PROVE  WaitedFor(i)'
<1> DEFINE Goal == WaitedFor(i)'
<1> SUFFICES Goal
  OBVIOUS
<1>0. TypeOK /\ Counting /\ Lifecycle
  BY DEF IInv
<1> USE DEF TypeOK, InstancesTypeOK, AllIds, WaitedFor
<1>1. ASSUME Reboot PROVE Goal
  BY <1>1 DEF Reboot
<1>2. ASSUME UNCHANGED <<marks, waitLoop, waiter, watcher>> PROVE Goal
  BY <1>2
<1>3. ASSUME NEW j \in todo, RecoverInstance(j) PROVE Goal
  BY <1>3, <1>0 DEF RecoverInstance, Lifecycle, RecoveredOnce
<1>4. ASSUME StartCreate PROVE Goal
  BY <1>4, <1>0 DEF StartCreate, Counting, Used
<1>5. ASSUME NEW j \in AllIds, WaitLoop(j) PROVE Goal
  BY <1>5, <1>0
  DEF WaitLoop, WaitLoopBegin, Launch, LaunchFails, LaunchSkipped, StorePid, StoreRunning, Wait,
      AddToKnownListener, ListenerUnknown, AddListener, AddListenerFails, WaitLoopEnd, Goto
<1>6. ASSUME NEW j \in AllIds, Watcher(j) PROVE Goal
  BY <1>6 DEF Watcher, WatcherDelete, WatcherEnd
<1>7. ASSUME NEW j \in Ids, WaiterDone(j) \/ WaitFails(j) \/ WaiterClose(j) PROVE Goal
  BY <1>7, <1>0 DEF WaiterDone, WaitFails, WaiterClose
<1>8. ASSUME NEW h \in Handlers, SweepClose(h) PROVE Goal
  BY <1>8 DEF SweepClose
<1>9. ASSUME DevModeOnEnd PROVE Goal
  BY <1>9, ConstantFacts DEF DevModeOnEnd, Goto
<1>10. ASSUME DevModeOff PROVE Goal
  BY <1>10 DEF DevModeOff
<1> HIDE DEF Goal, TypeOK, WaitedFor
<1> QED
  BY <1>1, <1>2, <1>3, <1>4, <1>5, <1>6, <1>7, <1>8, <1>9, <1>10, Writers DEF WritersOfInstances

\* What is stored of an instance that runs is stored by its waitLoop.
LEMMA RunningStep ==
    ASSUME TypeOK, [Next]_vars, NEW i \in Ids, i \in store'.running, i \notin store.running
    PROVE  StoreRunning(i)
<1> DEFINE Goal == StoreRunning(i)
<1> SUFFICES Goal
  OBVIOUS
<1> USE DEF TypeOK, PersistentTypeOK
<1>1. ASSUME UNCHANGED <<store, proc>> PROVE Goal
  BY <1>1
<1>2. ASSUME StartCount \/ StartPersist \/ DevModeOnEnd PROVE Goal
  BY <1>2 DEF StartCount, StartPersist, DevModeOnEnd
<1>3. ASSUME NEW j \in AllIds, Launch(j) \/ StorePid(j) \/ StoreRunning(j) PROVE Goal
  BY <1>3 DEF Launch, StorePid, StoreRunning
<1>4. ASSUME NEW j \in Ids, WaiterClose(j) \/ ProcExit(j) PROVE Goal
  BY <1>4 DEF WaiterClose, ProcExit, Done
<1>5. ASSUME NEW h \in Handlers, SweepKill(h) \/ SweepClose(h) PROVE Goal
  BY <1>5 DEF SweepKill, SweepClose, Done
<1> HIDE DEF Goal, TypeOK
<1> QED
  BY <1>1, <1>2, <1>3, <1>4, <1>5, Writers DEF WritersOfPersistent

\* Who closes doneCh records the end.
LEMMA IsDoneStep ==
    ASSUME TypeOK, [Next]_vars, NEW i \in Ids, i \in isDone', i \notin isDone
    PROVE  i \notin store'.running
<1> DEFINE Goal == i \notin store'.running
           Open == i \notin isDone'
<1> USE DEF TypeOK, PersistentTypeOK
<1>1. ASSUME UNCHANGED <<marks, waitLoop, waiter, watcher>> \/ Reboot PROVE Open
  BY <1>1 DEF Reboot, marks
<1>2. ASSUME NEW j \in todo, RecoverInstance(j) PROVE Open
  BY <1>2 DEF RecoverInstance
<1>3. ASSUME StartCreate \/ DevModeOnEnd PROVE Open
  BY <1>3 DEF StartCreate, DevModeOnEnd, marks
<1>4. ASSUME DevModeOff PROVE Open
  BY <1>4, ConstantFacts DEF DevModeOff, OpenDevs
<1>5. ASSUME NEW j \in AllIds, WaitLoop(j) \/ Watcher(j) PROVE Open
  BY <1>5
  DEF WaitLoop, WaitLoopBegin, Launch, LaunchFails, LaunchSkipped, StorePid, StoreRunning, Wait,
      AddToKnownListener, ListenerUnknown, AddListener, AddListenerFails, WaitLoopEnd, marks,
      Watcher, WatcherDelete, WatcherEnd
<1>6. ASSUME NEW j \in Ids, WaiterDone(j) \/ WaitFails(j) PROVE Open
  BY <1>6 DEF WaiterDone, WaitFails, marks
<1>7. ASSUME NEW j \in Ids, WaiterClose(j) PROVE Goal
  BY <1>7 DEF WaiterClose, Done
<1>8. ASSUME NEW h \in Handlers, SweepClose(h) PROVE Goal
  BY <1>8 DEF SweepClose, Done
<1> HIDE DEF Goal, Open, TypeOK
<1>9. Goal \/ Open
  BY <1>1, <1>2, <1>3, <1>4, <1>5, <1>6, <1>7, <1>8, Writers DEF WritersOfInstances
<1> QED
  BY <1>9 DEF Goal, Open

\* An instance whose doneCh is closed gets no waiter any more.
LEMMA NoWaiterStep ==
    ASSUME TypeOK, [Next]_vars, NEW i \in Ids, i \in isDone, waiter[i] = "none"
    PROVE  waiter'[i] = "none"
<1> DEFINE Goal == waiter'[i] = "none"
<1> SUFFICES Goal
  OBVIOUS
<1> USE DEF TypeOK, InstancesTypeOK
<1>1. ASSUME UNCHANGED <<marks, waitLoop, waiter, watcher>> \/ Reboot PROVE Goal
  BY <1>1 DEF Reboot
<1>2. ASSUME NEW j \in todo, RecoverInstance(j) PROVE Goal
  BY <1>2 DEF RecoverInstance
<1>3. ASSUME StartCreate \/ DevModeOnEnd \/ DevModeOff PROVE Goal
  BY <1>3 DEF StartCreate, DevModeOnEnd, DevModeOff
<1>4. ASSUME NEW j \in AllIds, WaitLoop(j) \/ Watcher(j) PROVE Goal
  BY <1>4
  DEF WaitLoop, WaitLoopBegin, Launch, LaunchFails, LaunchSkipped, StorePid, StoreRunning, Wait,
      AddToKnownListener, ListenerUnknown, AddListener, AddListenerFails, WaitLoopEnd,
      Watcher, WatcherDelete, WatcherEnd
<1>5. ASSUME NEW j \in Ids, WaiterDone(j) \/ WaitFails(j) \/ WaiterClose(j) PROVE Goal
  BY <1>5 DEF WaiterDone, WaitFails, WaiterClose
<1>6. ASSUME NEW h \in Handlers, SweepClose(h) PROVE Goal
  BY <1>6 DEF SweepClose
<1> HIDE DEF Goal, TypeOK
<1> QED
  BY <1>1, <1>2, <1>3, <1>4, <1>5, <1>6, Writers DEF WritersOfInstances

LEMMA ReportedStep ==
    ASSUME IInv, NEW i \in Ids, WaitedFor(i), Reported(i), [Next]_vars
    PROVE  Reported(i)'
<1> SUFFICES ASSUME i \in isDone', i \in store'.running PROVE waiter'[i] = "none"
  BY DEF Reported
<1>0. TypeOK
  BY DEF IInv
<1>1. i \in isDone
  BY <1>0, IsDoneStep
<1>2. waiter[i] = "none"
  <2>1. CASE i \in store.running
    BY <1>1, <2>1 DEF Reported
  <2>2. CASE i \notin store.running
    BY <1>0, <2>2, RunningStep DEF StoreRunning, WaitedFor
  <2> QED
    BY <2>1, <2>2
<1> QED
  BY <1>0, <1>1, <1>2, NoWaiterStep

\* Whoever asks for Stops, environments and dev mode at any moment, the archive says
\* of an instance whose doneCh is closed that it runs only when a Stop overtook its
\* start and nobody waits for its process (instance.go:284, 346-375).
THEOREM ExitReportedHolds == Spec => []ExitReported
<1>1. Init => ExitInv
  BY DEF Init, ExitInv, WaitedFor, Reported
<1>2. IInv /\ ExitInv /\ [Next]_vars => ExitInv'
  <2> SUFFICES ASSUME IInv, ExitInv, [Next]_vars, NEW i \in Ids PROVE WaitedFor(i)' /\ Reported(i)'
    BY DEF ExitInv, Ids
  <2> QED
    BY WaitedForStep, ReportedStep DEF ExitInv
<1>3. IInv /\ ExitInv => ExitReported
  BY DEF ExitInv, Reported, ExitReported, IInv, TypeOK, PersistentTypeOK
<1> QED
  BY <1>1, <1>2, <1>3, Invariance, PTL DEF Spec

-----------------------------------------------------------------------------
(* The restarts, for tasks that are started and given a new environment at  *)
(* any moment, but that nobody stops or switches to dev mode: a shortage of *)
(* instances is never forgotten, however the Starts of several watchers,    *)
(* handlers and of the boot meet.                                           *)

Undisturbed == Requests \subseteq {"start", "env"}

\* Nothing but dev mode changes the target or tracks placeholders.
NoDevMode ==
    targetInstances = OriginalTarget /\ crit # "devOn" /\ instances \subseteq Ids

\* A waitLoop that is past its first statement has set `stopped' to false, and
\* nobody sets it to true.
NotStopped == \A i \in Ids : waitLoop[i] \notin {"none", "begin"} => ~stopped

\* Another Start is sure to come.
Covered == starts > 0 \/ \E i \in Ids : watcher[i] = "unlist"

\* Without it, the Start that holds execMutex makes up for what is missing, or
\* reaches the bound on instances; and when no Start holds it, nothing is missing.
Fills ==
    \/ Cardinality(instances) + need >= OriginalTarget
    \/ execCount + need >= MaxExec + (IF crit = "create" THEN 1 ELSE 0)
Full == Cardinality(instances) >= OriginalTarget \/ execCount = MaxExec

Supplied ==
    Service /\ recovered = {} /\ ~Covered =>
        /\ crit \in {"count", "create"} => Fills
        /\ crit \notin {"count", "create"} /\ phase = "up" => Full

RestartInv == NoDevMode /\ NotStopped /\ Supplied

-----------------------------------------------------------------------------
LEMMA Requested ==
    ASSUME Undisturbed PROVE ~StopTask /\ ~DevModeOn /\ ~DevModeOff /\ ~DevModeOffPanic
  BY DEF Undisturbed, StopTask, DevModeOn, DevModeOff, DevModeOffPanic, Request

LEMMA NoDevModeStep ==
    ASSUME TypeOK, Counting, Undisturbed, NoDevMode, [Next]_vars
    PROVE  NoDevMode'
<1>1. ~DevModeOnEnd
  BY DEF DevModeOnEnd, NoDevMode
<1>2. crit' # "devOn"
  <2> DEFINE Off == crit' # "devOn"
  <2>1. ASSUME UNCHANGED mutex PROVE Off
    BY <2>1 DEF mutex, NoDevMode
  <2>2. ASSUME Reboot \/ BootStart \/ StartLock \/ StartLoop \/ SetEnvEnd PROVE Off
    BY <2>2 DEF Reboot, BootStart, StartLock, EnterStart, StartLoop, StartCount, StartCreate,
                StartPersist, SetEnvEnd
  <2>3. ASSUME NEW j \in AllIds, WatcherEnd(j) PROVE Off
    BY <2>3 DEF WatcherEnd, NoDevMode
  <2>4. ASSUME NEW h \in Handlers, SweepPanic(h) PROVE Off
    BY <2>4 DEF SweepPanic, NoDevMode
  <2>5. ASSUME StartTask \/ SetEnv PROVE Off
    BY <2>5 DEF StartTask, SetEnv, NoDevMode
  <2> HIDE DEF Off
  <2>6. Off
    BY <1>1, <2>1, <2>2, <2>3, <2>4, <2>5, Writers, Requested DEF WritersOfMutex
  <2> QED
    BY <2>6 DEF Off
<1>3. targetInstances' = OriginalTarget /\ instances' \subseteq Ids
  <2> DEFINE Kept == targetInstances' = OriginalTarget /\ instances' \subseteq Ids
  <2> USE DEF NoDevMode
  <2>1. ASSUME UNCHANGED <<boot, targetInstances, execCount, instances>> PROVE Kept
    BY <2>1
  <2>2. ASSUME Reboot PROVE Kept
    BY <2>2 DEF Reboot
  <2>3. ASSUME Boot \/ BootStart PROVE Kept
    BY <2>3 DEF Boot, RecoverInstance, Recoverable, RecoverFails, RecoverDone, BootStart, EnterStart, fields
  <2>4. ASSUME StartCount \/ StartPersist PROVE Kept
    BY <2>4 DEF StartCount, StartPersist, fields
  <2>5. ASSUME StartCreate PROVE Kept
    <3>1. execCount \in Ids
      BY <2>5, ConstantFacts DEF StartCreate, Counting, TypeOK, FieldsTypeOK, Ids
    <3> QED
      BY <2>5, <3>1 DEF StartCreate, fields
  <2>6. ASSUME NEW j \in AllIds, WatcherDelete(j) PROVE Kept
    BY <2>6 DEF WatcherDelete, fields
  <2> HIDE DEF Kept, NoDevMode
  <2>7. Kept
    BY <1>1, <2>1, <2>2, <2>3, <2>4, <2>5, <2>6, Writers, Requested DEF WritersOfFields, StartLoop
  <2> QED
    BY <2>7 DEF Kept
<1> QED
  BY <1>2, <1>3 DEF NoDevMode

LEMMA NotStoppedStep ==
    ASSUME TypeOK, Undisturbed, NotStopped, [Next]_vars
    PROVE  NotStopped'
<1>1. CASE Reboot
  BY <1>1 DEF Reboot, NotStopped, AllIds
<1>2. CASE \E j \in AllIds : WaitLoopBegin(j)
  BY <1>2, Zenon DEF WaitLoopBegin, NotStopped
<1>3. CASE ~Reboot /\ UNCHANGED <<stopped, devMode>> /\ ~\E j \in AllIds : WaitLoopBegin(j)
  <2> SUFFICES ASSUME NEW i \in Ids, waitLoop'[i] \notin {"none", "begin"}
               PROVE  waitLoop[i] \notin {"none", "begin"}
    BY <1>3, Zenon DEF NotStopped
  <2>1. CASE i \in todo /\ RecoverInstance(i)
    BY <2>1 DEF RecoverInstance, TypeOK, InstancesTypeOK, AllIds
  <2>2. CASE StartCreate /\ i = execCount
    BY <2>2 DEF StartCreate, TypeOK, InstancesTypeOK, AllIds
  <2>3. CASE WaitLoop(i)
    BY <1>3, <2>3
    DEF WaitLoop, Launch, LaunchFails, LaunchSkipped, StorePid, StoreRunning, Wait,
        AddToKnownListener, ListenerUnknown, AddListener, AddListenerFails, WaitLoopEnd, AllIds
  <2> QED
    BY <1>3, <2>1, <2>2, <2>3, WaitLoopStep
<1> QED
  BY <1>1, <1>2, <1>3, Writers, Requested DEF WritersOfFlags

-----------------------------------------------------------------------------
(* What covers a shortage.                                                  *)

\* The watcher of an instance issues another Start when it has unlisted it.
LEMMA CoveredStep ==
    ASSUME IInv, NotStopped, Service, Covered, [Next]_vars
    PROVE  Covered' \/ Reboot \/ BootStart \/ StartLock
<1>0. TypeOK /\ starts \in Nat
  BY DEF IInv, TypeOK, MutexTypeOK
<1>1. ASSUME NEW i \in Ids, watcher[i] = "unlist", WatcherEnd(i) PROVE Covered'
  <2>1. ~stopped
    BY <1>1, Zenon DEF IInv, Lifecycle, WatchedLast, NotStopped
  <2>2. starts' = starts + 1
    BY <1>1, <2>1 DEF WatcherEnd, Restarts
  <2> QED
    BY <2>2, <1>0 DEF Covered
<1>2. ASSUME NEW i \in Ids, watcher[i] = "unlist" PROVE Covered' \/ Reboot
  <2>1. ~WaitLoopEnd(i)
    BY <1>2 DEF WaitLoopEnd, IInv, Lifecycle, WatchedLast
  <2>2. watcher'[i] = "unlist" => Covered'
    BY DEF Covered
  <2> QED
    BY <1>0, <1>1, <1>2, <2>1, <2>2, WatcherStep
<1>3. ASSUME starts > 0 PROVE Covered' \/ Reboot \/ BootStart \/ StartLock
  <2> DEFINE More == starts' \in Nat /\ starts' >= starts
  <2>1. ASSUME UNCHANGED mutex PROVE More
    BY <1>0, <2>1 DEF mutex
  <2>2. ASSUME StartLoop \/ SetEnvEnd \/ DevModeOnEnd PROVE More
    BY <1>0, <2>2 DEF StartLoop, StartCount, StartCreate, StartPersist, SetEnvEnd, DevModeOnEnd
  <2>3. ASSUME NEW j \in AllIds, WatcherEnd(j) PROVE More
    <3>1. starts' = starts \/ starts' = starts + 1
      BY <2>3 DEF WatcherEnd
    <3> QED
      BY <1>0, <3>1
  <2>4. ASSUME NEW h \in Handlers, SweepPanic(h) PROVE More
    BY <1>0, <2>4 DEF SweepPanic
  <2>5. ASSUME StartTask \/ SetEnv \/ DevModeOn \/ DevModeOff PROVE More
    BY <1>0, <2>5 DEF StartTask, SetEnv, DevModeOn, DevModeOff
  <2>6. ASSUME More PROVE Covered'
    BY <1>0, <1>3, <2>6 DEF Covered
  <2> HIDE DEF More
  <2> QED
    BY <2>1, <2>2, <2>3, <2>4, <2>5, <2>6, Writers DEF WritersOfMutex
<1> QED
  BY <1>2, <1>3 DEF Covered

\* The mark of a recovered instance stays until paasbox dies.
LEMMA RecoveredStep ==
    ASSUME [Next]_vars, recovered' = {} PROVE recovered = {} \/ Reboot
<1> DEFINE Goal == recovered = {} \/ Reboot
<1>1. ASSUME UNCHANGED <<marks, waitLoop, waiter, watcher>> PROVE Goal
  BY <1>1 DEF marks
<1>2. ASSUME NEW j \in todo, RecoverInstance(j) PROVE Goal
  BY <1>2 DEF RecoverInstance
<1>3. ASSUME StartCreate \/ DevModeOnEnd \/ DevModeOff PROVE Goal
  BY <1>3 DEF StartCreate, DevModeOnEnd, DevModeOff, marks
<1>4. ASSUME NEW j \in AllIds, WaitLoop(j) \/ Watcher(j) PROVE Goal
  BY <1>4
  DEF WaitLoop, WaitLoopBegin, Launch, LaunchFails, LaunchSkipped, StorePid, StoreRunning, Wait,
      AddToKnownListener, ListenerUnknown, AddListener, AddListenerFails, WaitLoopEnd, marks,
      Watcher, WatcherDelete, WatcherEnd
<1>5. ASSUME NEW j \in Ids, WaiterDone(j) \/ WaitFails(j) \/ WaiterClose(j) PROVE Goal
  BY <1>5 DEF WaiterDone, WaitFails, WaiterClose, marks
<1>6. ASSUME NEW h \in Handlers, SweepClose(h) PROVE Goal
  BY <1>6 DEF SweepClose
<1> HIDE DEF Goal
<1>7. Goal
  BY <1>1, <1>2, <1>3, <1>4, <1>5, <1>6, Writers DEF WritersOfInstances, Goal
<1> QED
  BY <1>7 DEF Goal

\* The boot of a service that recovered nothing ends in its Start.
LEMMA PhaseStep ==
    ASSUME [Next]_vars, Service, recovered = {}, phase' = "up" PROVE phase = "up" \/ StartPersist
<1> DEFINE Goal == phase = "up" \/ StartPersist
<1>1. ASSUME UNCHANGED <<boot, targetInstances, execCount, instances>> PROVE Goal
  BY <1>1 DEF boot
<1>2. ASSUME Reboot \/ Boot \/ BootStart PROVE Goal
  BY <1>2 DEF Reboot, Boot, RecoverInstance, RecoverFails, RecoverDone, BootStart
<1>3. ASSUME StartCount \/ StartCreate \/ DevModeOnEnd \/ DevModeOn \/ DevModeOff PROVE Goal
  BY <1>3 DEF StartCount, StartCreate, DevModeOnEnd, DevModeOn, DevModeOff, boot
<1>4. ASSUME NEW j \in AllIds, WatcherDelete(j) PROVE Goal
  BY <1>4 DEF WatcherDelete, boot
<1> HIDE DEF Goal
<1>5. Goal \/ StartPersist
  BY <1>1, <1>2, <1>3, <1>4, Writers DEF WritersOfFields, StartLoop
<1> QED
  BY <1>5 DEF Goal

-----------------------------------------------------------------------------
(* The supply.                                                              *)

\* A Start that enters counts what is missing.
LEMMA EnterSupplies ==
    ASSUME IInv, NoDevMode, BootStart \/ StartLock
    PROVE  Supplied'
<1>1. /\ crit' = "count" /\ need' = Capped(Need) /\ instances' = instances /\ execCount' = execCount
  BY DEF BootStart, StartLock, EnterStart, fields
<1>2. /\ Cardinality(instances) \in Nat /\ execCount \in 0..MaxExec /\ OriginalTarget \in Nat /\ MaxExec \in Nat
      /\ Need = OriginalTarget - Cardinality(instances)
  BY CreatedIsFinite, ConstantFacts DEF IInv, NoDevMode, TypeOK, FieldsTypeOK, Need
<1>3. Cardinality(instances) + Capped(Need) >= OriginalTarget \/ execCount + Capped(Need) >= MaxExec
  BY <1>2 DEF Capped
<1>4. Fills'
  BY <1>1, <1>2, <1>3 DEF Fills
<1> QED
  BY <1>1, <1>4 DEF Supplied

\* What it has counted it creates, with a number nobody had before.
LEMMA LoopSupplies ==
    ASSUME IInv, Supplied, Service, recovered = {}, ~Covered, StartLoop
    PROVE  Supplied'
<1>1. /\ crit \in {"count", "create"} /\ Fills
      /\ Cardinality(instances) \in Nat /\ execCount \in 0..MaxExec /\ OriginalTarget \in Nat
      /\ MaxExec \in Nat /\ need \in Nat
  <2>1. crit \in {"count", "create"}
    BY DEF StartLoop, StartCount, StartCreate, StartPersist
  <2> QED
    BY <2>1, CreatedIsFinite, ConstantFacts DEF IInv, Supplied, TypeOK, FieldsTypeOK, MutexTypeOK
<1>2. CASE StartCount
  <2>1. /\ crit = "count" /\ crit' = "create" /\ execCount' = execCount + 1
        /\ need' = need /\ instances' = instances
    BY <1>2 DEF StartCount
  <2>2. Fills'
    BY <1>1, <2>1 DEF Fills
  <2> QED
    BY <2>1, <2>2 DEF Supplied
<1>3. CASE StartCreate
  <2>1. /\ crit = "create" /\ crit' = "count" /\ execCount' = execCount
        /\ need' = need - 1 /\ instances' = instances \cup {execCount}
    BY <1>3 DEF StartCreate, fields
  <2>2. execCount \in Ids /\ ~Used(execCount) /\ need > 0
    BY <2>1, ConstantFacts DEF IInv, Counting, TypeOK, FieldsTypeOK, Ids
  <2>3. Cardinality(instances') = Cardinality(instances) + 1
    <3>1. IsFiniteSet(instances) /\ execCount \notin instances
      BY <2>2, ConstantFacts, FS_Subset DEF IInv, TypeOK, FieldsTypeOK, Used
    <3> QED
      BY <2>1, <3>1, FS_AddElement
  <2>4. Fills'
    BY <1>1, <2>1, <2>2, <2>3 DEF Fills
  <2> QED
    BY <2>1, <2>4 DEF Supplied
<1>4. CASE StartPersist
  <2>1. /\ crit = "count" /\ need = 0 /\ crit' = "free" /\ execCount' = execCount /\ instances' = instances
    BY <1>4 DEF StartPersist, fields
  <2>2. Full'
    BY <1>1, <2>1 DEF Fills, Full
  <2> QED
    BY <2>1, <2>2 DEF Supplied
<1> QED
  BY <1>2, <1>3, <1>4 DEF StartLoop

LEMMA SuppliedStep ==
    ASSUME IInv, SweepHolds, NoDevMode, NotStopped, Supplied, Undisturbed, [Next]_vars
    PROVE  Supplied'
<1>0. TypeOK /\ Counting
  BY DEF IInv
<1>1. CASE Reboot
  BY <1>1 DEF Reboot, Supplied
<1>2. CASE BootStart \/ StartLock
  BY <1>2, EnterSupplies
<1>3. CASE \E i \in Ids : WatcherDelete(i)
  <2>1. PICK i \in Ids : WatcherDelete(i)
    BY <1>3
  <2>2. watcher'[i] = "unlist"
    BY <2>1 DEF WatcherDelete, IInv, TypeOK, InstancesTypeOK, AllIds
  <2> QED
    BY <2>2 DEF Covered, Supplied
<1>4. CASE ~Reboot /\ ~BootStart /\ ~StartLock /\ ~\E i \in Ids : WatcherDelete(i)
  <2> SUFFICES ASSUME Service, recovered' = {}, ~Covered' PROVE Supplied'
    BY DEF Supplied
  <2>1. recovered = {} /\ ~Covered
    BY <1>4, RecoveredStep, CoveredStep
  <2>2. CASE StartLoop
    BY <2>1, <2>2, LoopSupplies
  <2>3. CASE ~StartLoop
    <3>1. execCount' = execCount
      BY <2>3, <1>0, ExecCountStep DEF StartLoop
    <3>2. \/ crit \notin {"count", "create"} /\ crit' \notin {"count", "create"}
          \/ crit' = crit /\ need' = need
      BY <1>0, <1>4, <2>3, HolderStep, CritStep DEF StartLoop
    <3>3. phase' = "up" => phase = "up"
      BY <2>1, <2>3, PhaseStep DEF StartLoop
    <3>4. /\ Cardinality(instances) \in Nat /\ Cardinality(instances') \in Nat
          /\ Cardinality(instances') >= Cardinality(instances)
      <4>1. instances \subseteq instances'
        BY <1>0, <1>4, UntrackStep DEF NoDevMode
      <4>2. TypeOK'
        BY <1>0, TypeStep DEF IInv
      <4>3. IsFiniteSet(instances')
        BY <4>2, ConstantFacts, FS_Subset DEF TypeOK, FieldsTypeOK
      <4> QED
        BY <4>1, <4>3, FS_Subset, FS_CardinalityType
    <3>5. need \in Nat /\ execCount \in Nat /\ OriginalTarget \in Nat
      BY <1>0, ConstantFacts DEF TypeOK, FieldsTypeOK, MutexTypeOK
    <3>6. CASE crit' \in {"count", "create"}
      <4>1. Fills
        BY <2>1, <3>2, <3>6 DEF Supplied
      <4>2. crit' = crit /\ need' = need
        BY <3>2, <3>6
      <4>3. Fills'
        BY <4>1, <4>2, <3>1, <3>4, <3>5 DEF Fills
      <4> QED
        BY <3>6, <4>3 DEF Supplied
    <3>7. CASE crit' \notin {"count", "create"}
      <4>1. phase' = "up" => Full
        BY <2>1, <3>2, <3>3, <3>7 DEF Supplied
      <4>2. Full => Full'
        BY <3>1, <3>4, <3>5 DEF Full
      <4> QED
        BY <3>7, <4>1, <4>2 DEF Supplied
    <3> QED
      BY <3>6, <3>7
  <2> QED
    BY <2>2, <2>3
<1> QED
  BY <1>1, <1>2, <1>3, <1>4

\* A service that nobody stops and that recovered nothing never stays short of
\* instances without a Start on its way (task.go:611-613, 727-742).
THEOREM NoLostRestartHolds == Spec => [](Undisturbed => NoLostRestart)
<1> DEFINE Restarting == Undisturbed => RestartInv
<1>1. Init => Restarting
  <2> SUFFICES ASSUME Init PROVE RestartInv
    OBVIOUS
  <2>1. NoDevMode /\ Supplied
    BY DEF Init, NoDevMode, Supplied
  <2>2. NotStopped
    BY DEF Init, NotStopped, AllIds
  <2> QED
    BY <2>1, <2>2 DEF RestartInv
<1>2. IInv /\ StoreInv /\ Restarting /\ [Next]_vars => Restarting'
  <2> SUFFICES ASSUME IInv, StoreInv, Undisturbed, RestartInv, [Next]_vars PROVE RestartInv'
    BY DEF Undisturbed
  <2> QED
    BY NoDevModeStep, NotStoppedStep, SuppliedStep DEF RestartInv, StoreInv, IInv
<1>3. IInv /\ Restarting => (Undisturbed => NoLostRestart)
  <2> SUFFICES ASSUME IInv, RestartInv, Service, recovered = {}, Cardinality(instances) < targetInstances,
                      ~RepairPending
               PROVE  execCount = MaxExec
    BY DEF NoLostRestart
  <2>1. ~Covered /\ crit \notin {"count", "create"} /\ phase = "up"
    BY DEF RepairPending, Covered, AllIds
  <2>2. Full /\ targetInstances = OriginalTarget
    BY <2>1 DEF RestartInv, Supplied, NoDevMode
  <2>3. Cardinality(instances) \in Nat /\ OriginalTarget \in Nat
    BY CreatedIsFinite, ConstantFacts DEF IInv
  <2> QED
    BY <2>2, <2>3 DEF Full
<1> HIDE DEF Restarting
<1> QED
  BY <1>1, <1>2, <1>3, Invariance, StoreInvariance, PTL DEF Spec

-----------------------------------------------------------------------------
(* The task implements the ledger of its instances: each group of variables  *)
(* the refinement mapping reads changes in a few actions only, and each of   *)
(* these is a step of the ledger.                                            *)

\* What is tracked has a waitLoop, so that Recover meets no created instance.
Looped == \A i \in Ids : i \in instances \cup recovered => waitLoop[i] # "none"

LEMMA LoopedStep ==
    ASSUME TypeOK, Counting, Looped, [Next]_vars
    PROVE  Looped'
<1> SUFFICES ASSUME NEW i \in Ids, i \in instances' \cup recovered' PROVE waitLoop'[i] # "none"
  BY DEF Looped
<1>1. ~Reboot
  BY DEF Reboot
<1>2. ASSUME RecoverInstance(i) \/ (StartCreate /\ i = execCount) PROVE waitLoop'[i] # "none"
  BY <1>2 DEF RecoverInstance, StartCreate, TypeOK, InstancesTypeOK, AllIds
<1>3. ASSUME WaitLoop(i) PROVE waitLoop'[i] # "none"
  BY <1>3
  DEF WaitLoop, WaitLoopBegin, Launch, LaunchFails, LaunchSkipped, StorePid, StoreRunning, Wait,
      AddToKnownListener, ListenerUnknown, AddListener, AddListenerFails, WaitLoopEnd, Goto,
      TypeOK, InstancesTypeOK, AllIds
<1>4. ASSUME waitLoop'[i] = waitLoop[i], i \in recovered' => i \in recovered,
             ~RecoverInstance(i), ~(StartCreate /\ i = execCount)
      PROVE  waitLoop'[i] # "none"
  <2> DEFINE Goal == i \in instances' => i \in instances
  <2>1. ASSUME UNCHANGED <<boot, targetInstances, execCount, instances>> PROVE Goal
    BY <2>1
  <2>2. ASSUME Boot \/ BootStart PROVE Goal
    BY <1>4, <2>2 DEF Boot, RecoverInstance, RecoverFails, RecoverDone, BootStart, EnterStart
  <2>3. ASSUME StartLoop PROVE Goal
    BY <1>4, <2>3 DEF StartLoop, StartCount, StartCreate, StartPersist
  <2>4. ASSUME NEW j \in AllIds, WatcherDelete(j) PROVE Goal
    BY <2>4 DEF WatcherDelete
  <2>5. ASSUME DevModeOnEnd \/ DevModeOn \/ DevModeOff PROVE Goal
    BY <2>5, ConstantFacts DEF DevModeOnEnd, WithPlaceholder, DevModeOn, DevModeOff
  <2>6. Goal
    <3> HIDE DEF Goal
    <3> QED
      BY <1>1, <2>1, <2>2, <2>3, <2>4, <2>5, Writers DEF WritersOfFields
  <2> QED
    BY <1>4, <2>6 DEF Looped
<1> QED
  BY <1>1, <1>2, <1>3, <1>4, WaitLoopStep

\* Instances are created by Start, adopted by Recover, forgotten by their watcher,
\* and nobody else touches the two sets but a reboot.
LEMMA TrackingStep ==
    ASSUME TypeOK, [Next]_vars
    PROVE  \/ Reboot \/ StartCreate
           \/ \E j \in todo : RecoverInstance(j)
           \/ \E j \in Ids : WatcherDelete(j)
           \/ Created' = Created /\ (instances \cap recovered)' = instances \cap recovered
<1> DEFINE Same == instances' \cap Ids = instances \cap Ids
           Kept == recovered' = recovered
<1>1. \/ Same \/ Reboot \/ StartCreate
      \/ (\E j \in todo : RecoverInstance(j)) \/ \E j \in Ids : WatcherDelete(j)
  <2>1. ASSUME UNCHANGED <<boot, targetInstances, execCount, instances>> PROVE Same
    BY <2>1
  <2>2. ASSUME RecoverFails \/ RecoverDone \/ BootStart PROVE Same
    BY <2>2 DEF RecoverFails, RecoverDone, BootStart, EnterStart
  <2>3. ASSUME StartCount \/ StartPersist PROVE Same
    BY <2>3 DEF StartCount, StartPersist
  <2>4. ASSUME NEW j \in Devs, WatcherDelete(j) PROVE Same
    BY <2>4, ConstantFacts DEF WatcherDelete, Key
  <2>5. ASSUME DevModeOnEnd PROVE Same
    BY <2>5, ConstantFacts DEF DevModeOnEnd, WithPlaceholder
  <2>6. ASSUME DevModeOn \/ DevModeOff PROVE Same
    BY <2>6 DEF DevModeOn, DevModeOff
  <2> HIDE DEF Same
  <2> QED
    BY <2>1, <2>2, <2>3, <2>4, <2>5, <2>6, Writers DEF WritersOfFields, Boot, StartLoop, AllIds
<1>2. Kept \/ Reboot \/ \E j \in todo : RecoverInstance(j)
  <2>1. ASSUME UNCHANGED <<marks, waitLoop, waiter, watcher>> PROVE Kept
    BY <2>1 DEF marks
  <2>2. ASSUME StartCreate \/ DevModeOnEnd \/ DevModeOff PROVE Kept
    BY <2>2 DEF StartCreate, DevModeOnEnd, DevModeOff, marks
  <2>3. ASSUME NEW j \in AllIds, WaitLoop(j) \/ Watcher(j) PROVE Kept
    BY <2>3
    DEF WaitLoop, WaitLoopBegin, Launch, LaunchFails, LaunchSkipped, StorePid, StoreRunning, Wait,
        AddToKnownListener, ListenerUnknown, AddListener, AddListenerFails, WaitLoopEnd, marks,
        Watcher, WatcherDelete, WatcherEnd
  <2>4. ASSUME NEW j \in Ids, WaiterDone(j) \/ WaitFails(j) \/ WaiterClose(j) PROVE Kept
    BY <2>4 DEF WaiterDone, WaitFails, WaiterClose, marks
  <2>5. ASSUME NEW h \in Handlers, SweepClose(h) PROVE Kept
    BY <2>5 DEF SweepClose
  <2> HIDE DEF Kept
  <2> QED
    BY <2>1, <2>2, <2>3, <2>4, <2>5, Writers DEF WritersOfInstances
<1>3. recovered \subseteq Ids
  BY DEF TypeOK, InstancesTypeOK
<1>4. ASSUME Same, Kept
      PROVE  Created' = Created /\ (instances \cap recovered)' = instances \cap recovered
  BY <1>3, <1>4 DEF Created
<1> HIDE DEF Same, Kept
<1> QED
  BY <1>1, <1>2, <1>4

\* A number is given out by Start, and only a reboot can lose one.
LEMMA LastStep ==
    ASSUME TypeOK, Counting, SweepHolds, [Next]_vars
    PROVE  Reboot \/ StartCreate \/ LastCreated' = LastCreated
<1> DEFINE Same == LastCreated' = LastCreated
<1> SUFFICES ASSUME ~Reboot, ~StartCreate PROVE Same
  OBVIOUS
<1> execCount \in Nat
  BY DEF TypeOK, FieldsTypeOK
<1>1. CASE StartCount
  BY <1>1 DEF StartCount, LastCreated
<1>2. CASE BootStart \/ StartLock \/ StartPersist
  BY <1>2 DEF BootStart, StartLock, EnterStart, StartPersist, fields, LastCreated
<1>3. CASE execCount' = execCount /\ (crit' = "create" <=> crit = "create")
  BY <1>3 DEF LastCreated
<1> HIDE DEF Same
<1> QED
  BY <1>1, <1>2, <1>3, ExecCountStep, CritStep, HolderStep

\* Processes come from Launch, and end by themselves or by the SIGKILL of a sweep.
LEMMA ProcStep ==
    ASSUME [Next]_vars
    PROVE  \/ proc' = proc
           \/ \E i \in AllIds : Launch(i)
           \/ \E i \in Ids : ProcExit(i)
           \/ \E h \in Handlers : SweepKill(h)
<1> DEFINE Same == proc' = proc
<1>1. ASSUME UNCHANGED <<store, proc>> PROVE Same
  BY <1>1
<1>2. ASSUME StartCount \/ StartPersist \/ DevModeOnEnd PROVE Same
  BY <1>2 DEF StartCount, StartPersist, DevModeOnEnd
<1>3. ASSUME NEW j \in AllIds, StorePid(j) \/ StoreRunning(j) PROVE Same
  BY <1>3 DEF StorePid, StoreRunning
<1>4. ASSUME NEW j \in Ids, WaiterClose(j) PROVE Same
  BY <1>4 DEF WaiterClose
<1>5. ASSUME NEW h \in Handlers, SweepClose(h) PROVE Same
  BY <1>5 DEF SweepClose
<1>6. Same \/ (\E i \in AllIds : Launch(i)) \/ (\E i \in Ids : ProcExit(i)) \/ \E h \in Handlers : SweepKill(h)
  <2> HIDE DEF Same
  <2> QED
    BY <1>1, <1>2, <1>3, <1>4, <1>5, Writers DEF WritersOfPersistent
<1> QED
  BY <1>6

\* Start tracks an instance under a number that is new to the ledger.
LEMMA CreateStep ==
    ASSUME IInv, IInv', Looped, StartCreate
    PROVE  execCount \in Ids /\ Ledger!Create(execCount)
<1>1. execCount \in Ids /\ execCount \in Nat /\ crit = "create"
  BY ConstantFacts DEF IInv, Counting, TypeOK, FieldsTypeOK, Ids, StartCreate
<1>2. ~Used(execCount)
  BY <1>1 DEF IInv, Counting
<1>3. execCount \notin recovered
  BY <1>1, <1>2 DEF Looped, Used
<1>4. Created' = Created \cup {execCount} /\ (instances \cap recovered)' = instances \cap recovered
  BY <1>1, <1>3 DEF StartCreate, Created, marks
<1>5. LastCreated = execCount - 1 /\ LastCreated' = execCount
  BY <1>1 DEF StartCreate, LastCreated, fields
<1>6. proc[execCount] = "none" /\ proc' = proc
  BY <1>2 DEF Used, StartCreate
<1>9. astray' = astray
  BY DEF StartCreate, odds
<1>7. Cardinality(Created \cup {execCount}) <= OriginalTarget
  BY <1>4 DEF IInv, Quota
<1>8. Ledger!Cardinality(Created \cup {execCount}) <= OriginalTarget
  BY <1>7, Zenon DEF Ledger!Cardinality, Cardinality
<1> QED
  BY <1>1, <1>4, <1>5, <1>6, <1>8, <1>9 DEF Ledger!Create

LEMMA RestartStep ==
    ASSUME TypeOK, Counting, Reboot
    PROVE  Ledger!Restart
<1>1. Created' = {} /\ (instances \cap recovered)' = {} /\ proc' = proc /\ astray' = {}
  BY DEF Reboot, Created
<1>2. LastCreated' \in {LastCreated, LastCreated + 1}
  BY DEF Reboot, ReadExecCount, Counting, LastCreated, TypeOK, FieldsTypeOK
<1> QED
  BY <1>1, <1>2 DEF Ledger!Restart

LEMMA AdoptStep ==
    ASSUME TypeOK, Lifecycle, Looped, NEW i \in todo, RecoverInstance(i)
    PROVE  i \in Ids /\ Ledger!Adopt(i)
<1>1. i \in Ids /\ proc[i] = "alive" /\ proc' = proc /\ astray' = astray
  BY DEF RecoverInstance, Recoverable, odds
<1>2. i \notin instances
  BY <1>1 DEF Lifecycle, RecoveredOnce, Looped
<1>3. Created' = Created /\ (instances \cap recovered)' = (instances \cap recovered) \cup {i}
  BY <1>2 DEF RecoverInstance, Created
<1>4. LastCreated' = LastCreated
  BY DEF RecoverInstance, LastCreated, fields, mutex
<1>5. i \notin Created
  BY <1>2 DEF Created
<1> QED
  BY <1>1, <1>3, <1>4, <1>5 DEF Ledger!Adopt

LEMMA ForgetStep ==
    ASSUME TypeOK, Lifecycle, NEW i \in Ids, WatcherDelete(i)
    PROVE  Ledger!Forget(i)
<1>1. (proc[i] = "dead" \/ i \in astray) /\ proc' = proc /\ astray' = astray
  BY DEF WatcherDelete, Lifecycle, OverWhenDone, Over, odds
<1>2. instances' = instances \ {i} /\ recovered' = recovered
  BY ConstantFacts DEF WatcherDelete, Key, marks
<1>3. Created' = Created \ {i} /\ (instances \cap recovered)' = (instances \cap recovered) \ {i}
  BY <1>2 DEF Created
<1>4. LastCreated' = LastCreated
  BY DEF WatcherDelete, LastCreated, fields, mutex
<1> QED
  BY <1>1, <1>3, <1>4 DEF Ledger!Forget

\* What happens to processes happens to them alone.
LEMMA ProcessStep ==
    ASSUME TypeOK, Lifecycle, [Next]_vars, proc' # proc
    PROVE  \E i \in Ids : Ledger!Launch(i) \/ Ledger!Exit(i)
<1> DEFINE Same == /\ Created' = Created /\ (instances \cap recovered)' = instances \cap recovered
                   /\ LastCreated' = LastCreated /\ astray' = astray
<1>1. ASSUME NEW i \in AllIds, Launch(i) PROVE i \in Ids /\ Ledger!Launch(i)
  <2>1. i \in Ids /\ i \in Created /\ proc[i] = "none" /\ proc' = [proc EXCEPT ![i] = "alive"]
    BY <1>1 DEF Launch, Lifecycle, TrackedFirst, LaunchedOnce, Created
  <2>2. Same
    BY <1>1 DEF Launch, Created, LastCreated, fields, mutex, odds
  <2> QED
    BY <2>1, <2>2 DEF Ledger!Launch
<1>2. ASSUME NEW i \in Ids, ProcExit(i) PROVE Ledger!Exit(i)
  <2>1. Same
    BY <1>2 DEF ProcExit, Created, LastCreated, fields, mutex, marks, odds
  <2> QED
    BY <1>2, <2>1 DEF ProcExit, Ledger!Exit
<1>3. ASSUME NEW h \in Handlers, SweepKill(h) PROVE \E i \in Ids : Ledger!Exit(i)
  <2>1. PICK i \in sweep[h].left : Stoppable(i) /\ proc' = [proc EXCEPT ![i] = "dead"]
    BY <1>3 DEF SweepKill
  <2>2. i \in Ids /\ proc[i] # "none"
    BY <2>1 DEF Stoppable, Lifecycle, LaunchedOnce
  <2>3. proc[i] = "alive"
    BY <2>1, <2>2 DEF TypeOK, PersistentTypeOK
  <2>4. Same
    BY <1>3 DEF SweepKill, Created, LastCreated, fields, mutex, marks, odds
  <2> QED
    BY <2>1, <2>2, <2>3, <2>4 DEF Ledger!Exit
<1> QED
  BY <1>1, <1>2, <1>3, ProcStep

\* An instance that is given up lived, and was tracked or given up already.
LEMMA GiveUpStep ==
    ASSUME IInv, [Next]_vars, astray' # astray
    PROVE  Reboot \/ \E i \in Ids : Ledger!GiveUp(i)
<1> DEFINE Goal == Reboot \/ \E i \in Ids : Ledger!GiveUp(i)
           Same == /\ Created' = Created /\ (instances \cap recovered)' = instances \cap recovered
                   /\ LastCreated' = LastCreated /\ proc' = proc
<1> SUFFICES Goal
  OBVIOUS
<1>1. ASSUME NEW i \in Ids, i \in process, proc[i] = "alive", Same, astray' = astray \cup {i} PROVE Goal
  <2>1. i \in Created \cup (instances \cap recovered) \cup astray
    BY <1>1 DEF IInv, Lifecycle, AliveTracked, Created
  <2> QED
    BY <1>1, <2>1 DEF Ledger!GiveUp
<1>2. ASSUME NEW i \in Ids, WaitFails(i) PROVE Goal
  <2>1. i \in process
    BY <1>2 DEF WaitFails, IInv, Lifecycle, LaunchedFirst
  <2>2. Same /\ proc[i] = "alive" /\ astray' = astray \cup {i}
    BY <1>2 DEF WaitFails, Created, LastCreated, fields, mutex, marks
  <2> QED
    BY <1>1, <2>1, <2>2
<1>3. ASSUME NEW h \in Handlers, SweepKillFails(h) PROVE Goal
  <2>1. PICK i \in sweep[h].left : Stoppable(i) /\ proc[i] = "alive" /\ astray' = astray \cup {i}
    BY <1>3 DEF SweepKillFails
  <2>2. Same /\ i \in Ids /\ i \in process
    BY <1>3, <2>1 DEF SweepKillFails, Stoppable, Created, LastCreated, fields, mutex, marks
  <2> QED
    BY <1>1, <2>1, <2>2
<1>4. ASSUME NEW i \in Ids, CheckReturns(i) \/ CheckRelist(i) PROVE FALSE
  BY <1>4 DEF CheckReturns, CheckRelist
<1>5. ~UNCHANGED odds
  BY DEF odds
<1>6. Reboot => Goal
  OBVIOUS
<1> HIDE DEF Goal
<1> QED
  BY <1>2, <1>3, <1>4, <1>5, <1>6, Writers DEF WritersOfOdds

\* Every step of the task is a step of the ledger or leaves the ledger alone.
LEMMA LedgerStep ==
    ASSUME IInv, IInv', SweepHolds, Looped, [Next]_vars
    PROVE  [Ledger!Next]_(Ledger!ledger)
<1> USE DEF IInv
<1>1. CASE Reboot
  BY <1>1, RestartStep DEF Ledger!Next
<1>2. CASE StartCreate
  BY <1>2, CreateStep DEF Ledger!Next
<1>3. CASE \E i \in todo : RecoverInstance(i)
  BY <1>3, AdoptStep DEF Ledger!Next
<1>4. CASE \E i \in Ids : WatcherDelete(i)
  BY <1>4, ForgetStep DEF Ledger!Next
<1>5. CASE proc' # proc
  BY <1>5, ProcessStep DEF Ledger!Next
<1>7. CASE astray' # astray
  BY <1>1, <1>7, GiveUpStep DEF Ledger!Next
<1>6. CASE /\ LastCreated' = LastCreated /\ proc' = proc /\ astray' = astray
           /\ Created' = Created /\ (instances \cap recovered)' = instances \cap recovered
  BY <1>6 DEF Ledger!ledger
<1> QED
  BY <1>1, <1>2, <1>3, <1>4, <1>5, <1>6, <1>7, TrackingStep, LastStep

\* A task keeps the ledger of its instances, for every target, number of ports, set
\* of requests and number of crashes (task.go:499-760, instance.go): numbers are
\* fresh, processes are launched once, created instances never exceed the target, and
\* only the death of its process, a kill or a wait that fails, or a restart of paasbox
\* makes it forget one.
THEOREM TaskImplementsLedger == Spec => TaskKeepsLedger
<1>1. Init => Ledger!Init /\ Looped
  BY DEF Init, Ledger!Init, LastCreated, Created, Looped
<1>2. TypeOK /\ Counting /\ Looped /\ [Next]_vars => Looped'
  BY LoopedStep
<1>3. IInv => TypeOK /\ Counting
  BY DEF IInv
<1>4. Spec => []Looped
  BY <1>1, <1>2, <1>3, Invariance, PTL DEF Spec
<1>5. StoreInv => SweepHolds
  BY DEF StoreInv
<1>6. IInv /\ IInv' /\ SweepHolds /\ Looped /\ [Next]_vars => [Ledger!Next]_(Ledger!ledger)
  BY LedgerStep
<1> QED
  BY <1>1, <1>4, <1>5, <1>6, Invariance, StoreInvariance, PTL DEF Spec, TaskKeepsLedger, Ledger!Spec
=============================================================================
