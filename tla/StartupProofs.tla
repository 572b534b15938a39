----------------------------- MODULE StartupProofs -----------------------------
(***************************************************************************)
(* For any stacks, tasks and repositories: two failures in a stack are      *)
(* never both overlooked, and nothing is started before the directories it  *)
(* shares with another task are cloned.                                     *)
(***************************************************************************)
EXTENDS Startup, FiniteSetTheorems, TLAPS

Pcs == {"idle", "stat", "clone", "cloning", "send", "done"}
TaskType == task \in [Tasks -> [pc : Pcs, k : Nat]]
ErrsType == errs \in [Stacks -> Nat]
Rest ==
    /\ dir \in [Dirs -> {"absent", "file", "partial", "cloned"}]
    /\ collector \in [Stacks -> {"receive", "append"}]
    /\ init \in [Stacks -> {"wait", "check", "returned"}]
    /\ sysd \in {"off", "init", "started"} /\ initErrors \in BOOLEAN
    /\ failed \subseteq Tasks /\ torn \subseteq Dirs /\ boots \in 0..MaxBoots
Types == TaskType /\ ErrsType /\ Rest

\* A task clones its destinations in order, and leaves the list at its end or by an error.
InList ==
    \A t \in Tasks : /\ task[t].k \in 1..Len(Clones[t]) + 1
                     /\ task[t].pc \in {"clone", "cloning"} => task[t].k \in 1..Len(Clones[t])
                     /\ task[t].pc = "done" /\ t \notin failed => task[t].k = Len(Clones[t]) + 1

\* Who has failed hands its error over or has done so, and only who has failed does.
Failing == \A t \in Tasks : /\ t \in failed => task[t].pc \in {"send", "done"}
                            /\ task[t].pc = "send" => t \in failed

\* Each error that was handed over is counted, or in the hand of the collector.
HandedOver(s) == {t \in failed \cap TasksOf(s) : task[t].pc = "done"}
InHand(s) == IF collector[s] = "append" THEN 1 ELSE 0
Counted == \A s \in Stacks : Cardinality(HandedOver(s)) = errs[s] + InHand(s)

\* Init has waited for the tasks of its stack before it looks for errors.
Waited == \A s \in Stacks : init[s] # "wait" => \A t \in TasksOf(s) : task[t].pc = "done"
Checked == \A s \in Stacks : init[s] = "returned" /\ ~initErrors => Cardinality(failed \cap TasksOf(s)) <= 1
Started == sysd = "started" => ~initErrors /\ \A s \in Stacks : init[s] = "returned"

\* One task clones a directory; if nobody does, a half cloned one was left so.
OneCloner ==
    \A t \in Tasks : task[t].pc = "cloning" =>
        /\ dir[Dest(t)] = "partial"
        /\ \A u \in Tasks : task[u].pc = "cloning" /\ Dest(u) = Dest(t) => u = t
PartialIsCloning ==
    \A d \in Dirs : dir[d] = "partial" =>
        d \in torn \/ \E t \in Tasks : task[t].pc = "cloning" /\ Dest(t) = d

OffIsTorn == sysd = "off" => \A d \in Dirs : dir[d] = "partial" => d \in torn

\* A destination that a task has dealt with is there, unless some task failed to clone it.
OfFailed == UNION {ToSet(Clones[u]) : u \in failed}
Passed ==
    \A t \in Tasks : \A k \in 1..Len(Clones[t]) : k < task[t].k =>
        dir[Clones[t][k]] \in {"partial", "cloned"} \/ Clones[t][k] \in OfFailed

\* The inductive invariant.
Errors == Types /\ Failing /\ Counted /\ Waited /\ Checked /\ Started
Dests == InList /\ OneCloner /\ PartialIsCloning /\ OffIsTorn /\ Passed
SInv == Errors /\ Dests

-----------------------------------------------------------------------------
(* What the steps of a task write.                                          *)

LEMMA GotoFacts ==
    ASSUME TaskType, NEW t \in Tasks, NEW pc \in Pcs, Goto(t, pc)
    PROVE  /\ TaskType' /\ task'[t].pc = pc /\ task'[t].k = task[t].k
           /\ \A u \in Tasks : u # t => task'[u] = task[u]
<1>1. task' = [task EXCEPT ![t].pc = pc] /\ task[t] \in [pc : Pcs, k : Nat]
  BY DEF TaskType, Goto
<1>2. task'[t].pc = pc /\ task'[t].k = task[t].k /\ \A u \in Tasks : u # t => task'[u] = task[u]
  BY <1>1 DEF TaskType
<1>3. TaskType'
  BY <1>1 DEF TaskType
<1> QED
  BY <1>2, <1>3

LEMMA NextCloneFacts ==
    ASSUME TaskType, NEW t \in Tasks, NextClone(t)
    PROVE  /\ TaskType' /\ task'[t].pc = "stat" /\ task'[t].k = task[t].k + 1
           /\ \A u \in Tasks : u # t => task'[u] = task[u]
<1>1. task' = [task EXCEPT ![t] = [pc |-> "stat", k |-> task[t].k + 1]] /\ task[t].k \in Nat
  BY DEF TaskType, NextClone
<1>2. task'[t] = [pc |-> "stat", k |-> task[t].k + 1] /\ \A u \in Tasks : u # t => task'[u] = task[u]
  BY <1>1 DEF TaskType
<1>3. TaskType'
  BY <1>1 DEF TaskType, Pcs
<1> QED
  BY <1>2, <1>3

\* A step towards the end of a task's list, or one that fails.
Attempt(t) ==
    /\ TaskType' /\ Rest' /\ sysd = "init"
    /\ task[t].pc \in {"stat", "clone", "cloning"}
    /\ \A u \in Tasks : u # t => task'[u] = task[u]
    /\ \/ failed' = failed /\ task'[t].pc # "send"
       \/ failed' = failed \cup {t} /\ task'[t].pc = "send"
    /\ UNCHANGED <<collector, errs, init, sysd, initErrors>>

LEMMA AttemptSteps ==
    ASSUME Types, InList, NEW t \in Tasks,
           InitDone(t) \/ Stat(t) \/ Clone(t) \/ CloneEnds(t) \/ CloneFails(t)
    PROVE  Attempt(t)
<1>0. TaskType /\ Rest /\ {"send", "done", "clone", "cloning"} \subseteq Pcs
  BY DEF Types, Pcs
<1>1. CASE InitDone(t)
  <2>1. Rest'
    BY <1>0, <1>1 DEF InitDone, Rest
  <2> QED
    BY <2>1, <1>0, <1>1, GotoFacts DEF InitDone, At, Attempt
<1>2. CASE Stat(t)
  <2>1. Rest'
    BY <1>0, <1>2 DEF Stat, Rest, Fail
  <2>2. /\ task[t].pc = "stat" /\ sysd = "init"
        /\ UNCHANGED <<collector, errs, init, sysd, initErrors>>
        /\ \/ Goto(t, "clone") /\ failed' = failed
           \/ Goto(t, "send") /\ failed' = failed \cup {t}
           \/ NextClone(t) /\ failed' = failed
    BY <1>2 DEF Stat, At, Fail
  <2> QED
    BY <2>1, <2>2, <1>0, GotoFacts, NextCloneFacts DEF Attempt
<1>3. CASE Clone(t)
  <2>1. Rest'
    BY <1>0, <1>3 DEF Clone, Rest, Fail
  <2>2. /\ task[t].pc = "clone" /\ sysd = "init"
        /\ UNCHANGED <<collector, errs, init, sysd, initErrors>>
        /\ \/ Goto(t, "cloning") /\ failed' = failed
           \/ Goto(t, "send") /\ failed' = failed \cup {t}
    BY <1>3 DEF Clone, At, Fail
  <2> QED
    BY <2>1, <2>2, <1>0, GotoFacts DEF Attempt
<1>4. CASE CloneEnds(t)
  <2>1. Rest'
    BY <1>0, <1>4 DEF CloneEnds, Rest
  <2> QED
    BY <2>1, <1>0, <1>4, NextCloneFacts DEF CloneEnds, At, Attempt
<1>5. CASE CloneFails(t)
  <2>1. Dest(t) \in Dirs
    <3>1. Clones[t] \in Seq(Dirs)
      BY StartupAssumption
    <3>2. task[t].k \in 1..Len(Clones[t])
      BY <1>5 DEF InList, CloneFails, At
    <3> QED
      BY <3>1, <3>2 DEF Dest
  <2>2. Rest'
    BY <1>0, <1>5, <2>1 DEF CloneFails, Rest, Fail
  <2> QED
    BY <2>2, <1>0, <1>5, GotoFacts DEF CloneFails, At, Fail, Attempt
<1> QED
  BY <1>1, <1>2, <1>3, <1>4, <1>5

LEMMA SendErrorFacts ==
    ASSUME Types, NEW t \in Tasks, SendError(t)
    PROVE  /\ TaskType' /\ Rest' /\ sysd = "init"
           /\ task[t].pc = "send" /\ task'[t].pc = "done" /\ task'[t].k = task[t].k
           /\ \A u \in Tasks : u # t => task'[u] = task[u]
           /\ collector[StackOf[t]] = "receive"
           /\ collector' = [collector EXCEPT ![StackOf[t]] = "append"]
           /\ UNCHANGED <<dir, errs, init, sysd, initErrors, failed, torn, boots>>
<1>1. TaskType /\ "done" \in Pcs
  BY DEF Types, Pcs
<1>2. Rest'
  BY DEF SendError, Types, Rest
<1> QED
  BY <1>1, <1>2, GotoFacts DEF SendError, At

LEMMA FiniteTasks == \A S : S \subseteq Tasks => IsFiniteSet(S) /\ Cardinality(S) \in Nat
  BY StartupAssumption, FS_Subset, FS_CardinalityType

-----------------------------------------------------------------------------
(* The errors.                                                              *)

LEMMA InitErrs == Init => Errors
<1> SUFFICES ASSUME Init PROVE Errors
  OBVIOUS
<1>1. /\ task = [t \in Tasks |-> [pc |-> "idle", k |-> 1]] /\ errs = [s \in Stacks |-> 0]
      /\ collector = [s \in Stacks |-> "receive"] /\ failed = {} /\ sysd = "off"
      /\ init = [s \in Stacks |-> "wait"]
  BY DEF Init, Idle
<1>2. Types
  <2>1. TaskType /\ ErrsType
    BY <1>1 DEF TaskType, ErrsType, Pcs
  <2>2. Rest
    <3>1. /\ dir \in [Dirs -> {"absent", "file", "partial", "cloned"}]
          /\ boots \in 0..MaxBoots /\ torn \subseteq Dirs
      BY StartupAssumption DEF Init
    <3>2. /\ collector \in [Stacks -> {"receive", "append"}]
          /\ init \in [Stacks -> {"wait", "check", "returned"}]
      BY <1>1
    <3>3. initErrors \in BOOLEAN
      BY Zenon DEF Init, Idle
    <3> QED
      BY <3>1, <3>2, <3>3, <1>1 DEF Rest
  <2> QED
    BY <2>1, <2>2 DEF Types
<1>3. Counted
  <2>1. \A s \in Stacks : HandedOver(s) = {} /\ InHand(s) = 0 /\ errs[s] = 0
    BY <1>1 DEF HandedOver, InHand
  <2> QED
    BY <2>1, FS_EmptySet DEF Counted
<1>4. Failing /\ Waited /\ Checked /\ Started
  BY <1>1 DEF Failing, Waited, Checked, Started
<1> QED
  BY <1>2, <1>3, <1>4 DEF Errors

\* Whoever has not failed yet is not counted yet, and its stack is still waiting.
LEMMA AttemptErrors == ASSUME Errors, NEW t \in Tasks, Attempt(t) PROVE Errors'
<1>1. /\ task[t].pc \in {"stat", "clone", "cloning"} /\ t \notin failed
      /\ \A u \in Tasks : u # t => task'[u] = task[u]
      /\ failed' \subseteq failed \cup {t} /\ failed \subseteq failed'
      /\ t \in failed' => task'[t].pc = "send"
      /\ task'[t].pc = "send" => t \in failed'
      /\ UNCHANGED <<collector, errs, init, sysd, initErrors>>
      /\ failed \subseteq Tasks
  BY DEF Attempt, Errors, Failing, Types, Rest
<1>2. Types' /\ Failing'
  <2>1. TaskType' /\ Rest' /\ ErrsType'
    BY <1>1 DEF Attempt, Errors, Types, ErrsType
  <2>2. Failing'
    BY <1>1 DEF Errors, Failing
  <2> QED
    BY <2>1, <2>2 DEF Types
<1>3. Counted'
  <2>1. ASSUME NEW s \in Stacks PROVE HandedOver(s)' = HandedOver(s) /\ InHand(s)' = InHand(s)
    BY <1>1 DEF HandedOver, InHand
  <2> QED
    BY <2>1, <1>1 DEF Errors, Counted
<1>4. \A s \in Stacks : init[s] # "wait" => t \notin TasksOf(s)
  BY <1>1 DEF Errors, Waited
<1>5. Waited' /\ Checked'
  <2>1. \A s \in Stacks : init[s] # "wait" => failed' \cap TasksOf(s) = failed \cap TasksOf(s)
    BY <1>1, <1>4
  <2>2. \A s \in Stacks : \A u \in TasksOf(s) : u \in Tasks
    BY DEF TasksOf
  <2>3. Waited'
    BY <1>1, <1>4, <2>2 DEF Errors, Waited
  <2>4. Checked'
    <3> SUFFICES ASSUME NEW s \in Stacks, init[s] = "returned", ~initErrors
                 PROVE  Cardinality(failed' \cap TasksOf(s)) <= 1
      BY <1>1 DEF Checked
    <3>1. Cardinality(failed \cap TasksOf(s)) <= 1
      BY DEF Errors, Checked
    <3>2. failed' \cap TasksOf(s) = failed \cap TasksOf(s)
      BY <2>1
    <3> QED
      BY <3>1, <3>2
  <2> QED
    BY <2>3, <2>4
<1>6. Started'
  BY <1>1 DEF Attempt, Started
<1> QED
  BY <1>2, <1>3, <1>5, <1>6 DEF Errors

LEMMA SendErrorErrors == ASSUME Errors, NEW t \in Tasks, SendError(t) PROVE Errors'
<1> PICK r : r = StackOf[t]
  OBVIOUS
<1>1. /\ TaskType' /\ Rest' /\ sysd = "init" /\ task[t].pc = "send" /\ task'[t].pc = "done"
      /\ \A u \in Tasks : u # t => task'[u] = task[u]
      /\ collector[r] = "receive" /\ collector' = [collector EXCEPT ![r] = "append"]
      /\ UNCHANGED <<dir, errs, init, sysd, initErrors, failed, torn, boots>>
      /\ collector \in [Stacks -> {"receive", "append"}] /\ failed \subseteq Tasks /\ r \in Stacks
  BY SendErrorFacts, StartupAssumption DEF Errors, Types, Rest
<1>2. Types' /\ Failing'
  <2>1. ErrsType'
    BY <1>1 DEF Errors, Types, ErrsType
  <2>2. t \in failed
    BY <1>1 DEF Errors, Failing
  <2>3. Failing'
    BY <1>1, <2>2 DEF Errors, Failing
  <2> QED
    BY <2>1, <2>3, <1>1 DEF Types
<1>3. Counted'
  <2> SUFFICES ASSUME NEW s \in Stacks PROVE Cardinality(HandedOver(s)') = errs[s] + InHand(s)'
    BY <1>1 DEF Counted
  <2>1. Cardinality(HandedOver(s)) = errs[s] + InHand(s)
    BY DEF Errors, Counted
  <2>2. CASE s = r
    <3>1. t \notin HandedOver(s) /\ HandedOver(s)' = HandedOver(s) \cup {t}
      BY <1>1, <2>2 DEF Errors, Failing, HandedOver, TasksOf
    <3>2. IsFiniteSet(HandedOver(s))
      BY <1>1, FiniteTasks DEF HandedOver
    <3>3. Cardinality(HandedOver(s) \cup {t}) = Cardinality(HandedOver(s)) + 1
      BY <3>1, <3>2, FS_AddElement
    <3>4. InHand(s) = 0 /\ InHand(s)' = 1
      BY <1>1, <2>2 DEF InHand
    <3>5. errs[s] \in Nat
      BY DEF Errors, Types, ErrsType
    <3> QED
      BY <2>1, <3>1, <3>3, <3>4, <3>5
  <2>3. CASE s # r
    <3>1. HandedOver(s)' = HandedOver(s)
      <4>1. t \notin TasksOf(s)
        BY <2>3 DEF TasksOf
      <4> QED
        BY <1>1, <4>1 DEF HandedOver
    <3>2. InHand(s)' = InHand(s)
      BY <1>1, <2>3 DEF InHand
    <3> QED
      BY <2>1, <3>1, <3>2
  <2> QED
    BY <2>2, <2>3
<1>4. Waited' /\ Checked' /\ Started'
  <2>1. \A s \in Stacks : \A u \in TasksOf(s) : u \in Tasks
    BY DEF TasksOf
  <2>2. Waited'
    BY <1>1, <2>1 DEF Errors, Waited
  <2> QED
    BY <1>1, <2>2 DEF Errors, Checked, Started
<1> QED
  BY <1>2, <1>3, <1>4 DEF Errors

LEMMA AppendErrorErrors == ASSUME Errors, NEW r \in Stacks, AppendError(r) PROVE Errors'
<1>1. /\ sysd = "init" /\ collector[r] = "append"
      /\ errs' = [errs EXCEPT ![r] = errs[r] + 1] /\ collector' = [collector EXCEPT ![r] = "receive"]
      /\ UNCHANGED <<dir, task, init, sysd, initErrors, failed, torn, boots>>
      /\ collector \in [Stacks -> {"receive", "append"}] /\ errs \in [Stacks -> Nat]
  BY DEF AppendError, Errors, Types, Rest, ErrsType
<1>2. Types'
  <2>1. ErrsType'
    BY <1>1 DEF ErrsType
  <2>2. TaskType' /\ Rest'
    BY <1>1 DEF Errors, Types, TaskType, Rest
  <2> QED
    BY <2>1, <2>2 DEF Types
<1>3. Counted'
  <2> SUFFICES ASSUME NEW s \in Stacks PROVE Cardinality(HandedOver(s)) = errs'[s] + InHand(s)'
    BY <1>1 DEF Counted, HandedOver
  <2>1. Cardinality(HandedOver(s)) = errs[s] + InHand(s) /\ errs[s] \in Nat
    BY <1>1 DEF Errors, Counted
  <2>2. errs'[s] = (IF s = r THEN errs[s] + 1 ELSE errs[s])
        /\ collector'[s] = (IF s = r THEN "receive" ELSE collector[s])
    BY <1>1
  <2> QED
    BY <2>1, <2>2, <1>1 DEF InHand
<1>4. (Failing /\ Waited /\ Checked /\ Started)'
  BY <1>1 DEF Errors, Failing, Waited, Checked, Started
<1> QED
  BY <1>2, <1>3, <1>4 DEF Errors

LEMMA WaitErrors == ASSUME Errors, NEW r \in Stacks, WaitForTasks(r) PROVE Errors'
<1>1. /\ sysd = "init" /\ \A t \in TasksOf(r) : task[t].pc = "done"
      /\ init' = [init EXCEPT ![r] = "check"] /\ init \in [Stacks -> {"wait", "check", "returned"}]
      /\ UNCHANGED <<dir, task, collector, errs, sysd, initErrors, failed, torn, boots>>
  BY DEF WaitForTasks, Errors, Types, Rest
<1>2. Types'
  BY <1>1 DEF Errors, Types, TaskType, ErrsType, Rest
<1>3. (Failing /\ Counted /\ Started)'
  BY <1>1 DEF Errors, Failing, Counted, Started, HandedOver, InHand
<1>4. Waited' /\ Checked'
  BY <1>1 DEF Errors, Waited, Checked
<1> QED
  BY <1>2, <1>3, <1>4 DEF Errors

\* All tasks of the stack are done: each failure but the last one is in the count.
LEMMA CheckErrorsErrors == ASSUME Errors, NEW r \in Stacks, CheckErrors(r) PROVE Errors'
<1>1. /\ sysd = "init" /\ init[r] = "check" /\ initErrors' = (initErrors \/ HasErrors(r))
      /\ init' = [init EXCEPT ![r] = "returned"] /\ init \in [Stacks -> {"wait", "check", "returned"}]
      /\ UNCHANGED <<dir, task, collector, errs, sysd, failed, torn, boots>>
      /\ initErrors \in BOOLEAN
  BY DEF CheckErrors, Errors, Types, Rest
<1>2. Types'
  <2>1. initErrors' \in BOOLEAN
    BY <1>1, Zenon DEF HasErrors
  <2> QED
    BY <1>1, <2>1 DEF Errors, Types, TaskType, ErrsType, Rest
<1>3. (Failing /\ Counted /\ Started)'
  BY <1>1 DEF Errors, Failing, Counted, Started, HandedOver, InHand
<1>4. Waited'
  BY <1>1 DEF Errors, Waited
<1>5. Checked'
  <2>1. ~HasErrors(r) => Cardinality(failed \cap TasksOf(r)) <= 1
    <3> SUFFICES ASSUME ~HasErrors(r) PROVE Cardinality(failed \cap TasksOf(r)) <= 1
      OBVIOUS
    <3>1. HandedOver(r) = failed \cap TasksOf(r)
      BY <1>1 DEF Errors, Waited, HandedOver
    <3>2. Cardinality(HandedOver(r)) = errs[r] + InHand(r) /\ errs[r] \in Nat
      BY DEF Errors, Types, ErrsType, Counted
    <3> QED
      BY <3>1, <3>2 DEF HasErrors, InHand
  <2>2. ~initErrors' => ~initErrors /\ ~HasErrors(r)
    BY <1>1, Zenon
  <2>3. \A s \in Stacks : init'[s] = "returned" => s = r \/ init[s] = "returned"
    BY <1>1
  <2> SUFFICES ASSUME NEW s \in Stacks, init'[s] = "returned", ~initErrors'
               PROVE  Cardinality(failed \cap TasksOf(s)) <= 1
    BY <1>1 DEF Checked
  <2> QED
    BY <2>1, <2>2, <2>3 DEF Errors, Checked
<1> QED
  BY <1>2, <1>3, <1>4, <1>5 DEF Errors

LEMMA BootErrors == ASSUME Errors, Boot PROVE Errors'
<1>1. /\ task' = [t \in Tasks |-> [pc |-> "stat", k |-> 1]] /\ errs' = [s \in Stacks |-> 0]
      /\ collector' = [s \in Stacks |-> "receive"] /\ failed' = {} /\ sysd' = "init"
      /\ init' = [s \in Stacks |-> "wait"]
  BY DEF Boot
<1>2. Types'
  <2>1. TaskType' /\ ErrsType'
    BY <1>1 DEF TaskType, ErrsType, Pcs
  <2>2. Rest'
    <3>1. /\ dir' \in [Dirs -> {"absent", "file", "partial", "cloned"}]
          /\ boots' \in 0..MaxBoots /\ torn' \subseteq Dirs
      BY StartupAssumption DEF Boot, Errors, Types, Rest
    <3>2. /\ collector' \in [Stacks -> {"receive", "append"}]
          /\ init' \in [Stacks -> {"wait", "check", "returned"}]
      BY <1>1
    <3>3. initErrors' \in BOOLEAN
      BY Zenon DEF Boot
    <3> QED
      BY <3>1, <3>2, <3>3, <1>1 DEF Rest
  <2> QED
    BY <2>1, <2>2 DEF Types
<1>3. Counted'
  <2>1. \A s \in Stacks : HandedOver(s)' = {} /\ InHand(s)' = 0 /\ errs'[s] = 0
    BY <1>1 DEF HandedOver, InHand
  <2> QED
    BY <2>1, FS_EmptySet DEF Counted
<1>4. (Failing /\ Waited /\ Checked /\ Started)'
  BY <1>1 DEF Failing, Waited, Checked, Started
<1> QED
  BY <1>2, <1>3, <1>4 DEF Errors

LEMMA SysdErrors == ASSUME Errors, Exit \/ Start \/ Down \/ UNCHANGED vars PROVE Errors'
<1>1. UNCHANGED <<dir, task, collector, errs, init, initErrors, failed, boots>>
  BY DEF Exit, Start, Down, vars
<1>2. /\ sysd' \in {"off", "init", "started"} /\ torn' \subseteq Dirs
      /\ sysd' = "started" => ~initErrors /\ \A s \in Stacks : init[s] = "returned"
  BY DEF Exit, Start, Down, vars, Errors, Types, Rest, Started
<1>3. Types'
  BY <1>1, <1>2 DEF Errors, Types, TaskType, ErrsType, Rest
<1>4. (Failing /\ Counted /\ Waited /\ Checked)'
  BY <1>1 DEF Errors, Failing, Counted, Waited, Checked, HandedOver, InHand
<1> QED
  BY <1>1, <1>2, <1>3, <1>4 DEF Errors, Started

LEMMA NextErrors == SInv /\ [Next]_vars => Errors'
<1> SUFFICES ASSUME SInv, [Next]_vars PROVE Errors'
  OBVIOUS
<1>1. ASSUME NEW t \in Tasks, TaskStep(t) PROVE Errors'
  <2>1. Types /\ InList /\ Errors
    BY DEF SInv, Errors, Dests
  <2> QED
    BY <2>1, <1>1, AttemptSteps, AttemptErrors, SendErrorErrors DEF TaskStep
<1>2. ASSUME NEW s \in Stacks, StackStep(s) PROVE Errors'
  BY <1>2, AppendErrorErrors, WaitErrors, CheckErrorsErrors DEF StackStep, SInv
<1> QED
  BY <1>1, <1>2, BootErrors, SysdErrors DEF Next, SInv

-----------------------------------------------------------------------------
(* The directories.                                                         *)

LEMMA InitDests == Init => Dests
<1> SUFFICES ASSUME Init PROVE Dests
  OBVIOUS
<1>1. /\ \A t \in Tasks : task[t].pc = "idle" /\ task[t].k = 1
      /\ \A d \in Dirs : dir[d] # "partial"
  BY DEF Init, Idle
<1>2. \A t \in Tasks : Len(Clones[t]) \in Nat
  BY StartupAssumption
<1>3. InList
  BY <1>1, <1>2 DEF InList
<1>4. Passed
  BY <1>1 DEF Passed
<1> QED
  BY <1>1, <1>3, <1>4 DEF Dests, OneCloner, PartialIsCloning, OffIsTorn

\* What holds in a state in which only the task t has moved, and only its destination has changed.
Moved(t) ==
    /\ task'[t].k \in {task[t].k, task[t].k + 1}
    /\ \A u \in Tasks : u # t => task'[u] = task[u]
    /\ failed \subseteq failed'
    /\ torn \subseteq torn' /\ sysd = "init" /\ sysd' = "init"

LEMMA DestFacts ==
    ASSUME Types, InList
    PROVE  /\ \A t \in Tasks : Len(Clones[t]) \in Nat /\ Clones[t] \in Seq(Dirs)
           /\ \A t \in Tasks : \A k \in 1..Len(Clones[t]) : Clones[t][k] \in Dirs
           /\ \A t \in Tasks : task[t].k \in Nat
           /\ \A t \in Tasks : task[t].pc = "cloning" => Dest(t) \in Dirs
<1>1. \A t \in Tasks : Len(Clones[t]) \in Nat /\ Clones[t] \in Seq(Dirs)
  BY StartupAssumption
<1>2. \A t \in Tasks : \A k \in 1..Len(Clones[t]) : Clones[t][k] \in Dirs
  BY <1>1
<1>3. \A t \in Tasks : task[t].k \in Nat
  BY DEF Types, TaskType
<1> QED
  BY <1>1, <1>2, <1>3 DEF InList, Dest

\* The list of a task is left at its end or by an error.
LEMMA MovedInList ==
    ASSUME Types, InList, NEW t \in Tasks, Moved(t),
           /\ task'[t].k = task[t].k + 1 => task[t].k \in 1..Len(Clones[t])
           /\ task'[t].pc \in {"clone", "cloning"} => task'[t].k \in 1..Len(Clones[t])
           /\ task'[t].pc = "done" => t \in failed \/ task'[t].k = Len(Clones[t]) + 1
    PROVE  InList'
<1>1. Len(Clones[t]) \in Nat /\ task[t].k \in Nat
  BY DestFacts
<1>2. task'[t].k \in 1..Len(Clones[t]) + 1
  BY <1>1 DEF Moved, InList
<1>3. ASSUME NEW u \in Tasks
      PROVE  /\ task'[u].k \in 1..Len(Clones[u]) + 1
             /\ task'[u].pc \in {"clone", "cloning"} => task'[u].k \in 1..Len(Clones[u])
             /\ task'[u].pc = "done" /\ u \notin failed' => task'[u].k = Len(Clones[u]) + 1
  <2>1. CASE u = t
    BY <2>1, <1>2 DEF Moved
  <2>2. CASE u # t
    BY <2>2 DEF Moved, InList
  <2> QED
    BY <2>1, <2>2
<1> QED
  BY <1>3 DEF InList

\* No task passes a destination that is not there: dirs that are there stay, unless
\* the task that clones them fails.
LEMMA MovedPassed ==
    ASSUME Types, InList, Passed, NEW t \in Tasks, Moved(t),
           \A d \in Dirs : dir[d] \in {"partial", "cloned"} => dir'[d] \in {"partial", "cloned"} \/ d \in OfFailed',
           task'[t].k = task[t].k + 1 => dir'[Clones[t][task[t].k]] \in {"partial", "cloned"}
    PROVE  Passed'
<1> SUFFICES ASSUME NEW u \in Tasks, NEW k \in 1..Len(Clones[u]), k < task'[u].k
             PROVE  dir'[Clones[u][k]] \in {"partial", "cloned"} \/ Clones[u][k] \in OfFailed'
  BY DEF Passed
<1>1. OfFailed \subseteq OfFailed'
  BY DEF Moved, OfFailed
<1>2. Clones[u][k] \in Dirs /\ task[u].k \in Nat
  BY DestFacts
<1>3. CASE k < task[u].k
  <2>1. dir[Clones[u][k]] \in {"partial", "cloned"} \/ Clones[u][k] \in OfFailed
    BY <1>3 DEF Passed
  <2> QED
    BY <2>1, <1>1, <1>2
<1>4. CASE ~(k < task[u].k)
  <2>1. u = t /\ k = task[u].k /\ task'[t].k = task[t].k + 1
    BY <1>2, <1>4 DEF Moved
  <2> QED
    BY <2>1
<1> QED
  BY <1>3, <1>4

\* The steps of a task that change no directory.
LEMMA QuietDests ==
    ASSUME SInv, NEW t \in Tasks, Moved(t), UNCHANGED dir, InList',
           task[t].pc # "cloning" /\ task'[t].pc # "cloning",
           task'[t].k = task[t].k + 1 => dir[Clones[t][task[t].k]] \in {"partial", "cloned"}
    PROVE  Dests'
<1>1. Types /\ InList /\ OneCloner /\ PartialIsCloning /\ Passed
  BY DEF SInv, Errors, Dests
<1>2. Passed'
  BY <1>1, MovedPassed
<1>3. \A u \in Tasks : task'[u].pc = "cloning" <=> task[u].pc = "cloning"
  BY DEF Moved
<1>4. \A u \in Tasks : task[u].pc = "cloning" => u # t /\ Dest(u)' = Dest(u)
  BY DEF Moved, Dest
<1>5. OneCloner'
  BY <1>1, <1>3, <1>4 DEF OneCloner
<1>6. PartialIsCloning'
  BY <1>1, <1>3, <1>4 DEF PartialIsCloning, Moved
<1>7. OffIsTorn'
  BY DEF OffIsTorn, Moved
<1> QED
  BY <1>2, <1>5, <1>6, <1>7 DEF Dests

LEMMA TaskStepFacts ==
    ASSUME SInv, NEW t \in Tasks, TaskStep(t)
    PROVE  /\ \A u \in Tasks : u # t => task'[u] = task[u]
           /\ failed \subseteq failed'
           /\ torn \subseteq torn' /\ sysd = "init" /\ sysd' = "init"
           /\ Types /\ TaskType /\ InList
           /\ task[t].k \in Nat /\ Len(Clones[t]) \in Nat /\ DOMAIN Clones[t] = 1..Len(Clones[t])
<1>1. Types /\ InList /\ TaskType
  BY DEF SInv, Errors, Dests, Types
<1>2. CASE SendError(t)
  <2>1. /\ \A u \in Tasks : u # t => task'[u] = task[u]
        /\ failed \subseteq failed' /\ torn \subseteq torn' /\ sysd = "init" /\ sysd' = "init"
    BY <1>1, <1>2, SendErrorFacts
  <2> QED
    BY <2>1, <1>1, DestFacts
<1>3. CASE ~SendError(t)
  <2>1. Attempt(t) /\ torn \subseteq torn'
    BY <1>1, <1>3, AttemptSteps DEF TaskStep, InitDone, Stat, Clone, CloneEnds, CloneFails
  <2> QED
    BY <2>1, <1>1, DestFacts DEF Attempt
<1> QED
  BY <1>2, <1>3

LEMMA QuietSteps ==
    ASSUME SInv, NEW t \in Tasks, TaskStep(t), InitDone(t) \/ Stat(t) \/ SendError(t) \/ (Clone(t) /\ UNCHANGED dir)
    PROVE  Dests'
<1>0. /\ \A u \in Tasks : u # t => task'[u] = task[u]
      /\ failed \subseteq failed' /\ torn \subseteq torn' /\ sysd = "init" /\ sysd' = "init"
      /\ Types /\ TaskType /\ InList
      /\ task[t].k \in Nat /\ Len(Clones[t]) \in Nat /\ DOMAIN Clones[t] = 1..Len(Clones[t])
  BY TaskStepFacts
<1>00. {"send", "done", "clone", "cloning"} \subseteq Pcs
  BY DEF Pcs
<1>1. CASE InitDone(t)
  <2>1. /\ task[t].pc = "stat" /\ task'[t].pc = "done" /\ task'[t].k = task[t].k /\ UNCHANGED dir
        /\ task[t].k \notin 1..Len(Clones[t])
    BY <1>0, <1>1, <1>00, GotoFacts DEF InitDone, At
  <2>2. Moved(t)
    BY <1>0, <2>1 DEF Moved
  <2>3. task'[t].k = Len(Clones[t]) + 1
    BY <1>0, <2>1 DEF InList
  <2>4. InList'
    <3>1. Types /\ InList /\ task'[t].k # task[t].k + 1
      BY <1>0, <2>1
    <3>2. task'[t].pc = "done"
      BY <2>1
    <3> QED
      BY <3>1, <3>2, <2>2, <2>3, MovedInList
  <2> QED
    BY <1>0, <2>1, <2>2, <2>4, QuietDests
<1>2. CASE Stat(t)
  <2>1. task[t].pc = "stat" /\ UNCHANGED dir /\ task[t].k \in 1..Len(Clones[t])
    BY <1>0, <1>2 DEF Stat, At
  <2>2. \/ task'[t].pc \in {"clone", "send"} /\ task'[t].k = task[t].k
        \/ /\ task'[t].pc = "stat" /\ task'[t].k = task[t].k + 1
           /\ dir[Clones[t][task[t].k]] \in {"partial", "cloned"}
    BY <1>0, <1>2, <1>00, GotoFacts, NextCloneFacts DEF Stat, Fail, Dest
  <2>3. Moved(t)
    BY <1>0, <2>2 DEF Moved
  <2>4. InList'
    BY <1>0, <2>1, <2>2, <2>3, MovedInList
  <2> QED
    BY <1>0, <2>1, <2>2, <2>3, <2>4, QuietDests
<1>3. CASE SendError(t)
  <2>1. /\ task[t].pc = "send" /\ task'[t].pc = "done" /\ task'[t].k = task[t].k /\ UNCHANGED dir
        /\ t \in failed
    BY <1>0, <1>3, SendErrorFacts DEF SInv, Errors, Failing
  <2>2. Moved(t)
    BY <1>0, <2>1 DEF Moved
  <2>3. InList'
    BY <1>0, <2>1, <2>2, MovedInList
  <2> QED
    BY <1>0, <2>1, <2>2, <2>3, QuietDests
<1>4. CASE Clone(t) /\ UNCHANGED dir
  <2>1. dir[Dest(t)] # "absent"
    <3>1. dir \in [Dirs -> {"absent", "file", "partial", "cloned"}] /\ Dest(t) \in Dirs
      BY <1>0, <1>4, DestFacts DEF Types, Rest, Clone, At, InList, Dest
    <3> QED
      BY <1>4, <3>1 DEF Clone
  <2>2. task[t].pc = "clone" /\ task'[t].pc = "send" /\ task'[t].k = task[t].k
    BY <1>0, <1>4, <1>00, <2>1, GotoFacts DEF Clone, Fail, At
  <2>3. Moved(t)
    BY <1>0, <2>2 DEF Moved
  <2>4. InList'
    BY <1>0, <2>2, <2>3, MovedInList
  <2> QED
    BY <1>0, <1>4, <2>2, <2>3, <2>4, QuietDests
<1> QED
  BY <1>1, <1>2, <1>3, <1>4

\* The steps of a task that change its destination, and no other directory.
LEMMA CloneDests ==
    ASSUME SInv, NEW t \in Tasks, TaskStep(t), Clone(t), dir' # dir
    PROVE  Dests'
<1>0. /\ \A u \in Tasks : u # t => task'[u] = task[u]
      /\ failed \subseteq failed' /\ torn \subseteq torn' /\ sysd = "init" /\ sysd' = "init"
      /\ Types /\ TaskType /\ InList
      /\ task[t].k \in Nat /\ Len(Clones[t]) \in Nat
  BY TaskStepFacts
<1> PICK e : e = Dest(t)
  OBVIOUS
<1>1. /\ task[t].pc = "clone" /\ dir[e] = "absent" /\ dir' = [dir EXCEPT ![e] = "partial"]
      /\ Goto(t, "cloning") /\ UNCHANGED failed
  BY DEF Clone, At
<1>2. task'[t].pc = "cloning" /\ task'[t].k = task[t].k
  <2>1. "cloning" \in Pcs
    BY DEF Pcs
  <2> QED
    BY <2>1, <1>0, <1>1, GotoFacts
<1>3. e \in Dirs /\ task[t].k \in 1..Len(Clones[t]) /\ dir \in [Dirs -> {"absent", "file", "partial", "cloned"}]
  BY <1>0, <1>1, DestFacts DEF InList, Dest, Types, Rest
<1>4. dir'[e] = "partial" /\ \A d \in Dirs : d # e => dir'[d] = dir[d]
  BY <1>1, <1>3
<1>5. Moved(t)
  BY <1>0, <1>2 DEF Moved
<1>6. InList'
  BY <1>0, <1>2, <1>3, <1>5, MovedInList
<1>7. OneCloner /\ PartialIsCloning /\ Passed
  BY DEF SInv, Dests
<1>8. Passed'
  BY <1>0, <1>2, <1>4, <1>5, <1>7, MovedPassed
<1>9. Dest(t)' = e /\ \A u \in Tasks : u # t => Dest(u)' = Dest(u)
  BY <1>0, <1>2 DEF Dest
<1>10. \A u \in Tasks : task[u].pc = "cloning" => u # t /\ Dest(u) # e /\ Dest(u) \in Dirs
  BY <1>0, <1>1, <1>7, DestFacts DEF OneCloner
<1>11. OneCloner'
  <2> SUFFICES ASSUME NEW u \in Tasks, task'[u].pc = "cloning"
               PROVE  /\ dir'[Dest(u)'] = "partial"
                      /\ \A v \in Tasks : task'[v].pc = "cloning" /\ Dest(v)' = Dest(u)' => v = u
    BY DEF OneCloner
  <2>1. CASE u = t
    BY <2>1, <1>0, <1>4, <1>9, <1>10
  <2>2. CASE u # t
    <3>1. task[u].pc = "cloning" /\ Dest(u)' = Dest(u)
      BY <2>2, <1>0, <1>9
    <3>2. dir'[Dest(u)'] = "partial"
      BY <3>1, <1>4, <1>7, <1>10 DEF OneCloner
    <3>3. ASSUME NEW v \in Tasks, task'[v].pc = "cloning", Dest(v)' = Dest(u)' PROVE v = u
      BY <3>1, <3>3, <1>0, <1>7, <1>9, <1>10 DEF OneCloner
    <3> QED
      BY <3>2, <3>3
  <2> QED
    BY <2>1, <2>2
<1>12. PartialIsCloning'
  <2> SUFFICES ASSUME NEW d \in Dirs, dir'[d] = "partial"
               PROVE  d \in torn \/ \E u \in Tasks : task'[u].pc = "cloning" /\ Dest(u)' = d
    BY <1>0 DEF PartialIsCloning
  <2>1. CASE d = e
    BY <2>1, <1>2, <1>9
  <2>2. CASE d # e
    <3>1. d \in torn \/ \E u \in Tasks : task[u].pc = "cloning" /\ Dest(u) = d
      BY <2>2, <1>4, <1>7 DEF PartialIsCloning
    <3> QED
      BY <3>1, <1>0, <1>9, <1>10
  <2> QED
    BY <2>1, <2>2
<1>13. OffIsTorn'
  BY <1>0 DEF OffIsTorn
<1> QED
  BY <1>6, <1>8, <1>11, <1>12, <1>13 DEF Dests

LEMMA EndDests ==
    ASSUME SInv, NEW t \in Tasks, TaskStep(t), CloneEnds(t) \/ CloneFails(t)
    PROVE  Dests'
<1>0. /\ \A u \in Tasks : u # t => task'[u] = task[u]
      /\ failed \subseteq failed' /\ torn \subseteq torn' /\ sysd = "init" /\ sysd' = "init"
      /\ Types /\ TaskType /\ InList
      /\ task[t].k \in Nat /\ Len(Clones[t]) \in Nat
  BY TaskStepFacts
<1> PICK e : e = Dest(t)
  OBVIOUS
<1>1. /\ task[t].pc = "cloning"
      /\ \/ dir' = [dir EXCEPT ![e] = "cloned"] /\ NextClone(t)
         \/ /\ \/ dir' = [dir EXCEPT ![e] = "absent"]
               \/ dir' = dir /\ e \in torn'
            /\ Goto(t, "send") /\ failed' = failed \cup {t}
  BY DEF CloneEnds, CloneFails, Fail, At
<1>2. e \in Dirs /\ task[t].k \in 1..Len(Clones[t]) /\ dir \in [Dirs -> {"absent", "file", "partial", "cloned"}]
      /\ e = Clones[t][task[t].k]
  BY <1>0, <1>1, DestFacts DEF InList, Dest, Types, Rest
<1>3. \/ dir'[e] = "cloned" /\ task'[t].pc = "stat" /\ task'[t].k = task[t].k + 1
      \/ (dir'[e] = "absent" \/ e \in torn') /\ task'[t].pc = "send" /\ task'[t].k = task[t].k /\ t \in failed'
  <2>1. "send" \in Pcs
    BY DEF Pcs
  <2> QED
    BY <2>1, <1>0, <1>1, <1>2, GotoFacts, NextCloneFacts
<1>4. \A d \in Dirs : d # e => dir'[d] = dir[d]
  BY <1>1, <1>2
<1>5. Moved(t)
  BY <1>0, <1>3 DEF Moved
<1>6. InList'
  BY <1>0, <1>2, <1>3, <1>5, MovedInList
<1>7. OneCloner /\ PartialIsCloning /\ Passed
  BY DEF SInv, Dests
<1>8. Passed'
  <2>1. t \in failed' => e \in OfFailed'
    <3>1. e \in ToSet(Clones[t])
      <4>1. DOMAIN Clones[t] = 1..Len(Clones[t])
        BY DestFacts, <1>0
      <4> QED
        BY <4>1, <1>2 DEF ToSet
    <3> QED
      BY <3>1 DEF OfFailed
  <2>2. \A d \in Dirs : dir[d] \in {"partial", "cloned"} => dir'[d] \in {"partial", "cloned"} \/ d \in OfFailed'
    BY <2>1, <1>3, <1>4
  <2>3. task'[t].k = task[t].k + 1 => dir'[Clones[t][task[t].k]] \in {"partial", "cloned"}
    BY <1>0, <1>2, <1>3
  <2> QED
    BY <2>2, <2>3, <1>0, <1>5, <1>7, MovedPassed
<1>9. \A u \in Tasks : u # t => Dest(u)' = Dest(u)
  BY <1>0 DEF Dest
<1>10. \A u \in Tasks : task[u].pc = "cloning" /\ u # t => Dest(u) # e /\ Dest(u) \in Dirs
  BY <1>0, <1>1, <1>7, DestFacts DEF OneCloner
<1>11. \A u \in Tasks : task'[u].pc = "cloning" <=> task[u].pc = "cloning" /\ u # t
  BY <1>0, <1>3
<1>12. OneCloner'
  BY <1>4, <1>7, <1>9, <1>10, <1>11 DEF OneCloner
<1>13. PartialIsCloning'
  <2> SUFFICES ASSUME NEW d \in Dirs, dir'[d] = "partial", d \notin torn'
               PROVE  d \in torn \/ \E u \in Tasks : task'[u].pc = "cloning" /\ Dest(u)' = d
    BY <1>0 DEF PartialIsCloning
  <2>1. d # e
    BY <1>3
  <2>2. d \in torn \/ \E u \in Tasks : task[u].pc = "cloning" /\ Dest(u) = d
    BY <2>1, <1>4, <1>7 DEF PartialIsCloning
  <2> QED
    BY <2>1, <2>2, <1>9, <1>11
<1>14. OffIsTorn'
  BY <1>0 DEF OffIsTorn
<1> QED
  BY <1>6, <1>8, <1>12, <1>13, <1>14 DEF Dests

LEMMA BootDests == ASSUME SInv, Boot PROVE Dests'
<1>1. /\ \A t \in Tasks : task'[t].pc = "stat" /\ task'[t].k = 1
      /\ UNCHANGED <<dir, torn>> /\ sysd = "off" /\ sysd' = "init"
  BY DEF Boot
<1>2. \A t \in Tasks : Len(Clones[t]) \in Nat
  BY StartupAssumption
<1>3. InList'
  BY <1>1, <1>2 DEF InList
<1>4. Passed'
  BY <1>1 DEF Passed
<1>5. OneCloner'
  BY <1>1 DEF OneCloner
<1>6. PartialIsCloning'
  BY <1>1 DEF SInv, Dests, OffIsTorn, PartialIsCloning
<1> QED
  BY <1>1, <1>3, <1>4, <1>5, <1>6 DEF Dests, OffIsTorn

\* The steps of the stacks, the exit, the start and a power cut move no task.
LEMMA SysdDests ==
    ASSUME SInv, UNCHANGED <<dir, task, failed>>,
           torn \subseteq torn', sysd' = "off" => OffIsTorn'
    PROVE  Dests'
<1>1. Dests
  BY DEF SInv
<1>2. InList' /\ OneCloner' /\ Passed'
  BY <1>1 DEF Dests, InList, OneCloner, Passed, Dest, OfFailed
<1>3. PartialIsCloning'
  BY <1>1 DEF Dests, PartialIsCloning, Dest
<1> QED
  BY <1>2, <1>3 DEF Dests, OffIsTorn

LEMMA NextDests == SInv /\ [Next]_vars => Dests'
<1> SUFFICES ASSUME SInv, [Next]_vars PROVE Dests'
  OBVIOUS
<1>1. ASSUME NEW t \in Tasks, TaskStep(t) PROVE Dests'
  BY <1>1, QuietSteps, CloneDests, EndDests DEF TaskStep
<1>2. ASSUME NEW s \in Stacks, StackStep(s) PROVE Dests'
  <2>1. UNCHANGED <<dir, task, failed, torn, sysd>> /\ sysd = "init"
    BY <1>2 DEF StackStep, AppendError, WaitForTasks, CheckErrors
  <2> QED
    BY <2>1, SysdDests
<1>3. CASE Exit
  \* All tasks are done.
  <2>1. UNCHANGED <<dir, task, failed, torn>> /\ \A s \in Stacks : init[s] = "returned"
    BY <1>3 DEF Exit
  <2>2. \A t \in Tasks : task[t].pc = "done"
    BY <2>1, StartupAssumption DEF SInv, Errors, Waited, TasksOf
  <2>3. OffIsTorn'
    BY <2>1, <2>2 DEF SInv, Dests, PartialIsCloning, OffIsTorn
  <2> QED
    BY <2>1, <2>3, SysdDests
<1>4. CASE Start
  <2>1. UNCHANGED <<dir, task, failed, torn>> /\ sysd' = "started"
    BY <1>4 DEF Start
  <2> QED
    BY <2>1, SysdDests
<1>5. CASE Down
  <2>1. UNCHANGED <<dir, task, failed>> /\ torn' = torn \cup {d \in Dirs : dir[d] = "partial"}
    BY <1>5 DEF Down
  <2> QED
    BY <2>1, SysdDests DEF OffIsTorn
<1>6. CASE UNCHANGED vars
  <2>1. UNCHANGED <<dir, task, failed, torn, sysd>>
    BY <1>6 DEF vars
  <2> QED
    BY <2>1, SysdDests DEF SInv, Dests, OffIsTorn
<1> QED
  BY <1>1, <1>2, <1>3, <1>4, <1>5, <1>6, BootDests DEF Next

-----------------------------------------------------------------------------
(* Theorems.                                                                *)

\* The invariant holds, whatever the tasks clone and whenever the machine goes down.
THEOREM StartupInductive == Spec => []SInv
<1>1. Init => SInv
  BY InitErrs, InitDests DEF SInv
<1>2. SInv /\ [Next]_vars => SInv'
  BY NextErrors, NextDests DEF SInv
<1> QED
  BY <1>1, <1>2, PTL DEF Spec

\* For any stacks and tasks: every variable keeps its type; no stack counts more errors
\* than it has tasks.
THEOREM StartupTypeCorrect == Spec => []TypeOK
<1>1. SInv => TypeOK
  <2> SUFFICES ASSUME SInv PROVE TypeOK
    OBVIOUS
  <2>1. Types /\ InList /\ Counted
    BY DEF SInv, Errors, Dests
  <2>2. \A s \in Stacks : errs[s] \in 0..Cardinality(TasksOf(s))
    <3> SUFFICES ASSUME NEW s \in Stacks PROVE errs[s] \in 0..Cardinality(TasksOf(s))
      OBVIOUS
    <3>1. Cardinality(HandedOver(s)) = errs[s] + InHand(s) /\ errs[s] \in Nat
      BY <2>1 DEF Counted, Types, ErrsType
    <3>2. HandedOver(s) \subseteq TasksOf(s) /\ TasksOf(s) \subseteq Tasks
      BY DEF HandedOver, TasksOf
    <3>3. Cardinality(HandedOver(s)) <= Cardinality(TasksOf(s))
      BY <3>2, FiniteTasks, FS_Subset
    <3>4. Cardinality(TasksOf(s)) \in Nat
      BY <3>2, FiniteTasks
    <3> QED
      BY <3>1, <3>3, <3>4 DEF InHand
  <2>3. \A t \in Tasks : task[t].pc \in Pcs /\ task[t].k \in 1..Len(Clones[t]) + 1
    BY <2>1 DEF Types, TaskType, InList
  <2> QED
    BY <2>1, <2>2, <2>3 DEF Types, Rest, TypeOK, Pcs
<1> QED
  BY <1>1, StartupInductive, PTL

\* For any stacks and tasks: if two tasks of a stack fail to initialise, nothing is started.
THEOREM StartupTwoFailuresAreSeen == Spec => []TwoFailuresAreSeen
<1>1. SInv => TwoFailuresAreSeen
  BY DEF SInv, Errors, Checked, Started, TwoFailuresAreSeen
<1> QED
  BY <1>1, StartupInductive, PTL

\* For any tasks that share directories: what is started finds its directories cloned,
\* but for those that a power cut or a failed checkout has left half cloned, and those of a failure that was overlooked.
THEOREM StartupDirsAreCloned == Spec => []DirsAreCloned
<1>1. SInv => DirsAreCloned
  <2> SUFFICES ASSUME SInv, sysd = "started", NEW t \in Tasks \ failed, NEW k \in DOMAIN Clones[t],
                      dir[Clones[t][k]] # "cloned"
               PROVE  Clones[t][k] \in torn \cup OfFailed
    BY DEF DirsAreCloned, OfFailed
  <2>1. Types /\ InList /\ Passed /\ PartialIsCloning
    BY DEF SInv, Errors, Dests
  <2>2. \A u \in Tasks : task[u].pc = "done"
    BY StartupAssumption DEF SInv, Errors, Started, Waited, TasksOf
  <2>3. k \in 1..Len(Clones[t]) /\ Len(Clones[t]) \in Nat /\ Clones[t][k] \in Dirs
    <3>1. Clones[t] \in Seq(Dirs)
      BY StartupAssumption
    <3> QED
      BY <3>1
  <2>4. k < task[t].k
    BY <2>1, <2>2, <2>3 DEF InList
  <2>5. dir[Clones[t][k]] \in {"partial", "cloned"} \/ Clones[t][k] \in OfFailed
    BY <2>1, <2>3, <2>4 DEF Passed
  <2>6. dir[Clones[t][k]] = "partial" => Clones[t][k] \in torn
    BY <2>1, <2>2, <2>3 DEF PartialIsCloning
  <2> QED
    BY <2>5, <2>6
<1> QED
  BY <1>1, StartupInductive, PTL
=============================================================================
