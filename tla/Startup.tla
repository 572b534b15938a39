------------------------------- MODULE Startup -------------------------------
(***************************************************************************)
(* How paasbox starts: sysd.New initialises all stacks at once, each of     *)
(* which initialises all its tasks at once (sysd.go, stack.go, task.go,     *)
(* init.go); an initialisation clones git repositories into directories,    *)
(* one after the other. If one fails, paasbox is to exit and start nothing. *)
(***************************************************************************)
EXTENDS Integers, SequencesExt

CONSTANTS
    Stacks, Tasks,
    StackOf,    \* the stack of each task
    Dirs,
    Clones,     \* the destinations of each task's initialisations, in order
    MaxBoots    \* bound: how often paasbox is started

ASSUME StartupAssumption ==
    /\ StackOf \in [Tasks -> Stacks] /\ IsFiniteSet(Tasks)
    /\ \A t \in Tasks : Clones[t] \in Seq(Dirs)
    /\ MaxBoots \in Nat

TasksOf(s) == {t \in Tasks : StackOf[t] = s}

VARIABLES
    dir,        \* what is on the disk: "absent", "file", "partial", "cloned"
    task,       \* [pc, k]: where the goroutine of each task is, and in which clone
    collector,  \* of each stack, the goroutine that ranges over errChan
    errs,       \* of each stack, how many errors it has appended
    init,       \* where stack.Init is, for each stack
    sysd,       \* "off", "init", "started"
    initErrors,
    failed,     \* history: the tasks whose initialisation has failed in this boot
    torn,       \* history: directories that were left half cloned
    boots

vars == <<dir, task, collector, errs, init, sysd, initErrors, failed, torn, boots>>

Idle ==
    /\ task = [t \in Tasks |-> [pc |-> "idle", k |-> 1]]
    /\ collector = [s \in Stacks |-> "receive"] /\ errs = [s \in Stacks |-> 0]
    /\ init = [s \in Stacks |-> "wait"]
    /\ initErrors = FALSE /\ failed = {}

Init ==
    /\ dir \in [Dirs -> {"absent", "file", "cloned"}]
    /\ Idle /\ torn = {} /\ sysd = "off" /\ boots = 0

Boot ==
    /\ sysd = "off" /\ boots < MaxBoots
    /\ task' = [t \in Tasks |-> [pc |-> "stat", k |-> 1]]
    /\ collector' = [s \in Stacks |-> "receive"] /\ errs' = [s \in Stacks |-> 0]
    /\ init' = [s \in Stacks |-> "wait"]
    /\ initErrors' = FALSE /\ failed' = {}
    /\ sysd' = "init" /\ boots' = boots + 1
    /\ UNCHANGED <<dir, torn>>

-----------------------------------------------------------------------------
(* task.Init and gitInit.Do, in the goroutine of each task.                 *)

At(t, pc) == sysd = "init" /\ task[t].pc = pc
Dest(t) == Clones[t][task[t].k]
Goto(t, pc) == task' = [task EXCEPT ![t].pc = pc]
NextClone(t) == task' = [task EXCEPT ![t] = [pc |-> "stat", k |-> @.k + 1]]
Fail(t) == Goto(t, "send") /\ failed' = failed \cup {t}

InitDone(t) ==
    /\ At(t, "stat") /\ task[t].k \notin DOMAIN Clones[t]
    /\ Goto(t, "done")
    /\ UNCHANGED <<dir, collector, errs, init, sysd, initErrors, failed, torn, boots>>

\* A destination that exists needs no initialisation.
Stat(t) ==
    /\ At(t, "stat") /\ task[t].k \in DOMAIN Clones[t]
    /\ \/ dir[Dest(t)] = "absent" /\ Goto(t, "clone") /\ UNCHANGED failed
       \/ dir[Dest(t)] = "file" /\ Fail(t)
       \/ dir[Dest(t)] \in {"partial", "cloned"} /\ NextClone(t) /\ UNCHANGED failed
    /\ UNCHANGED <<dir, collector, errs, init, sysd, initErrors, torn, boots>>

\* git refuses a directory that has appeared since.
Clone(t) ==
    /\ At(t, "clone")
    /\ \/ /\ dir[Dest(t)] = "absent" /\ dir' = [dir EXCEPT ![Dest(t)] = "partial"]
          /\ Goto(t, "cloning") /\ UNCHANGED failed
       \/ /\ dir[Dest(t)] # "absent" /\ UNCHANGED dir
          /\ Fail(t)
    /\ UNCHANGED <<collector, errs, init, sysd, initErrors, torn, boots>>

CloneEnds(t) ==
    /\ At(t, "cloning")
    /\ dir' = [dir EXCEPT ![Dest(t)] = "cloned"]
    /\ NextClone(t)
    /\ UNCHANGED <<collector, errs, init, sysd, initErrors, failed, torn, boots>>

\* A git that fails to fetch takes away what it has made; one that fails to check it
\* out leaves it.
CloneFails(t) ==
    /\ At(t, "cloning") /\ Fail(t)
    /\ \/ dir' = [dir EXCEPT ![Dest(t)] = "absent"] /\ UNCHANGED torn
       \/ torn' = torn \cup {Dest(t)} /\ UNCHANGED dir
    /\ UNCHANGED <<collector, errs, init, sysd, initErrors, boots>>

-----------------------------------------------------------------------------
(* stack.Init.                                                              *)

\* errChan has no buffer: the goroutine hands its error over and is done.
SendError(t) ==
    /\ At(t, "send") /\ collector[StackOf[t]] = "receive"
    /\ Goto(t, "done")
    /\ collector' = [collector EXCEPT ![StackOf[t]] = "append"]
    /\ UNCHANGED <<dir, errs, init, sysd, initErrors, failed, torn, boots>>

\* Mutant: only the first error is received.
AppendErrorOnce(s) ==
    /\ sysd = "init" /\ collector[s] = "append"
    /\ errs' = [errs EXCEPT ![s] = @ + 1]
    /\ collector' = [collector EXCEPT ![s] = "gone"]
    /\ UNCHANGED <<dir, task, init, sysd, initErrors, failed, torn, boots>>

AppendError(s) ==
    /\ sysd = "init" /\ collector[s] = "append"
    /\ errs' = [errs EXCEPT ![s] = @ + 1]
    /\ collector' = [collector EXCEPT ![s] = "receive"]
    /\ UNCHANGED <<dir, task, init, sysd, initErrors, failed, torn, boots>>

\* Mutant: the tasks are not waited for.
WaitForNobody(s) ==
    /\ sysd = "init" /\ init[s] = "wait"
    /\ init' = [init EXCEPT ![s] = "check"]
    /\ UNCHANGED <<dir, task, collector, errs, sysd, initErrors, failed, torn, boots>>

WaitForTasks(s) ==
    /\ sysd = "init" /\ init[s] = "wait"
    /\ \A t \in TasksOf(s) : task[t].pc = "done"
    /\ init' = [init EXCEPT ![s] = "check"]
    /\ UNCHANGED <<dir, task, collector, errs, sysd, initErrors, failed, torn, boots>>

\* Mutant: off by one.
HasManyErrors(s) == errs[s] > 1

HasErrors(s) == errs[s] > 0

\* Nothing makes Init wait for the append of the last error.
CheckErrors(s) ==
    /\ sysd = "init" /\ init[s] = "check"
    /\ initErrors' = (initErrors \/ HasErrors(s))
    /\ init' = [init EXCEPT ![s] = "returned"]
    /\ UNCHANGED <<dir, task, collector, errs, sysd, failed, torn, boots>>

-----------------------------------------------------------------------------
(* sysd.New: wait for all stacks, then exit or start them.                  *)

Exit ==
    /\ sysd = "init" /\ (\A s \in Stacks : init[s] = "returned") /\ initErrors
    /\ sysd' = "off"
    /\ UNCHANGED <<dir, task, collector, errs, init, initErrors, failed, torn, boots>>

Start ==
    /\ sysd = "init" /\ (\A s \in Stacks : init[s] = "returned") /\ ~initErrors
    /\ sysd' = "started"
    /\ UNCHANGED <<dir, task, collector, errs, init, initErrors, failed, torn, boots>>

\* The machine goes down, and a git with it, or paasbox is stopped.
Down ==
    /\ sysd # "off"
    /\ sysd' = "off"
    /\ torn' = torn \cup {d \in Dirs : dir[d] = "partial"}
    /\ UNCHANGED <<dir, task, collector, errs, init, initErrors, failed, boots>>

-----------------------------------------------------------------------------
TaskStep(t) ==
    InitDone(t) \/ Stat(t) \/ Clone(t) \/ CloneEnds(t) \/ CloneFails(t) \/ SendError(t)

StackStep(s) == AppendError(s) \/ WaitForTasks(s) \/ CheckErrors(s)

Next ==
    \/ Boot \/ (\E t \in Tasks : TaskStep(t)) \/ (\E s \in Stacks : StackStep(s))
    \/ Exit \/ Start \/ Down

Spec == Init /\ [][Next]_vars

\* Goroutines are scheduled, and git ends.
Fairness ==
    /\ \A t \in Tasks : WF_vars(TaskStep(t))
    /\ \A s \in Stacks : WF_vars(StackStep(s))
    /\ WF_vars(Exit) /\ WF_vars(Start)

FairSpec == Spec /\ Fairness

-----------------------------------------------------------------------------
(* Properties.                                                              *)

\* Every variable keeps its type.
TypeOK ==
    /\ dir \in [Dirs -> {"absent", "file", "partial", "cloned"}]
    /\ \A t \in Tasks : /\ task[t].pc \in {"idle", "stat", "clone", "cloning", "send", "done"}
                        /\ task[t].k \in 1..Len(Clones[t]) + 1
    /\ collector \in [Stacks -> {"receive", "append"}]
    /\ \A s \in Stacks : errs[s] \in 0..Cardinality(TasksOf(s))
    /\ init \in [Stacks -> {"wait", "check", "returned"}]
    /\ sysd \in {"off", "init", "started"} /\ initErrors \in BOOLEAN
    /\ failed \subseteq Tasks /\ torn \subseteq Dirs /\ boots \in 0..MaxBoots

\* Two failures in a stack are never both overlooked: the collector appends the one
\* before it receives the other.
TwoFailuresAreSeen ==
    sysd = "started" => \A s \in Stacks : Cardinality(failed \cap TasksOf(s)) <= 1

\* Whoever finds a directory that another task is still cloning goes on; but nothing
\* is started before that clone is complete, unless its failure was overlooked, or it was
\* left half done, which the next boot cannot see.
DirsAreCloned ==
    sysd = "started" => \A t \in Tasks \ failed : \A k \in DOMAIN Clones[t] :
        dir[Clones[t][k]] # "cloned" =>
            Clones[t][k] \in torn \cup UNION {ToSet(Clones[u]) : u \in failed}

\* paasbox gets through its initialisation, whatever fails: no goroutine waits for
\* ever to hand over its error.
InitEnds == sysd = "init" ~> sysd # "init"
=============================================================================
