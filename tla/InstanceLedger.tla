---------------------------- MODULE InstanceLedger ----------------------------
(***************************************************************************)
(* What a task promises of its instances, without the goroutines, the mutex *)
(* and the requests by which it keeps the promise: an instance is created   *)
(* under a number above all earlier ones, launched at most once, and not    *)
(* forgotten while its process lives, unless it was given up for it could   *)
(* not be ended, or waited for, or paasbox itself restarts. Then every      *)
(* instance is forgotten, the processes that live can be adopted, and no    *)
(* number is given out a second time.                                       *)
(***************************************************************************)
EXTENDS Integers, FiniteSets

CONSTANTS
    Numbers,    \* of instances
    Target      \* how many instances are to run

VARIABLES
    last,       \* the highest number given out
    created,    \* tracked instances that this paasbox created
    adopted,    \* those that it found running
    process,    \* per instance: "none", "alive" or "dead"
    givenUp     \* instances that count as ended while their process lives

ledger == <<last, created, adopted, process, givenUp>>

Init ==
    /\ last = 0 /\ created = {} /\ adopted = {} /\ givenUp = {}
    /\ process = [i \in Numbers |-> "none"]

Create(i) ==
    /\ i > last /\ process[i] = "none"
    /\ Cardinality(created \cup {i}) <= Target
    /\ last' = i /\ created' = created \cup {i}
    /\ UNCHANGED <<adopted, process, givenUp>>

Launch(i) ==
    /\ i \in created /\ process[i] = "none"
    /\ process' = [process EXCEPT ![i] = "alive"]
    /\ UNCHANGED <<last, created, adopted, givenUp>>

Exit(i) ==
    /\ process[i] = "alive"
    /\ process' = [process EXCEPT ![i] = "dead"]
    /\ UNCHANGED <<last, created, adopted, givenUp>>

GiveUp(i) ==
    /\ process[i] = "alive" /\ i \in created \cup adopted \cup givenUp
    /\ givenUp' = givenUp \cup {i}
    /\ UNCHANGED <<last, created, adopted, process>>

Forget(i) ==
    /\ process[i] = "dead" \/ i \in givenUp
    /\ created' = created \ {i} /\ adopted' = adopted \ {i}
    /\ UNCHANGED <<last, process, givenUp>>

\* A restart of paasbox may lose a number that was not used yet.
Restart ==
    /\ last' \in {last, last + 1}
    /\ created' = {} /\ adopted' = {} /\ givenUp' = {}
    /\ UNCHANGED process

Adopt(i) ==
    /\ process[i] = "alive" /\ i \notin created
    /\ adopted' = adopted \cup {i}
    /\ UNCHANGED <<last, created, process, givenUp>>

Next ==
    \/ \E i \in Numbers : Create(i) \/ Launch(i) \/ Exit(i) \/ GiveUp(i) \/ Forget(i) \/ Adopt(i)
    \/ Restart

Spec == Init /\ [][Next]_ledger
===============================================================================
