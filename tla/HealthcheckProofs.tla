-------------------------- MODULE HealthcheckProofs --------------------------
(***************************************************************************)
(* For any instances, checks and thresholds: an instance is reaped, and put *)
(* back into the load balancer, only when the probes since justify it.      *)
(***************************************************************************)
EXTENDS Healthcheck, TLAPS

\* The score of a check lies between what has failed and what has passed. It is
\* never positive while the instance counts as healthy, so that turning
\* unhealthy cannot bring passes of an earlier time along.
ScoreIsEarned(h, i) ==
    /\ failed[h][i] >= ReapThreshold[h] \/ score[h][i] + failed[h][i] >= 0
    /\ i \in healthy[h] => score[h][i] <= 0
    /\ i \notin healthy[h] => passed[h][i] >= HealthyThreshold[h] \/ score[h][i] <= passed[h][i]

Scores == \A h \in Checks, i \in Inst : ScoreIsEarned(h, i)

\* What the goroutine that holds the mutex is about to do is deserved.
Deserved == ReapIsDeserved /\ ReturnIsDeserved

\* The inductive invariant of the healthchecks.
HInv == TypeOK /\ Scores /\ Deserved

-----------------------------------------------------------------------------
LEMMA InitHInv == Init => HInv
<1> SUFFICES ASSUME Init PROVE HInv
  OBVIOUS
<1> USE InstAssumption, ChecksAssumption, ThresholdsAssumption
<1>1. LifeTypeOK
  <2>1. forgot \in [Inst -> 0..NumChecks]
    BY DEF Init
  <2>2. crashed \in BOOLEAN
    BY DEF Init
  <2> QED
    BY <2>1, <2>2 DEF Init, LifeTypeOK
<1>2. TickerTypeOK
  BY DEF Init, TickerTypeOK, NoTick
<1>3. RunTypeOK
  BY DEF Init, RunTypeOK, NoRun
<1>4. TrackerTypeOK
  BY DEF Init, TrackerTypeOK
<1>5. Scores
  <2> SUFFICES ASSUME NEW h \in Checks, NEW i \in Inst PROVE ScoreIsEarned(h, i)
    BY DEF Scores
  <2>1. score[h][i] = 0 /\ failed[h][i] = 0 /\ i \in healthy[h]
    BY DEF Init
  <2> QED
    BY <2>1 DEF ScoreIsEarned
<1>6. Deserved
  BY DEF Init, Deserved, ReapIsDeserved, ReturnIsDeserved, NoRun
<1> QED
  BY <1>1, <1>2, <1>3, <1>4, <1>5, <1>6 DEF HInv, TypeOK

-----------------------------------------------------------------------------
(* What the steps that are not a goroutine's leave alone.                   *)

LEMMA LifeStep ==
  ASSUME HInv, NEW i \in Inst, Life(i) \/ Exit(i) \/ WaitFails(i)
  PROVE  HInv'
<1> USE InstAssumption, ChecksAssumption
<1>1. LifeTypeOK'
  <2> USE DEF HInv, TypeOK, LifeTypeOK
  <2>1. CASE Create(i) BY <2>1 DEF Create
  <2>2. CASE Launch(i) BY <2>2 DEF Launch
  <2>3. CASE List(i) BY <2>3 DEF List
  <2>4. CASE Done(i) \/ WaitFails(i) BY <2>4 DEF Done, WaitFails, Finish
  <2>5. CASE Untrack(i) BY <2>5 DEF Untrack
  <2>6. CASE Forget(i) BY <2>6 DEF Forget
  <2>7. CASE Unlist(i) BY <2>7 DEF Unlist
  <2>8. CASE Exit(i) BY <2>8 DEF Exit
  <2> QED
    BY <2>1, <2>2, <2>3, <2>4, <2>5, <2>6, <2>7, <2>8 DEF Life
<1>2. UNCHANGED <<tick, queue, run, score, healthy, history>>
  BY DEF Life, Create, Launch, List, Done, WaitFails, Finish, Untrack, Forget, Unlist, Exit, tracker
<1>3. tracked' \in [Checks -> SUBSET Inst]
  <2>1. tracked \in [Checks -> SUBSET Inst]
    BY DEF HInv, TypeOK, TrackerTypeOK
  <2>2. CASE Forget(i)
    BY <2>1, <2>2 DEF Forget
  <2>3. CASE ~Forget(i)
    BY <2>1, <2>3 DEF Life, Create, Launch, List, Done, WaitFails, Finish, Untrack, Unlist, Exit, tracker
  <2> QED
    BY <2>2, <2>3
<1>4. TickerTypeOK' /\ RunTypeOK' /\ TrackerTypeOK'
  BY <1>2, <1>3 DEF HInv, TypeOK, TickerTypeOK, RunTypeOK, TrackerTypeOK, history
<1>5. Scores' /\ Deserved'
  BY <1>2 DEF HInv, Scores, ScoreIsEarned, Deserved, ReapIsDeserved, ReturnIsDeserved, history
<1> QED
  BY <1>1, <1>4, <1>5 DEF HInv, TypeOK

\* The ticker starts the score of an instance it did not know from zero.
LEMMA TickerStep ==
  ASSUME HInv, NEW h \in Checks, Ticker(h)
  PROVE  HInv'
<1> USE InstAssumption, ChecksAssumption, ThresholdsAssumption
<1> DEFINE i == tick[h].hand
<1>1. LifeTypeOK'
  BY DEF HInv, TypeOK, LifeTypeOK, Ticker, Tick, NextInstance, StartGoroutine, task
<1>2. TickerTypeOK'
  <2> USE DEF HInv, TypeOK, LifeTypeOK, TickerTypeOK
  <2>1. CASE Tick(h) BY <2>1 DEF Tick, NoTick
  <2>2. CASE NextInstance(h) BY <2>2 DEF NextInstance
  <2>3. CASE StartGoroutine(h) BY <2>3 DEF StartGoroutine
  <2> QED
    BY <2>1, <2>2, <2>3 DEF Ticker
<1>3. run' = run
  BY DEF Ticker, Tick, NextInstance, StartGoroutine
<1>4. RunTypeOK'
  BY <1>3 DEF HInv, TypeOK, RunTypeOK
<1>5. CASE UNCHANGED <<tracker, history>>
  <2>1. TrackerTypeOK' /\ Scores' /\ Deserved'
    BY <1>3, <1>5 DEF HInv, TypeOK, TrackerTypeOK, Scores, ScoreIsEarned, Deserved, ReapIsDeserved,
                      ReturnIsDeserved, tracker, history
  <2> QED
    BY <1>1, <1>2, <1>4, <2>1 DEF HInv, TypeOK
<1>6. CASE ~UNCHANGED <<tracker, history>>
  <2>1. /\ i \in Inst /\ run[h] = NoRun
        /\ tracked' = [tracked EXCEPT ![h] = @ \cup {i}]
        /\ score' = [score EXCEPT ![h][i] = 0]
        /\ healthy' = [healthy EXCEPT ![h] = @ \cup {i}]
        /\ failed' = [failed EXCEPT ![h][i] = 0]
        /\ passed' = [passed EXCEPT ![h][i] = 0]
    BY <1>6 DEF HInv, TypeOK, TickerTypeOK, Ticker, Tick, NextInstance, StartGoroutine
  <2>2. TrackerTypeOK'
    BY <2>1 DEF HInv, TypeOK, TrackerTypeOK
  <2>3. Scores'
    BY <2>1 DEF HInv, TypeOK, TrackerTypeOK, Scores, ScoreIsEarned
  <2>4. \A g \in Checks : run[g].pc \in {"reap", "others"} => g # h
    BY <2>1 DEF NoRun
  <2>5. Deserved'
    BY <1>3, <2>1, <2>4 DEF HInv, TypeOK, TrackerTypeOK, Deserved, ReapIsDeserved, ReturnIsDeserved
  <2> QED
    BY <1>1, <1>2, <1>4, <2>2, <2>3, <2>5 DEF HInv, TypeOK
<1> QED
  BY <1>5, <1>6

-----------------------------------------------------------------------------
(* The goroutines.                                                          *)

LEMMA LockStep ==
  ASSUME HInv, NEW h \in Checks, Lock(h)
  PROVE  HInv'
<1> USE InstAssumption, ChecksAssumption
<1> PICK i \in Inst :
      /\ queue[h][i] > 0
      /\ queue' = [queue EXCEPT ![h][i] = @ - 1]
      /\ run' = [run EXCEPT ![h] = [pc |-> IF i \in tracked[h] THEN "probe" ELSE "nil",
                                    inst |-> i, next |-> 0]]
  BY DEF Lock, Waiting
<1> UNCHANGED <<task, listed, tick, tracker, history, crashed>>
  BY DEF Lock
<1>1. LifeTypeOK' /\ TickerTypeOK' /\ TrackerTypeOK'
  BY DEF HInv, TypeOK, LifeTypeOK, TickerTypeOK, TrackerTypeOK, task, tracker, history
<1>2. RunTypeOK'
  BY DEF HInv, TypeOK, RunTypeOK
<1>3. Scores'
  BY DEF HInv, Scores, ScoreIsEarned, tracker, history
<1>4. Deserved'
  BY DEF HInv, TypeOK, RunTypeOK, Deserved, ReapIsDeserved, ReturnIsDeserved, history
<1> QED
  BY <1>1, <1>2, <1>3, <1>4 DEF HInv, TypeOK

\* One probe: the score moves by one, and whatever has its threshold reached
\* has the failures or the passes to show for it.
LEMMA ProbeStep ==
  ASSUME HInv, NEW h \in Checks, Probe(h)
  PROVE  HInv'
<1> USE InstAssumption, ChecksAssumption, ThresholdsAssumption
<1> PICK i \in Inst : i = run[h].inst
  BY DEF Probe, HInv, TypeOK, RunTypeOK
<1>1. i \in Inst /\ h \in DOMAIN run
  BY DEF HInv, TypeOK, RunTypeOK
<1> PICK ok \in BOOLEAN : ProbeWith(h, i, ok, NewScore(score[h][i], i \in healthy[h], ok))
  BY DEF Probe, Answers
<1> DEFINE s == NewScore(score[h][i], i \in healthy[h], ok)
<1>s. ProbeWith(h, i, ok, s)
  OBVIOUS
<1> UNCHANGED <<task, listed, tick, queue, crashed>>
  BY DEF Probe
<1>2. LifeTypeOK' /\ TickerTypeOK'
  BY DEF HInv, TypeOK, LifeTypeOK, TickerTypeOK, task
<1>3. /\ score[h][i] \in Int /\ failed[h][i] \in Nat /\ passed[h][i] \in Nat
      /\ ScoreIsEarned(h, i)
  BY <1>1 DEF HInv, TypeOK, TrackerTypeOK, Scores
<1>4. s \in Int
  BY <1>3 DEF NewScore
<1>5. run'[h].pc \in {"free", "remove", "reap", "others"} /\ RunTypeOK'
  <2>1. \/ run' = [run EXCEPT ![h].pc = "remove"]
        \/ run' = [run EXCEPT ![h].pc = "reap"]
        \/ run' = [run EXCEPT ![h].pc = "others", ![h].next = 1]
        \/ run' = [run EXCEPT ![h] = NoRun]
    BY DEF ProbeWith
  <2> QED
    BY <2>1, <1>1 DEF HInv, TypeOK, RunTypeOK, NoRun
<1> DEFINE f == IF ~ok THEN (IF failed[h][i] < ReapThreshold[h] THEN failed[h][i] + 1 ELSE failed[h][i])
                ELSE IF i \in healthy[h] THEN failed[h][i] ELSE 0
           p == IF i \in healthy[h] THEN 0
                ELSE IF ok /\ passed[h][i] < HealthyThreshold[h] THEN passed[h][i] + 1 ELSE passed[h][i]
<1>f. f \in Nat /\ failed' = [failed EXCEPT ![h][i] = f]
  BY <1>3 DEF ProbeWith, Counted
<1>p. p \in Nat /\ passed' = [passed EXCEPT ![h][i] = p]
  BY <1>3 DEF ProbeWith, Counted
<1>6. /\ \E x \in Int : score' = [score EXCEPT ![h][i] = x]
      /\ \E S \in SUBSET Inst : tracked' = [tracked EXCEPT ![h] = S]
      /\ \E S \in SUBSET Inst : healthy' = [healthy EXCEPT ![h] = S]
      /\ \E x \in Nat : failed' = [failed EXCEPT ![h][i] = x]
      /\ \E x \in Nat : passed' = [passed EXCEPT ![h][i] = x]
  <2>1. tracked[h] \in SUBSET Inst /\ healthy[h] \in SUBSET Inst
    BY DEF HInv, TypeOK, TrackerTypeOK
  <2>2. tracked = [tracked EXCEPT ![h] = tracked[h]] /\ healthy = [healthy EXCEPT ![h] = healthy[h]]
    BY DEF HInv, TypeOK, TrackerTypeOK
  <2> HIDE DEF s
  <2>3. \E x \in Int : score' = [score EXCEPT ![h][i] = x]
    BY <1>4 DEF ProbeWith, s
  <2>4. \E S \in SUBSET Inst : tracked' = [tracked EXCEPT ![h] = S]
    BY <2>1, <2>2 DEF ProbeWith
  <2>5. \E S \in SUBSET Inst : healthy' = [healthy EXCEPT ![h] = S]
    BY <1>1, <2>1, <2>2 DEF ProbeWith
  <2>6. \E x \in Nat : failed' = [failed EXCEPT ![h][i] = x]
    BY <1>3, <1>f
  <2>7. \E x \in Nat : passed' = [passed EXCEPT ![h][i] = x]
    BY <1>3, <1>p
  <2> QED
    BY <2>3, <2>4, <2>5, <2>6, <2>7
<1>7. TrackerTypeOK'
  BY <1>1, <1>6 DEF HInv, TypeOK, TrackerTypeOK
\* The numbers after the probe, and whether they keep the bounds.
<1>8. /\ failed'[h][i] = f /\ passed'[h][i] = p
      /\ s = NewScore(score[h][i], i \in healthy[h], ok)
  BY <1>1, <1>f, <1>p DEF HInv, TypeOK, TrackerTypeOK
<1>9. /\ f >= ReapThreshold[h] \/ s + f >= 0
      /\ i \in healthy[h] => s <= 0 /\ p = 0
      /\ i \notin healthy[h] => p >= HealthyThreshold[h] \/ s <= p
  BY <1>3 DEF ScoreIsEarned, NewScore
<1> HIDE DEF s, f, p
<1>10. ScoreIsEarned(h, i)'
  <2>1. CASE TurnsUnhealthy(h, i, s)
    <3>1. score'[h][i] = s /\ i \notin healthy'[h] /\ i \in healthy[h]
      BY <1>s, <1>1, <2>1 DEF ProbeWith, TurnsUnhealthy, HInv, TypeOK, TrackerTypeOK
    <3> QED
      BY <1>4, <1>8, <1>9, <1>f, <1>p, <3>1 DEF ScoreIsEarned
  <2>2. CASE ~TurnsUnhealthy(h, i, s) /\ ~Reaps(h, s) /\ Recovers(h, s)
    <3>1. score'[h][i] = 0 /\ i \in healthy'[h]
      BY <1>s, <1>1, <2>2 DEF ProbeWith, HInv, TypeOK, TrackerTypeOK
    <3> QED
      BY <1>8, <1>f, <3>1 DEF ScoreIsEarned
  <2>3. CASE ~TurnsUnhealthy(h, i, s) /\ (Reaps(h, s) \/ ~Recovers(h, s))
    <3>1. score'[h][i] = s /\ healthy' = healthy
      BY <1>s, <1>1, <2>3 DEF ProbeWith, HInv, TypeOK, TrackerTypeOK
    <3> QED
      BY <1>4, <1>8, <1>9, <1>f, <1>p, <3>1 DEF ScoreIsEarned
  <2> QED
    BY <2>1, <2>2, <2>3
<1>11. Scores'
  <2> SUFFICES ASSUME NEW g \in Checks, NEW j \in Inst PROVE ScoreIsEarned(g, j)'
    BY DEF Scores
  <2>1. CASE g = h /\ j = i
    BY <1>10, <2>1
  <2>2. CASE ~(g = h /\ j = i)
    <3>1. /\ score'[g][j] = score[g][j] /\ failed'[g][j] = failed[g][j]
          /\ passed'[g][j] = passed[g][j]
      BY <1>1, <1>6, <2>2 DEF HInv, TypeOK, TrackerTypeOK
    <3>2. j \in healthy'[g] <=> j \in healthy[g]
      BY <1>s, <1>1, <2>2 DEF ProbeWith, HInv, TypeOK, TrackerTypeOK
    <3> QED
      BY <3>1, <3>2 DEF HInv, Scores, ScoreIsEarned
  <2> QED
    BY <2>1, <2>2
<1>12. ASSUME NEW g \in Checks, run'[g].pc \in {"reap", "others"}
       PROVE  /\ run'[g].pc = "reap" => failed'[g][run'[g].inst] >= ReapThreshold[g]
              /\ run'[g].pc = "others" => passed'[g][run'[g].inst] >= HealthyThreshold[g]
  <2>1. CASE g # h
    <3>1. run'[g] = run[g] /\ failed'[g] = failed[g] /\ passed'[g] = passed[g]
      BY <1>f, <1>p, <2>1 DEF ProbeWith, HInv, TypeOK, RunTypeOK, TrackerTypeOK
    <3> QED
      BY <3>1 DEF HInv, Deserved, ReapIsDeserved, ReturnIsDeserved
  <2>2. CASE g = h
    <3>1. run'[h].inst = i
      BY <1>12, <2>2 DEF ProbeWith, HInv, TypeOK, RunTypeOK, NoRun
    <3>2. CASE run'[h].pc = "reap"
      <4>1. Reaps(h, s)
        BY <1>s, <1>1, <3>2 DEF ProbeWith, HInv, TypeOK, RunTypeOK, NoRun
      <4> QED
        BY <1>4, <1>8, <1>9, <1>f, <2>2, <3>1, <3>2, <4>1 DEF Reaps
    <3>3. CASE run'[h].pc = "others"
      <4>1. Recovers(h, s)
        BY <1>s, <1>1, <3>3 DEF ProbeWith, HInv, TypeOK, RunTypeOK, NoRun
      <4> QED
        BY <1>4, <1>8, <1>9, <1>p, <2>2, <3>1, <3>3, <4>1 DEF Recovers
    <3> QED
      BY <1>12, <2>2, <3>2, <3>3
  <2> QED
    BY <2>1, <2>2
<1>13. Deserved'
  BY <1>12 DEF Deserved, ReapIsDeserved, ReturnIsDeserved
<1> QED
  BY <1>2, <1>5, <1>7, <1>11, <1>13 DEF HInv, TypeOK

\* The steps of a goroutine after its probe touch no score; the only program
\* counters they leave behind are the one they found and "free".
LEMMA AfterProbeStep ==
  ASSUME HInv, NEW h \in Checks,
         RemoveFromLB(h) \/ Reap(h) \/ AskOther(h) \/ AddToLB(h) \/ ProbePanic(h) \/ AskOtherPanic(h)
  PROVE  HInv'
<1> USE InstAssumption, ChecksAssumption
<1>1. UNCHANGED <<tick, queue, tracker, history>>
  BY DEF RemoveFromLB, Reap, AskOther, AddToLB, ProbePanic, AskOtherPanic
<1>2. PICK i \in Inst \cup {None} : i = run[h].inst
  BY DEF HInv, TypeOK, RunTypeOK
<1>3. i \in Inst
  BY <1>2 DEF RemoveFromLB, Reap, AskOther, AddToLB, ProbePanic, AskOtherPanic, HInv, TypeOK, RunTypeOK
<1>4. LifeTypeOK'
  <2> USE DEF HInv, TypeOK, LifeTypeOK
  <2>1. CASE RemoveFromLB(h) BY <2>1 DEF RemoveFromLB, task
  <2>2. CASE Reap(h) BY <1>2, <1>3, <2>2 DEF Reap
  <2>3. CASE AskOther(h) BY <2>3 DEF AskOther, task
  <2>4. CASE AddToLB(h) BY <1>2, <1>3, <2>4 DEF AddToLB, task
  <2>5. CASE ProbePanic(h) \/ AskOtherPanic(h) BY <2>5 DEF ProbePanic, AskOtherPanic, task
  <2> QED
    BY <2>1, <2>2, <2>3, <2>4, <2>5
<1>5. \/ run' = run
      \/ run' = [run EXCEPT ![h] = NoRun]
      \/ run[h].pc = "others" /\ \E n \in 0..NumChecks + 1 : run' = [run EXCEPT ![h] = [run[h] EXCEPT !.next = n]]
  <2>1. CASE AskOther(h)
    <3>1. run[h].pc = "others" /\ run[h].next + 1 \in 0..NumChecks + 1
      BY <2>1 DEF AskOther, Checks
    <3>2. \/ run' = [run EXCEPT ![h] = NoRun]
          \/ run' = [run EXCEPT ![h] = [run[h] EXCEPT !.next = run[h].next + 1]]
      BY <2>1 DEF AskOther
    <3> QED
      BY <3>1, <3>2
  <2> QED
    BY <2>1 DEF RemoveFromLB, Reap, AddToLB, ProbePanic, AskOtherPanic
<1>6. RunTypeOK'
  BY <1>5 DEF HInv, TypeOK, RunTypeOK, NoRun
<1>7. \A g \in Checks : run'[g].pc \in {"reap", "others"} => run'[g].pc = run[g].pc /\ run'[g].inst = run[g].inst
  BY <1>5 DEF HInv, TypeOK, RunTypeOK, NoRun
<1>8. TickerTypeOK' /\ TrackerTypeOK' /\ Scores'
  BY <1>1 DEF HInv, TypeOK, TickerTypeOK, TrackerTypeOK, Scores, ScoreIsEarned, tracker, history
<1>9. Deserved'
  BY <1>1, <1>7 DEF HInv, Deserved, ReapIsDeserved, ReturnIsDeserved, history
<1> QED
  BY <1>4, <1>6, <1>8, <1>9 DEF HInv, TypeOK

LEMMA NextHInv == HInv /\ [Next]_vars => HInv'
<1> SUFFICES ASSUME HInv, [Next]_vars PROVE HInv'
  OBVIOUS
<1>1. ASSUME NEW i \in Inst, Life(i) \/ Exit(i) \/ WaitFails(i) PROVE HInv'
  BY <1>1, LifeStep
<1>2. ASSUME NEW h \in Checks, Ticker(h) PROVE HInv'
  BY <1>2, TickerStep
<1>3. ASSUME NEW h \in Checks, Lock(h) PROVE HInv'
  BY <1>3, LockStep
<1>4. ASSUME NEW h \in Checks, Work(h) PROVE HInv'
  BY <1>4, ProbeStep, AfterProbeStep DEF Work
<1>5. CASE UNCHANGED vars
  BY <1>5 DEF vars, task, tracker, history, HInv, TypeOK, LifeTypeOK, TickerTypeOK, RunTypeOK, TrackerTypeOK,
              Scores, ScoreIsEarned, Deserved, ReapIsDeserved, ReturnIsDeserved
<1> QED
  BY <1>1, <1>2, <1>3, <1>4, <1>5 DEF Next

-----------------------------------------------------------------------------
\* The inductive invariant holds for any number of instances and checks, any
\* thresholds, and any order of ticks, probes, exits and deletions.
THEOREM HealthInvariance == Spec => []HInv
  BY InitHInv, NextHInv, PTL DEF Spec

\* Every variable of the healthchecks keeps its type.
THEOREM HealthTypeCorrect == Spec => []TypeOK
<1>1. HInv => TypeOK
  BY DEF HInv
<1> QED
  BY <1>1, HealthInvariance, PTL

\* No check kills an instance before `reap_threshold' probes have failed.
THEOREM ReapIsDeservedHolds == Spec => []ReapIsDeserved
<1>1. HInv => ReapIsDeserved
  BY DEF HInv, Deserved
<1> QED
  BY <1>1, HealthInvariance, PTL

\* No check puts an instance back before `healthy_threshold' probes have passed.
THEOREM ReturnIsDeservedHolds == Spec => []ReturnIsDeserved
<1>1. HInv => ReturnIsDeserved
  BY DEF HInv, Deserved
<1> QED
  BY <1>1, HealthInvariance, PTL
=============================================================================
