------------------------ MODULE ProcessingQueueProofs ------------------------
(***************************************************************************)
(* Proofs about the processing queue for every number of jobs and workers, *)
(* every lease, back-off and attempt budget.                               *)
(***************************************************************************)
EXTENDS ProcessingQueue, TLAPS

(* The state left by a lease recovery is well typed, keeps rows that are not *)
(* RUNNING as they were, and leaves no RUNNING row without a lease.          *)
LEMMA RecoveryTyped ==
    ASSUME TypeOK, NEW skipped
    PROVE  /\ RecoveredStatus(skipped) \in [Jobs -> Statuses]
           /\ RecoveredLease(skipped) \in [Jobs -> {NoLease} \cup 0 .. Lease]
           /\ RecoveredDueIn(skipped) \in [Jobs -> 0 .. DelayCap]
<1> USE QueueAssumption DEF TypeOK
<1>1. RecoveredStatus(skipped) \in [Jobs -> Statuses]
  BY DEF RecoveredStatus, Statuses
<1>2. RecoveredLease(skipped) \in [Jobs -> {NoLease} \cup 0 .. Lease]
  BY DEF RecoveredLease
<1>3. RecoveredDueIn(skipped) \in [Jobs -> 0 .. DelayCap]
  BY DEF RecoveredDueIn
<1> QED BY <1>1, <1>2, <1>3

(* Every state variable keeps its type: main threads and heartbeats always   *)
(* refer to a job and an attempt number, a lease is null or at most Lease.    *)
THEOREM TypeCorrect == Spec => []TypeOK
<1>1. Init => TypeOK
  BY QueueAssumption DEF Init, TypeOK, Statuses, NoLease, Idle
<1>2. TypeOK /\ [Next]_vars => TypeOK'
  <2> SUFFICES ASSUME TypeOK, [Next]_vars PROVE TypeOK'
    OBVIOUS
  <2> USE QueueAssumption
  <2>1. ASSUME NEW j \in Jobs, Enqueue(j) PROVE TypeOK'
    BY <2>1 DEF TypeOK, Enqueue, Statuses
  <2>2. ASSUME NEW j \in Jobs, Reenqueue(j) PROVE TypeOK'
    BY <2>2 DEF TypeOK, Reenqueue, Statuses
  <2>3. ASSUME NEW j \in Jobs, Repair(j) PROVE TypeOK'
    BY <2>3 DEF TypeOK, Repair
  <2>4. ASSUME NEW w \in Workers, Claim(w) PROVE TypeOK'
    <3>1. PICK skipped \in SUBSET Lockable(w) : \E j \in Runnable(skipped) :
            /\ status' = [RecoveredStatus(skipped) EXCEPT ![j] = "RUNNING"]
            /\ attempts' = [attempts EXCEPT ![j] = @ + 1]
            /\ dueIn' = [RecoveredDueIn(skipped) EXCEPT ![j] = 0]
            /\ lease' = [RecoveredLease(skipped) EXCEPT ![j] = Lease]
            /\ main' = [main EXCEPT ![w] =
                         [pc |-> "run", job |-> j, attempt |-> attempts[j] + 1]]
      BY <2>4 DEF Claim, NextAttempt, ClaimLease
    <3>2. PICK j \in Jobs :
            /\ status' = [RecoveredStatus(skipped) EXCEPT ![j] = "RUNNING"]
            /\ attempts' = [attempts EXCEPT ![j] = @ + 1]
            /\ dueIn' = [RecoveredDueIn(skipped) EXCEPT ![j] = 0]
            /\ lease' = [RecoveredLease(skipped) EXCEPT ![j] = Lease]
            /\ main' = [main EXCEPT ![w] =
                         [pc |-> "run", job |-> j, attempt |-> attempts[j] + 1]]
      BY <3>1 DEF Runnable
    <3>3. /\ status' \in [Jobs -> Statuses]
          /\ lease' \in [Jobs -> {NoLease} \cup 0 .. Lease]
          /\ dueIn' \in [Jobs -> 0 .. DelayCap]
      BY <3>2, RecoveryTyped DEF Statuses
    <3>4. attempts' \in [Jobs -> Nat]
      BY <3>2 DEF TypeOK
    <3>5. main' \in [Workers -> {Idle} \cup
                      [pc : {"run"} \cup Marking, job : Jobs, attempt : Nat]]
      BY <3>2 DEF TypeOK
    <3> QED BY <2>4, <3>3, <3>4, <3>5 DEF TypeOK, Claim
  <2>5. ASSUME NEW w \in Workers, PollEmpty(w) PROVE TypeOK'
    BY <2>5, RecoveryTyped DEF TypeOK, PollEmpty
  <2>6. ASSUME NEW w \in Workers, CheckSucceeded(w) PROVE TypeOK'
    BY <2>6 DEF TypeOK, CheckSucceeded, rows, Marking, Idle
  <2>7. ASSUME NEW w \in Workers, CheckFailed(w) PROVE TypeOK'
    BY <2>7 DEF TypeOK, CheckFailed, rows, Marking, Idle
  <2>8. ASSUME NEW w \in Workers, WriteMark(w) PROVE TypeOK'
    BY <2>8 DEF TypeOK, WriteMark, MarkInFlight, Marking, Idle, Statuses,
                NoLease, RetryDelay
  <2>9. ASSUME NEW w \in Workers, CheckHeartbeat(w) PROVE TypeOK'
    BY <2>9 DEF TypeOK, CheckHeartbeat, rows, Idle
  <2>10. ASSUME NEW b \in beats, WriteHeartbeat(b) PROVE TypeOK'
    BY <2>10 DEF TypeOK, WriteHeartbeat
  <2>11. ASSUME NEW w \in Workers, LoseMark(w) PROVE TypeOK'
    BY <2>11 DEF TypeOK, LoseMark, rows
  <2>12. ASSUME NEW w \in Workers, Crash(w) PROVE TypeOK'
    BY <2>12 DEF TypeOK, Crash, rows
  <2>13. CASE Tick
    BY <2>13 DEF TypeOK, Tick, CountDown, NoLease
  <2>14. CASE UNCHANGED vars
    BY <2>14 DEF TypeOK, vars
  <2> QED
    BY <2>1, <2>2, <2>3, <2>4, <2>5, <2>6, <2>7, <2>8, <2>9, <2>10, <2>11,
       <2>12, <2>13, <2>14 DEF Next, Producer, Worker, Poll, EndPipeline
<1> QED BY <1>1, <1>2, PTL DEF Spec

-----------------------------------------------------------------------------
(* A claim, restated without its choice of rows: which job it takes and what *)
(* it does to that row and to the others.                                    *)
LEMMA ClaimEffect ==
    ASSUME TypeOK, NEW w \in Workers, Claim(w)
    PROVE  \E j \in Jobs :
             /\ main[w].pc = "idle"
             /\ attempts[j] < budget[j]
             /\ attempts' = [attempts EXCEPT ![j] = attempts[j] + 1]
             /\ main' = [main EXCEPT ![w] =
                          [pc |-> "run", job |-> j, attempt |-> attempts[j] + 1]]
             /\ lease'[j] = Lease /\ status'[j] = "RUNNING"
             /\ \A i \in Jobs \ {j} :
                  \/ status'[i] = status[i] /\ lease'[i] = lease[i]
                  \/ /\ status[i] = "RUNNING" /\ lease[i] = 0
                     /\ status'[i] \in {"FAILED", "RETRY"}
             /\ status[j] = "COMPLETED" => FALSE
             /\ status[j] = "RUNNING" => lease[j] = 0
<1>0. PICK skipped \in SUBSET Lockable(w) : \E j \in Runnable(skipped) :
        /\ status' = [RecoveredStatus(skipped) EXCEPT ![j] = "RUNNING"]
        /\ attempts' = [attempts EXCEPT ![j] = @ + 1]
        /\ lease' = [RecoveredLease(skipped) EXCEPT ![j] = Lease]
        /\ main' = [main EXCEPT ![w] =
                     [pc |-> "run", job |-> j, attempt |-> attempts[j] + 1]]
  BY DEF Claim, NextAttempt, ClaimLease
<1>1. PICK j \in Runnable(skipped) :
        /\ status' = [RecoveredStatus(skipped) EXCEPT ![j] = "RUNNING"]
        /\ attempts' = [attempts EXCEPT ![j] = @ + 1]
        /\ lease' = [RecoveredLease(skipped) EXCEPT ![j] = Lease]
        /\ main' = [main EXCEPT ![w] =
                     [pc |-> "run", job |-> j, attempt |-> attempts[j] + 1]]
  BY <1>0
<1>2. j \in Jobs /\ attempts[j] < budget[j]
  BY DEF Runnable
<1>3. main[w].pc = "idle"
  BY DEF Claim, NextAttempt, ClaimLease
<1>4. lease'[j] = Lease /\ status'[j] = "RUNNING"
  BY <1>1, <1>2 DEF RecoveredStatus, RecoveredLease
<1>5. ASSUME NEW i \in Jobs \ {j}
      PROVE  \/ status'[i] = status[i] /\ lease'[i] = lease[i]
             \/ /\ status[i] = "RUNNING" /\ lease[i] = 0
                /\ status'[i] \in {"FAILED", "RETRY"}
  BY <1>1, <1>2 DEF RecoveredStatus, RecoveredLease, Expired
<1>6. RecoveredStatus(skipped)[j] \in {"PENDING", "RETRY"}
  BY DEF Runnable
<1>7. /\ status[j] = "COMPLETED" => FALSE
      /\ status[j] = "RUNNING" => lease[j] = 0
  BY <1>2, <1>6 DEF RecoveredStatus, Expired
<1> QED BY <1>1, <1>2, <1>3, <1>4, <1>5, <1>7

(* What an empty poll does to any row: nothing, or the recovery of its lease. *)
LEMMA PollEmptyEffect ==
    ASSUME TypeOK, NEW w \in Workers, PollEmpty(w), NEW i \in Jobs
    PROVE  \/ status'[i] = status[i] /\ lease'[i] = lease[i]
           \/ /\ status[i] = "RUNNING" /\ lease[i] = 0
              /\ status'[i] \in {"FAILED", "RETRY"}
BY DEF PollEmpty, RecoveredStatus, RecoveredLease, Expired

(* Under either isolation a RUNNING row always has a lease, so that no crash *)
(* and no stale write leaves a job RUNNING with nobody able to recover it.   *)
THEOREM RunningRecoverable == Spec => []RunningIsRecoverable
<1>1. Init => RunningIsRecoverable
  BY DEF Init, RunningIsRecoverable
<1>2. TypeOK /\ RunningIsRecoverable /\ [Next]_vars => RunningIsRecoverable'
  <2> SUFFICES ASSUME TypeOK, RunningIsRecoverable, [Next]_vars,
                      NEW i \in Jobs, status'[i] = "RUNNING"
               PROVE  lease'[i] # NoLease
    BY DEF RunningIsRecoverable
  <2> USE QueueAssumption DEF RunningIsRecoverable, TypeOK
  <2>1. ASSUME NEW j \in Jobs, Enqueue(j) PROVE lease'[i] # NoLease
    BY <2>1 DEF Enqueue
  <2>2. ASSUME NEW j \in Jobs, Reenqueue(j) PROVE lease'[i] # NoLease
    BY <2>2 DEF Reenqueue
  <2>3. ASSUME NEW w \in Workers, Claim(w) PROVE lease'[i] # NoLease
    BY <2>3, ClaimEffect DEF NoLease
  <2>4. ASSUME NEW w \in Workers, PollEmpty(w) PROVE lease'[i] # NoLease
    BY <2>4, PollEmptyEffect
  <2>5. ASSUME NEW w \in Workers, WriteMark(w) PROVE lease'[i] # NoLease
    BY <2>5 DEF WriteMark, MarkInFlight, Marking, Idle
  <2>6. ASSUME NEW b \in beats, WriteHeartbeat(b) PROVE lease'[i] # NoLease
    BY <2>6 DEF WriteHeartbeat, NoLease
  <2>7. CASE Tick
    BY <2>7 DEF Tick, CountDown, NoLease
  <2>8. CASE UNCHANGED <<status, lease>>
    BY <2>8
  <2> QED
    BY <2>1, <2>2, <2>3, <2>4, <2>5, <2>6, <2>7, <2>8
    DEF Next, Producer, Worker, Poll, EndPipeline, Repair, CheckSucceeded,
        CheckFailed, CheckHeartbeat, LoseMark, Crash, rows, vars
<1> QED BY <1>1, <1>2, TypeCorrect, PTL DEF Spec

-----------------------------------------------------------------------------
(* Claims hand out each attempt number once; nothing else makes one.         *)

(* A step other than a claim leaves every worker on the attempt it had or    *)
(* makes it idle, and changes no attempt counter of an existing row.         *)
LEMMA MainKept ==
    ASSUME TypeOK, NEW w \in Workers, NEW v \in Workers,
           \/ CheckSucceeded(v) \/ CheckFailed(v) \/ WriteMark(v)
           \/ LoseMark(v) \/ Crash(v)
    PROVE  /\ UNCHANGED <<attempts, budget>>
           /\ \/ main'[w] = Idle
              \/ /\ main[w] # Idle
                 /\ main'[w].job = main[w].job
                 /\ main'[w].attempt = main[w].attempt
<1> USE DEF TypeOK
<1>1. CASE CheckSucceeded(v)
  BY <1>1 DEF CheckSucceeded, rows, Idle
<1>2. CASE CheckFailed(v)
  BY <1>2 DEF CheckFailed, rows, Idle
<1>3. CASE WriteMark(v)
  BY <1>3 DEF WriteMark, Idle
<1>4. CASE LoseMark(v)
  BY <1>4 DEF LoseMark, rows, Idle
<1>5. CASE Crash(v)
  BY <1>5 DEF Crash, rows, Idle
<1> QED BY <1>1, <1>2, <1>3, <1>4, <1>5

(* No row is claimed more often than its budget allows and no two workers    *)
(* ever hold the same attempt, whatever is stale, skipped or crashed.        *)
THEOREM AttemptTokens == Spec => [](AttemptsWithinBudget /\ OneWorkerPerAttempt)
<1> DEFINE Inv == AttemptsWithinBudget /\ OneWorkerPerAttempt
<1>1. Init => Inv
  BY QueueAssumption DEF Init, AttemptsWithinBudget, OneWorkerPerAttempt
<1>2. TypeOK /\ TypeOK' /\ Inv /\ [Next]_vars => Inv'
  <2> SUFFICES ASSUME TypeOK, TypeOK', Inv, [Next]_vars PROVE Inv'
    OBVIOUS
  <2> USE DEF AttemptsWithinBudget, OneWorkerPerAttempt
  <2>1. ASSUME NEW j \in Jobs, Enqueue(j) PROVE Inv'
    BY <2>1 DEF Enqueue
  <2>2. ASSUME NEW j \in Jobs, Reenqueue(j) PROVE Inv'
    BY <2>2 DEF Reenqueue
  <2>3. ASSUME NEW j \in Jobs, Repair(j) PROVE Inv'
    BY <2>3 DEF Repair, TypeOK
  <2>4. ASSUME NEW w \in Workers, Claim(w) PROVE Inv'
    <3>1. PICK j \in Jobs :
            /\ attempts[j] < budget[j]
            /\ attempts' = [attempts EXCEPT ![j] = attempts[j] + 1]
            /\ main' = [main EXCEPT ![w] =
                         [pc |-> "run", job |-> j, attempt |-> attempts[j] + 1]]
      BY <2>4, ClaimEffect
    <3>2. UNCHANGED budget
      BY <2>4 DEF Claim, NextAttempt, ClaimLease
    <3>3. \A v \in Workers \ {w} : main'[v] = main[v]
      BY <3>1 DEF TypeOK
    <3>4. /\ main'[w].job = j /\ main'[w].attempt = attempts[j] + 1
          /\ attempts'[j] = attempts[j] + 1
          /\ \A i \in Jobs \ {j} : attempts'[i] = attempts[i]
      BY <3>1 DEF TypeOK
    <3>5. \A v \in Workers : main[v] # Idle => main[v].job \in Jobs /\ main[v].attempt \in Nat
      BY DEF TypeOK
    <3>6. AttemptsWithinBudget'
      BY <3>1, <3>2, <3>3, <3>4, <3>5 DEF TypeOK
    <3>7. \A v \in Workers \ {w} : main[v] # Idle =>
             <<main'[v].job, main'[v].attempt>> # <<main'[w].job, main'[w].attempt>>
      BY <3>3, <3>4, <3>5 DEF TypeOK
    <3>8. OneWorkerPerAttempt'
      BY <3>3, <3>7
    <3> QED BY <3>6, <3>8
  <2>5. ASSUME NEW v \in Workers,
               \/ CheckSucceeded(v) \/ CheckFailed(v) \/ WriteMark(v)
               \/ LoseMark(v) \/ Crash(v)
        PROVE  Inv'
    BY <2>5, MainKept
  <2>6. CASE UNCHANGED <<attempts, budget, main>>
    BY <2>6
  <2> QED
    BY <2>1, <2>2, <2>3, <2>4, <2>5, <2>6
    DEF Next, Producer, Worker, Poll, EndPipeline, PollEmpty, CheckHeartbeat,
        WriteHeartbeat, Tick, rows, vars
<1>3. QED BY <1>1, <1>2, TypeCorrect, PTL DEF Spec

-----------------------------------------------------------------------------
(* With serial transactions the attempt number fences stale workers.         *)

SerialInv == CheckStillHolds /\ CompletedByLatestAttempt

(* Under serial transactions the row a heartbeat or a mark was checked       *)
(* against is still the same when it is written, so a COMPLETED job is one    *)
(* whose latest attempt ran the pipeline to its end.                          *)
THEOREM Fencing ==
    ASSUME ReadCommitted = FALSE
    PROVE  Spec => [](CheckStillHolds /\ CompletedByLatestAttempt)
<1>1. Init => SerialInv
  BY DEF Init, SerialInv, CheckStillHolds, CompletedByLatestAttempt,
         MarkInFlight, Marking, Idle
<1>2. TypeOK /\ SerialInv /\ [Next]_vars => SerialInv'
  <2> SUFFICES ASSUME TypeOK, SerialInv, [Next]_vars PROVE SerialInv'
    OBVIOUS
  <2> USE DEF SerialInv, CheckStillHolds, CompletedByLatestAttempt,
              MarkInFlight, ActiveAttempt
  <2>0. MayBegin => beats = {} /\ \A w \in Workers : ~MarkInFlight(w)
    BY DEF MayBegin
  <2>1. ASSUME NEW j \in Jobs, Enqueue(j) PROVE SerialInv'
    BY <2>0, <2>1 DEF Enqueue, TypeOK
  <2>2. ASSUME NEW j \in Jobs, Reenqueue(j) PROVE SerialInv'
    BY <2>0, <2>2 DEF Reenqueue, TypeOK
  <2>3. ASSUME NEW j \in Jobs, Repair(j) PROVE SerialInv'
    BY <2>0, <2>3 DEF Repair
  <2>4. ASSUME NEW w \in Workers, Claim(w) PROVE SerialInv'
    <3>1. PICK j \in Jobs :
             /\ attempts' = [attempts EXCEPT ![j] = attempts[j] + 1]
             /\ main' = [main EXCEPT ![w] =
                          [pc |-> "run", job |-> j, attempt |-> attempts[j] + 1]]
             /\ status'[j] = "RUNNING"
             /\ \A i \in Jobs \ {j} :
                  status'[i] = status[i] \/ status'[i] \in {"FAILED", "RETRY"}
      BY <2>4, ClaimEffect
    <3>2. beats' = {} /\ \A v \in Workers : ~MarkInFlight(v)'
      BY <2>0, <2>4, <3>1 DEF Claim, TypeOK, Marking
    <3>3. CompletedByLatestAttempt'
      BY <2>4, <3>1 DEF Claim, TypeOK
    <3> QED BY <3>2, <3>3
  <2>5. ASSUME NEW w \in Workers, PollEmpty(w) PROVE SerialInv'
    <3>1. \A i \in Jobs : status'[i] = status[i] \/ status'[i] \in {"FAILED", "RETRY"}
      BY <2>5, PollEmptyEffect
    <3> QED BY <2>0, <2>5, <3>1 DEF PollEmpty
  <2>6. ASSUME NEW w \in Workers, CheckSucceeded(w) PROVE SerialInv'
    <3>1. \A v \in Workers : v # w => main'[v] = main[v]
      BY <2>6 DEF CheckSucceeded, TypeOK
    <3>2. \/ main'[w] = Idle
          \/ /\ main'[w].job = main[w].job /\ main'[w].attempt = main[w].attempt
             /\ ActiveAttempt(main[w].job, main[w].attempt)
      BY <2>6 DEF CheckSucceeded, TypeOK
    <3>3. ~MarkInFlight(w)' \/ ActiveAttempt(main[w].job, main[w].attempt)
      BY <3>2 DEF Idle, Marking
    <3> QED BY <2>0, <2>6, <3>1, <3>2, <3>3, SMTT(30) DEF CheckSucceeded, rows, Idle, Marking
  <2>7. ASSUME NEW w \in Workers, CheckFailed(w) PROVE SerialInv'
    <3>1. \A v \in Workers : v # w => main'[v] = main[v]
      BY <2>7 DEF CheckFailed, TypeOK
    <3>2. \/ main'[w] = Idle
          \/ /\ main'[w].job = main[w].job /\ main'[w].attempt = main[w].attempt
             /\ ActiveAttempt(main[w].job, main[w].attempt)
             /\ main'[w].pc # "complete"
      BY <2>7 DEF CheckFailed, TypeOK
    <3> QED BY <2>0, <2>7, <3>1, <3>2, SMTT(30) DEF CheckFailed, rows, Idle, Marking
  <2>8. ASSUME NEW w \in Workers, WriteMark(w) PROVE SerialInv'
    <3>1. main[w] # Idle /\ main[w].job \in Jobs
      BY <2>8 DEF WriteMark, TypeOK, Idle, Marking
    <3>2. \A v \in Workers : ~MarkInFlight(v)'
      BY <2>8 DEF WriteMark, TypeOK, Idle, Marking
    <3>3. beats' = {}
      BY <2>8 DEF WriteMark
    <3>4. CompletedByLatestAttempt'
      <4>1. \A i \in Jobs : i # main[w].job => status'[i] = status[i]
        BY <2>8, <3>1 DEF WriteMark, TypeOK
      <4>2. status'[main[w].job] = "COMPLETED" => main[w].pc = "complete"
        BY <2>8, <3>1 DEF WriteMark, TypeOK, Marking
      <4> QED BY <2>8, <4>1, <4>2 DEF WriteMark
    <3> QED BY <3>2, <3>3, <3>4
  <2>9. ASSUME NEW w \in Workers, CheckHeartbeat(w) PROVE SerialInv'
    BY <2>0, <2>9 DEF CheckHeartbeat, rows
  <2>10. ASSUME NEW b \in beats, WriteHeartbeat(b) PROVE SerialInv'
    BY <2>10 DEF WriteHeartbeat
  <2>11. ASSUME NEW w \in Workers, LoseMark(w) \/ Crash(w) PROVE SerialInv'
    <3>1. \A v \in Workers : main'[v] = Idle \/ main'[v] = main[v]
      BY <2>11 DEF LoseMark, Crash, TypeOK
    <3>2. beats' \subseteq beats /\ UNCHANGED <<status, attempts, finished>>
      BY <2>11 DEF LoseMark, Crash, rows
    <3> QED BY <3>1, <3>2 DEF Idle, Marking
  <2>12. CASE UNCHANGED <<status, attempts, main, beats, finished>>
    BY <2>12
  <2> QED
    BY <2>1, <2>2, <2>3, <2>4, <2>5, <2>6, <2>7, <2>8, <2>9, <2>10, <2>11, <2>12
    DEF Next, Producer, Worker, Poll, EndPipeline, Tick, vars
<1> QED BY <1>1, <1>2, TypeCorrect, PTL DEF Spec, SerialInv

(* Under serial transactions no late mark, recovery or re-enqueue moves a     *)
(* COMPLETED job, and a FAILED job only returns with attempts left.           *)
THEOREM TerminalStays ==
    ASSUME ReadCommitted = FALSE
    PROVE  Spec => TerminalIsFinal
<1> DEFINE Final ==
      \A j \in Jobs :
         /\ status[j] = "COMPLETED" => status'[j] = "COMPLETED"
         /\ status[j] = "FAILED" /\ status'[j] # "FAILED"
            => status'[j] = "RETRY" /\ attempts[j] < budget[j]
<1>1. TypeOK /\ CheckStillHolds /\ [Next]_vars => [Final]_vars
  <2> SUFFICES ASSUME TypeOK, CheckStillHolds, Next, NEW i \in Jobs,
                      status'[i] # status[i],
                      status[i] \in Terminal
               PROVE  /\ status[i] # "COMPLETED"
                      /\ status'[i] = "RETRY" /\ attempts[i] < budget[i]
    BY DEF Terminal
  <2> USE DEF Terminal
  <2>1. ASSUME NEW j \in Jobs, Enqueue(j) PROVE FALSE
    BY <2>1 DEF Enqueue, TypeOK
  <2>2. ASSUME NEW j \in Jobs, Reenqueue(j)
        PROVE  /\ status[i] # "COMPLETED"
               /\ status'[i] = "RETRY" /\ attempts[i] < budget[i]
    BY <2>2 DEF Reenqueue, TypeOK
  <2>3. ASSUME NEW w \in Workers, Claim(w) PROVE FALSE
    <3>1. PICK skipped \in SUBSET Lockable(w) : \E j \in Runnable(skipped) :
            status' = [RecoveredStatus(skipped) EXCEPT ![j] = "RUNNING"]
      BY <2>3 DEF Claim, NextAttempt, ClaimLease
    <3>2. PICK j \in Runnable(skipped) :
            status' = [RecoveredStatus(skipped) EXCEPT ![j] = "RUNNING"]
      BY <3>1
    <3>3. RecoveredStatus(skipped)[i] = status[i]
      BY DEF RecoveredStatus, Expired
    <3>4. i # j
      BY <3>3 DEF Runnable
    <3> QED BY <3>2, <3>3, <3>4 DEF RecoveredStatus
  <2>4. ASSUME NEW w \in Workers, PollEmpty(w) PROVE FALSE
    BY <2>4, PollEmptyEffect
  <2>5. ASSUME NEW w \in Workers, WriteMark(w) PROVE FALSE
    <3>1. status[main[w].job] = "RUNNING"
      BY <2>5 DEF WriteMark, CheckStillHolds, ActiveAttempt
    <3>2. i # main[w].job => status'[i] = status[i]
      BY <2>5 DEF WriteMark, TypeOK
    <3> QED BY <3>1, <3>2
  <2> QED
    BY <2>1, <2>2, <2>3, <2>4, <2>5
    DEF Next, Producer, Worker, Poll, EndPipeline, Repair, CheckSucceeded,
        CheckFailed, CheckHeartbeat, WriteHeartbeat, LoseMark, Crash, Tick, rows
<1> QED BY <1>1, TypeCorrect, Fencing, PTL DEF Spec, TerminalIsFinal

-----------------------------------------------------------------------------
(* The queue implements DurableJobs.                                         *)

(* What the refinement needs beyond SerialInv: only attempts that were       *)
(* claimed run and end, and a mark in flight decided on the budget the row   *)
(* still has.                                                                *)
RunsWereClaimed ==
    /\ \A w \in Workers : main[w] # Idle => main[w].attempt > 0
    /\ \A r \in finished : r[2] <= attempts[r[1]]

DecidedOnBudget ==
    \A w \in Workers :
        /\ main[w].pc = "retry" => attempts[main[w].job] < budget[main[w].job]
        /\ main[w].pc = "bury" => attempts[main[w].job] >= budget[main[w].job]

LEMMA RunsClaimed == Spec => []RunsWereClaimed
<1>1. Init => RunsWereClaimed
  BY DEF Init, RunsWereClaimed
<1>2. TypeOK /\ AttemptsWithinBudget /\ RunsWereClaimed /\ [Next]_vars => RunsWereClaimed'
  <2> SUFFICES ASSUME TypeOK, AttemptsWithinBudget, RunsWereClaimed, [Next]_vars
               PROVE  RunsWereClaimed'
    OBVIOUS
  <2> USE DEF RunsWereClaimed
  <2>1. ASSUME NEW w \in Workers, Claim(w) PROVE RunsWereClaimed'
    <3>1. PICK j \in Jobs :
            /\ attempts' = [attempts EXCEPT ![j] = attempts[j] + 1]
            /\ main' = [main EXCEPT ![w] =
                         [pc |-> "run", job |-> j, attempt |-> attempts[j] + 1]]
      BY <2>1, ClaimEffect
    <3>2. UNCHANGED finished
      BY <2>1 DEF Claim
    <3>3. \A v \in Workers : main'[v] # Idle => main'[v].attempt > 0
      BY <3>1 DEF TypeOK
    <3>4. \A r \in finished : r[2] <= attempts'[r[1]]
      BY <3>1 DEF TypeOK
    <3> QED BY <3>2, <3>3, <3>4
  <2>2. ASSUME NEW w \in Workers, CheckSucceeded(w) PROVE RunsWereClaimed'
    <3>1. main[w] # Idle
      BY <2>2 DEF CheckSucceeded, Idle
    <3>2. \A r \in finished' : r[2] <= attempts[r[1]]
      BY <2>2, <3>1 DEF CheckSucceeded, AttemptsWithinBudget
    <3>3. \A v \in Workers : main'[v] # Idle => main'[v].attempt > 0
      BY <2>2, MainKept
    <3> QED BY <2>2, <3>2, <3>3 DEF CheckSucceeded, rows
  <2>3. ASSUME NEW w \in Workers, CheckFailed(w) \/ WriteMark(w) \/ LoseMark(w) \/ Crash(w)
        PROVE  RunsWereClaimed'
    <3>1. UNCHANGED <<attempts, finished>>
      BY <2>3 DEF CheckFailed, WriteMark, LoseMark, Crash, rows
    <3>2. \A v \in Workers : main'[v] # Idle => main'[v].attempt > 0
      BY <2>3, MainKept
    <3> QED BY <3>1, <3>2
  <2>4. CASE UNCHANGED <<attempts, main, finished>>
    BY <2>4
  <2> QED
    BY <2>1, <2>2, <2>3, <2>4
    DEF Next, Producer, Enqueue, Reenqueue, Repair, Worker, Poll, EndPipeline, PollEmpty,
        CheckHeartbeat, WriteHeartbeat, Tick, rows, vars
<1>3. QED BY <1>1, <1>2, TypeCorrect, AttemptTokens, PTL DEF Spec

LEMMA MarksDecided ==
    ASSUME ReadCommitted = FALSE
    PROVE  Spec => []DecidedOnBudget
<1>1. Init => DecidedOnBudget
  BY DEF Init, DecidedOnBudget, Idle
<1>2. TypeOK /\ DecidedOnBudget /\ [Next]_vars => DecidedOnBudget'
  <2> SUFFICES ASSUME TypeOK, DecidedOnBudget, [Next]_vars PROVE DecidedOnBudget'
    OBVIOUS
  <2> USE DEF DecidedOnBudget
  <2>0. MayBegin => \A w \in Workers : main[w].pc \notin Marking
    BY DEF MayBegin, MarkInFlight
  <2>1. ASSUME NEW w \in Workers, Claim(w) PROVE DecidedOnBudget'
    <3>1. PICK j \in Jobs :
            main' = [main EXCEPT ![w] = [pc |-> "run", job |-> j, attempt |-> attempts[j] + 1]]
      BY <2>1, ClaimEffect
    <3>2. \A v \in Workers : main'[v].pc \notin Marking
      BY <2>0, <2>1, <3>1 DEF Claim, TypeOK, Marking
    <3> QED BY <3>2 DEF Marking
  <2>2. ASSUME NEW j \in Jobs, Repair(j) PROVE DecidedOnBudget'
    BY <2>0, <2>2 DEF Repair, Marking
  <2>3. ASSUME NEW w \in Workers, CheckSucceeded(w) PROVE DecidedOnBudget'
    BY <2>0, <2>3 DEF CheckSucceeded, TypeOK, rows, Idle, Marking
  <2>4. ASSUME NEW w \in Workers, CheckFailed(w) PROVE DecidedOnBudget'
    <3>1. main[w].job \in Jobs
      BY <2>4 DEF CheckFailed, TypeOK, Idle
    <3>2. \A v \in Workers \ {w} : main'[v] = main[v]
      BY <2>4 DEF CheckFailed, TypeOK
    <3>3. \/ main'[w] = Idle
          \/ /\ main'[w].job = main[w].job
             /\ main'[w].pc = IF Exhausted(main[w].job) THEN "bury" ELSE "retry"
      BY <2>4 DEF CheckFailed, TypeOK
    <3> QED BY <2>0, <2>4, <3>1, <3>2, <3>3 DEF CheckFailed, TypeOK, rows, Exhausted, Idle, Marking
  <2>5. ASSUME NEW w \in Workers, WriteMark(w) \/ LoseMark(w) \/ Crash(w)
        PROVE  DecidedOnBudget'
    <3>1. UNCHANGED <<attempts, budget>>
      BY <2>5 DEF WriteMark, LoseMark, Crash, rows
    <3>2. \A v \in Workers : main'[v] = Idle \/ main'[v] = main[v]
      BY <2>5 DEF WriteMark, LoseMark, Crash, TypeOK
    <3> QED BY <3>1, <3>2 DEF Idle
  <2>6. CASE UNCHANGED <<attempts, budget, main>>
    BY <2>6
  <2> QED
    BY <2>1, <2>2, <2>3, <2>4, <2>5, <2>6
    DEF Next, Producer, Enqueue, Reenqueue, Worker, Poll, EndPipeline, PollEmpty,
        CheckHeartbeat, WriteHeartbeat, Tick, rows, vars
<1>3. QED BY <1>1, <1>2, TypeCorrect, PTL DEF Spec

(* The abstract state of one job, in terms of its row.                       *)
LEMMA AbstractRow ==
    ASSUME NEW j \in Jobs
    PROVE  AbstractJob[j] = [phase |-> PhaseOf(status[j]), starts |-> attempts[j],
                             allowance |-> budget[j], ran |-> <<j, attempts[j]>> \in finished]
BY DEF AbstractJob

LEMMA FieldsOf ==
    ASSUME NEW p, NEW n, NEW a, NEW r, NEW s,
           s = [phase |-> p, starts |-> n, allowance |-> a, ran |-> r]
    PROVE  s.phase = p /\ s.starts = n /\ s.allowance = a /\ s.ran = r
OBVIOUS

LEMMA AbstractFields ==
    ASSUME NEW j \in Jobs
    PROVE  /\ AbstractJob[j].phase = PhaseOf(status[j])
           /\ AbstractJob[j].starts = attempts[j]
           /\ AbstractJob[j].allowance = budget[j]
           /\ AbstractJob[j].ran = (<<j, attempts[j]>> \in finished)
<1>1. PICK r : r = (<<j, attempts[j]>> \in finished)
  OBVIOUS
<1>2. AbstractJob[j] = [phase |-> PhaseOf(status[j]), starts |-> attempts[j],
                        allowance |-> budget[j], ran |-> r]
  BY <1>1, AbstractRow, Zenon
<1>3. /\ AbstractJob[j].phase = PhaseOf(status[j])
      /\ AbstractJob[j].starts = attempts[j]
      /\ AbstractJob[j].allowance = budget[j]
      /\ AbstractJob[j].ran = r
  BY <1>2, FieldsOf
<1> QED BY <1>1, <1>3, Zenon

LEMMA AbstractRowNext ==
    ASSUME NEW j \in Jobs
    PROVE  AbstractJob'[j] = [phase |-> PhaseOf(status'[j]), starts |-> attempts'[j],
                              allowance |-> budget'[j], ran |-> <<j, attempts'[j]>> \in finished']
BY DEF AbstractJob

LEMMA StartMove ==
    ASSUME NEW s, NEW t, NEW p \in {"waiting", "active"}, NEW n, NEW a, NEW r, n < a,
           s = [phase |-> p, starts |-> n, allowance |-> a, ran |-> r],
           t = [phase |-> "active", starts |-> n + 1, allowance |-> a, ran |-> FALSE]
    PROVE  t \in Durable!Start(s)
<1>1. s.phase = p /\ s.starts = n /\ s.allowance = a
  BY FieldsOf
<1>2. ASSUME NEW q
      PROVE  [s EXCEPT !.phase = "active", !.starts = n + 1, !.ran = q]
               = [phase |-> "active", starts |-> n + 1, allowance |-> a, ran |-> q]
  <2> DEFINE s1 == [s EXCEPT !.phase = "active"]
  <2> DEFINE s2 == [s1 EXCEPT !.starts = n + 1]
  <2>1. s1 = [phase |-> "active", starts |-> n, allowance |-> a, ran |-> r]
    OBVIOUS
  <2> HIDE DEF s1
  <2>2. s2 = [phase |-> "active", starts |-> n + 1, allowance |-> a, ran |-> r]
    BY <2>1
  <2> HIDE DEF s2
  <2>3. [s2 EXCEPT !.ran = q] = [phase |-> "active", starts |-> n + 1, allowance |-> a, ran |-> q]
    BY <2>2
  <2> QED BY <2>3 DEF s1, s2
<1>3. t = [s EXCEPT !.phase = "active", !.starts = n + 1, !.ran = FALSE]
  BY <1>2, Zenon
<1> QED BY <1>1, <1>3 DEF Durable!Start

(* A job whose row is left alone stays as it is.                             *)
LEMMA RowKept ==
    ASSUME NEW j \in Jobs, status'[j] = status[j], attempts'[j] = attempts[j],
           budget'[j] = budget[j], finished' = finished
    PROVE  AbstractJob'[j] = AbstractJob[j]
BY DEF AbstractJob

(* The recovery of an expired lease gives the start back.                    *)
LEMMA RecoveryGivesBack ==
    ASSUME TypeOK, NEW j \in Jobs, NEW skipped,
           status'[j] = RecoveredStatus(skipped)[j],
           attempts'[j] = attempts[j], budget'[j] = budget[j], finished' = finished
    PROVE  AbstractJob'[j] \in {AbstractJob[j]} \cup Durable!GiveBack(AbstractJob[j])
<1>1. CASE j \notin Expired(skipped)
  BY <1>1, RowKept DEF RecoveredStatus
<1>2. CASE j \in Expired(skipped) /\ Exhausted(j)
  BY <1>2 DEF AbstractJob, RecoveredStatus, Expired, Exhausted, PhaseOf, Durable!GiveBack, TypeOK
<1>3. CASE j \in Expired(skipped) /\ ~Exhausted(j)
  BY <1>3 DEF AbstractJob, RecoveredStatus, Expired, Exhausted, PhaseOf, Durable!GiveBack, TypeOK
<1> QED BY <1>1, <1>2, <1>3

Moved(j) == AbstractJob'[j] \in {AbstractJob[j]} \cup Durable!Successors(AbstractJob[j])

LEMMA ClaimMoves ==
    ASSUME TypeOK, AttemptsWithinBudget, RunsWereClaimed, NEW w \in Workers, Claim(w), NEW i \in Jobs
    PROVE  Moved(i)
<1>1. PICK skipped \in SUBSET Lockable(w) : \E j \in Runnable(skipped) :
        /\ status' = [RecoveredStatus(skipped) EXCEPT ![j] = "RUNNING"]
        /\ attempts' = [attempts EXCEPT ![j] = attempts[j] + 1]
  BY DEF Claim, NextAttempt
<1>2. PICK j \in Runnable(skipped) :
        /\ status' = [RecoveredStatus(skipped) EXCEPT ![j] = "RUNNING"]
        /\ attempts' = [attempts EXCEPT ![j] = attempts[j] + 1]
  BY <1>1
<1>3. UNCHANGED <<budget, finished>>
  BY DEF Claim
<1>4. CASE i # j
  <2>1. status'[i] = RecoveredStatus(skipped)[i] /\ attempts'[i] = attempts[i]
    BY <1>2, <1>4 DEF RecoveredStatus, TypeOK
  <2> QED BY <1>3, <2>1, RecoveryGivesBack DEF Moved, Durable!Successors
<1>5. CASE i = j
  <2>1. status'[j] = "RUNNING" /\ attempts'[j] = attempts[j] + 1 /\ attempts[j] < budget[j]
    BY <1>2 DEF RecoveredStatus, TypeOK, Runnable
  <2>2. status[j] \in {"PENDING", "RETRY", "RUNNING"}
    BY DEF Runnable, RecoveredStatus, Expired
  <2>3. <<j, attempts[j] + 1>> \notin finished
    BY DEF RunsWereClaimed, TypeOK, Runnable
  <2>4. PhaseOf(status[j]) \in {"waiting", "active"} /\ PhaseOf(status'[j]) = "active"
    BY <2>1, <2>2 DEF PhaseOf
  <2>5. (<<j, attempts'[j]>> \in finished') = FALSE
    BY <1>3, <2>1, <2>3
  <2>6. AbstractJob'[j] = [phase |-> "active", starts |-> attempts[j] + 1, allowance |-> budget[j], ran |-> FALSE]
    BY <1>3, <1>5, <2>1, <2>4, <2>5, AbstractRowNext, Zenon
  <2>7. AbstractJob'[j] \in Durable!Start(AbstractJob[j])
    <3>1. PICK r : r = (<<j, attempts[j]>> \in finished)
      OBVIOUS
    <3>2. AbstractJob[j] = [phase |-> PhaseOf(status[j]), starts |-> attempts[j],
                            allowance |-> budget[j], ran |-> r]
      BY <1>5, <3>1, AbstractRow, Zenon
    <3>3. PICK s, t : s = AbstractJob[j] /\ t = AbstractJob'[j]
      OBVIOUS
    <3>4. s = [phase |-> PhaseOf(status[j]), starts |-> attempts[j], allowance |-> budget[j], ran |-> r]
      BY <3>2, <3>3
    <3>5. t = [phase |-> "active", starts |-> attempts[j] + 1, allowance |-> budget[j], ran |-> FALSE]
      BY <2>6, <3>3, Zenon
    <3> QED BY <2>1, <2>4, <3>3, <3>4, <3>5, StartMove
  <2> QED BY <1>5, <2>7 DEF Moved, Durable!Successors
<1> QED BY <1>4, <1>5

LEMMA MarkMoves ==
    ASSUME TypeOK, CheckStillHolds, DecidedOnBudget, NEW w \in Workers, WriteMark(w), NEW i \in Jobs
    PROVE  Moved(i)
<1>1. /\ main[w].job \in Jobs /\ main[w].pc \in Marking
      /\ UNCHANGED <<attempts, budget, finished>>
  BY DEF WriteMark, MarkInFlight, Marking, Idle, TypeOK
<1>2. CASE i # main[w].job
  <2>1. status'[i] = status[i]
    BY <1>2 DEF WriteMark, TypeOK
  <2> QED BY <1>1, <2>1, RowKept DEF Moved
<1>3. CASE i = main[w].job
  <2>1. status[i] = "RUNNING" /\ attempts[i] = main[w].attempt
    BY <1>1, <1>3 DEF CheckStillHolds, MarkInFlight
  <2>2. AbstractJob[i] = [phase |-> "active", starts |-> attempts[i],
                          allowance |-> budget[i], ran |-> <<i, attempts[i]>> \in finished]
    BY <2>1, AbstractRow DEF PhaseOf
  <2>3. AbstractJob'[i] = [AbstractJob[i] EXCEPT !.phase = PhaseOf(status'[i])]
    BY <1>1, <2>2 DEF AbstractJob
  <2>4. CASE main[w].pc = "complete"
    <3>1. status'[i] = "COMPLETED" /\ <<i, attempts[i]>> \in finished
      BY <1>1, <1>3, <2>1, <2>4 DEF WriteMark, CheckStillHolds, MarkInFlight, TypeOK
    <3>2. AbstractJob[i].ran /\ AbstractJob[i].phase = "active"
      BY <2>1, <3>1, AbstractFields DEF PhaseOf
    <3>3. AbstractJob'[i] = [AbstractJob[i] EXCEPT !.phase = "done"]
      BY <2>3, <3>1 DEF PhaseOf
    <3> QED BY <3>2, <3>3 DEF Moved, Durable!Successors, Durable!Finish
  <2>5. CASE main[w].pc = "retry"
    <3>1. status'[i] = "RETRY" /\ attempts[i] < budget[i]
      BY <1>1, <1>3, <2>5 DEF WriteMark, DecidedOnBudget, TypeOK
    <3> QED BY <2>2, <2>3, <3>1 DEF Moved, Durable!Successors, Durable!GiveBack, PhaseOf
  <2>6. CASE main[w].pc = "bury"
    <3>1. status'[i] = "FAILED" /\ ~(attempts[i] < budget[i])
      BY <1>1, <1>3, <2>6 DEF WriteMark, DecidedOnBudget, TypeOK
    <3> QED BY <2>2, <2>3, <3>1 DEF Moved, Durable!Successors, Durable!GiveBack, PhaseOf
  <2> QED BY <1>1, <2>4, <2>5, <2>6 DEF Marking
<1> QED BY <1>2, <1>3

LEMMA RunMoves ==
    ASSUME TypeOK, AttemptsWithinBudget, RunsWereClaimed,
           NEW w \in Workers, CheckSucceeded(w), NEW i \in Jobs
    PROVE  Moved(i)
<1>1. /\ UNCHANGED <<status, attempts, budget>>
      /\ finished' = finished \cup {<<main[w].job, main[w].attempt>>}
      /\ main[w] # Idle
  BY DEF CheckSucceeded, rows, Idle
<1>2. CASE <<i, attempts[i]>> # <<main[w].job, main[w].attempt>>
  BY <1>1, <1>2 DEF Moved, AbstractJob
<1>3. CASE <<i, attempts[i]>> = <<main[w].job, main[w].attempt>>
  <2>1. attempts[i] > 0
    BY <1>1, <1>3 DEF RunsWereClaimed
  <2>2. (<<i, attempts'[i]>> \in finished') = TRUE
    BY <1>1, <1>3
  <2>3. AbstractJob'[i] = [phase |-> PhaseOf(status[i]), starts |-> attempts[i],
                           allowance |-> budget[i], ran |-> TRUE]
    BY <1>1, <2>2, AbstractRowNext, Zenon
  <2>4. ASSUME NEW r, NEW q,
               AbstractJob[i] = [phase |-> PhaseOf(status[i]), starts |-> attempts[i],
                                 allowance |-> budget[i], ran |-> r]
        PROVE  [AbstractJob[i] EXCEPT !.ran = q]
                 = [phase |-> PhaseOf(status[i]), starts |-> attempts[i], allowance |-> budget[i], ran |-> q]
    BY <2>4
  <2>5. AbstractJob'[i] = [AbstractJob[i] EXCEPT !.ran = TRUE]
    BY <2>3, <2>4, AbstractRow, Zenon
  <2>6. AbstractJob[i].starts > 0
    BY <2>1, AbstractFields
  <2> QED BY <2>5, <2>6 DEF Moved, Durable!Successors, Durable!RunToEnd
<1> QED BY <1>2, <1>3

LEMMA ProducerMoves ==
    ASSUME TypeOK, NEW j \in Jobs, Enqueue(j) \/ Reenqueue(j) \/ Repair(j), NEW i \in Jobs
    PROVE  Moved(i)
<1>1. CASE i # j
  <2>1. /\ status'[i] = status[i] /\ attempts'[i] = attempts[i]
        /\ budget'[i] = budget[i] /\ finished' = finished
    BY <1>1 DEF Enqueue, Reenqueue, Repair, TypeOK
  <2> QED BY <2>1, RowKept DEF Moved
<1>2. CASE i = j /\ Enqueue(j)
  <2>1. /\ status[j] = "ABSENT" /\ status'[j] = "PENDING"
        /\ UNCHANGED <<attempts, budget, finished>>
    BY <1>2 DEF Enqueue, TypeOK
  <2>2. AbstractJob'[j] = [AbstractJob[j] EXCEPT !.phase = "waiting"] /\ AbstractJob[j].phase = "none"
    BY <2>1 DEF AbstractJob, PhaseOf
  <2> QED BY <1>2, <2>2 DEF Moved, Durable!Successors, Durable!Submit
<1>3. CASE i = j /\ Reenqueue(j)
  <2>1. /\ status[j] = "FAILED" /\ status'[j] = "RETRY" /\ attempts[j] < budget[j]
        /\ UNCHANGED <<attempts, budget, finished>>
    BY <1>3 DEF Reenqueue, TypeOK
  <2>2. /\ AbstractJob'[j] = [AbstractJob[j] EXCEPT !.phase = "waiting"]
        /\ AbstractJob[j].phase = "dead" /\ AbstractJob[j].starts < AbstractJob[j].allowance
    BY <2>1 DEF AbstractJob, PhaseOf
  <2> QED BY <1>3, <2>2 DEF Moved, Durable!Successors, Durable!Revive
<1>4. CASE i = j /\ Repair(j)
  <2>1. /\ status[j] = "FAILED" /\ budget[j] < MaxAttempts + Repairs /\ budget'[j] = budget[j] + 1
        /\ UNCHANGED <<status, attempts, finished>>
    BY <1>4 DEF Repair, TypeOK
  <2>2. /\ AbstractJob'[j] = [AbstractJob[j] EXCEPT !.allowance = @ + 1]
        /\ AbstractJob[j].phase = "dead" /\ AbstractJob[j].allowance < MaxAttempts + Repairs
    BY <2>1 DEF AbstractJob, PhaseOf
  <2> QED BY <1>4, <2>2 DEF Moved, Durable!Successors, Durable!Extend
<1> QED BY <1>1, <1>2, <1>3, <1>4

(* Without overlapping transactions the queue behaves as DurableJobs: initial *)
(* states map to initial states and every step to moves of jobs or a stutter. *)
THEOREM QueueIsDurable ==
    ASSUME ReadCommitted = FALSE
    PROVE  Spec => ImplementsDurableJobs
<1>1. Init => Durable!Init
  <2> SUFFICES ASSUME Init PROVE AbstractJob = [j \in Jobs |-> Durable!New]
    BY DEF Durable!Init
  <2>1. ASSUME NEW j \in Jobs PROVE AbstractJob[j] = Durable!New
    <3>1. /\ PhaseOf(status[j]) = "none" /\ attempts[j] = 0 /\ budget[j] = MaxAttempts
          /\ (<<j, attempts[j]>> \in finished) = FALSE
      BY DEF Init, PhaseOf
    <3> QED BY <3>1, AbstractRow, Zenon DEF Durable!New
  <2> QED BY <2>1 DEF AbstractJob
<1> DEFINE Inv == /\ TypeOK /\ AttemptsWithinBudget /\ CheckStillHolds
                  /\ RunsWereClaimed /\ DecidedOnBudget
<1>2. Inv /\ [Next]_vars => [Durable!Next]_AbstractJob
  <2> SUFFICES ASSUME Inv, [Next]_vars PROVE Durable!Next \/ UNCHANGED AbstractJob
    OBVIOUS
  <2>1. ASSUME \A i \in Jobs : Moved(i) PROVE Durable!Next
    <3>1. DOMAIN AbstractJob' = Jobs
      BY DEF AbstractJob
    <3> QED BY <2>1, <3>1 DEF Durable!Next, Moved
  <2>2. CASE Producer
    BY <2>1, <2>2, ProducerMoves DEF Producer
  <2>3. ASSUME NEW w \in Workers, Claim(w) PROVE Durable!Next
    BY <2>1, <2>3, ClaimMoves
  <2>4. ASSUME NEW w \in Workers, PollEmpty(w) PROVE Durable!Next
    <3>1. PICK skipped \in SUBSET Lockable(w) : status' = RecoveredStatus(skipped)
      BY <2>4 DEF PollEmpty
    <3>2. UNCHANGED <<attempts, budget, finished>>
      BY <2>4 DEF PollEmpty
    <3>3. ASSUME NEW i \in Jobs PROVE Moved(i)
      BY <3>1, <3>2, RecoveryGivesBack DEF Moved, Durable!Successors
    <3> QED BY <2>1, <3>3
  <2>5. ASSUME NEW w \in Workers, CheckSucceeded(w) PROVE Durable!Next
    BY <2>1, <2>5, RunMoves
  <2>6. ASSUME NEW w \in Workers, WriteMark(w) PROVE Durable!Next
    BY <2>1, <2>6, MarkMoves
  <2>7. CASE UNCHANGED <<status, attempts, budget, finished>>
    BY <2>7 DEF AbstractJob
  <2> QED
    BY <2>2, <2>3, <2>4, <2>5, <2>6, <2>7
    DEF Next, Worker, Poll, EndPipeline, CheckFailed, CheckHeartbeat, WriteHeartbeat,
        LoseMark, Crash, Tick, rows, vars
<1>3. QED
  BY <1>1, <1>2, TypeCorrect, AttemptTokens, Fencing, RunsClaimed, MarksDecided, PTL
  DEF Spec, ImplementsDurableJobs, Durable!Spec
=============================================================================
