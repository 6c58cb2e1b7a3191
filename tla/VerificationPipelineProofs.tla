--------------------- MODULE VerificationPipelineProofs ---------------------
(***************************************************************************)
(* Proofs about the processing pipeline for every number of challenges,    *)
(* threads, attempts and requests of administrators.                       *)
(***************************************************************************)
EXTENDS VerificationPipeline, TLAPS, WellFoundedInduction, FiniteSetTheorems

Stages == {"visual", "fusion", "security", "signals", "verdict", "receipt"}
Over == {"end", "failed"}

(* The stages of each kind of task.                                        *)
StagesOf(kind) ==
    CASE kind = "job" -> Stages
      [] kind = "visualRetry" -> {"visual", "fusion"}
      [] kind = "fusionRetry" -> Stages \ {"visual"}
      [] kind = "recalculation" -> {"verdict"}
      [] kind = "issue" -> {"receipt"}

(* A task is at a stage of its kind; while it compares, it has a challenge.*)
StageFits ==
    \A t \in Tasks : task[t] # Idle =>
        /\ task[t].stage \in StagesOf(task[t].kind)
        /\ task[t].phase = "compare" => task[t].todo # {}

(* A queued job has an attempt left.                                       *)
QueuedHasAttempts == job.status = "queued" => job.attempts < MaxAttempts

-----------------------------------------------------------------------------
(* Where tasks go.                                                         *)

LEMMA KindsAre == Kinds = {"job", "visualRetry", "fusionRetry", "recalculation", "issue"}
BY DEF Kinds, Succession

LEMMA JobStages == DOMAIN Succession.job = Stages
BY DEF Succession, Stages

(* From a stage of its kind a task goes to a stage of its kind or is over. *)
(* To a receipt it comes from a verdict only, and a job's last stage is the*)
(* receipt.                                                                *)
LEMMA Ways ==
    ASSUME NEW kind \in Kinds, NEW stage \in StagesOf(kind)
    PROVE  /\ stage \in Stages
           /\ Succession[kind][stage] \in StagesOf(kind) \cup {"end"}
           /\ AfterException[kind][stage] \in StagesOf(kind) \cup Over
           /\ AfterException[kind][stage] # "receipt"
           /\ Succession[kind][stage] = "receipt" => stage = "verdict"
           /\ kind = "job" /\ Succession[kind][stage] = "end" => stage = "receipt"
           /\ kind = "job" => AfterException[kind][stage] = "failed" /\ Succession[kind][stage] # "failed"
<1>1. CASE kind = "job"
  BY <1>1, JobStages DEF Succession, AfterException, StagesOf, Stages, Over
<1>2. CASE kind = "visualRetry"
  BY <1>2 DEF Succession, AfterException, StagesOf, Stages, Over
<1>3. CASE kind = "fusionRetry"
  BY <1>3 DEF Succession, AfterException, StagesOf, Stages, Over
<1>4. CASE kind = "recalculation"
  BY <1>4 DEF Succession, AfterException, StagesOf, Stages, Over
<1>5. CASE kind = "issue"
  BY <1>5 DEF Succession, AfterException, StagesOf, Stages, Over
<1> QED BY <1>1, <1>2, <1>3, <1>4, <1>5, KindsAre

(* Sets of challenges have a first element.                                *)
LEMMA FirstIsIn ==
    ASSUME NEW S \in SUBSET Challenges, S # {}
    PROVE  First(S) \in S
<1>1. S \subseteq Nat
  BY DEF Challenges
<1>2. PICK x \in S : \A y \in S : <<y, x>> \notin OpToRel(<, Nat)
  BY <1>1, WFMin, NatLessThanWellFounded, Zenon
<1>3. ASSUME NEW y \in S, y < x PROVE FALSE
  <2>1. <<y, x>> \in OpToRel(<, Nat)
    <3>1. <<y, x>> \in Nat \X Nat /\ <<y, x>>[1] < <<y, x>>[2]
      BY <1>1, <1>3
    <3> QED BY <3>1, Zenon DEF OpToRel
  <2> QED BY <1>2, <2>1, Zenon
<1>4. \A y \in S : x <= y
  BY <1>1, <1>3
<1> QED BY <1>4 DEF First

-----------------------------------------------------------------------------
(* What the steps of a thread do to its task.                              *)

Jobs == [status : {"queued", "running", "succeeded", "failed"}, attempts : 0 .. MaxAttempts]

(* The other threads stand, and the job is not given more attempts than it *)
(* has.                                                                    *)
Alone(t) ==
    /\ task' \in [Tasks -> Task \cup {Idle}]
    /\ \A u \in Tasks : u # t => task'[u] = task[u]
    /\ job' \in Jobs
    /\ QueuedHasAttempts'

JobSucceeds == job'.status = "succeeded" /\ job.status # "succeeded"

LEMMA ANewTask ==
    ASSUME NEW kind \in Kinds, NEW stage \in Stages
    PROVE  NewTask(kind, stage) \in Task
BY JobStages DEF NewTask, Task, Unread, Engines, Legacy, NoResult, Result, Stages, ReceiptStatus

(* Retried queues the job only when it may be attempted again.             *)
LEMMA RetriedKeeps ==
    ASSUME job \in Jobs, Retried
    PROVE  /\ job' \in Jobs /\ QueuedHasAttempts'
           /\ job'.status \in {"queued", "failed"}
BY PipelineAssumption DEF Jobs, Retried, Given, QueuedHasAttempts

(* A thread that enters a stage begins it afresh; one that is over is free.*)
LEMMA Entering ==
    ASSUME TypeOK, QueuedHasAttempts, NEW t \in Tasks, task[t] # Idle,
           NEW stage \in StagesOf(task[t].kind) \cup Over,
           NEW engine \in Engines, NEW row \in Result,
           GoWith(t, stage, engine, row)
    PROVE  /\ Alone(t)
           /\ stage \in Over => task'[t] = Idle
           /\ stage \notin Over =>
                /\ task'[t] \in Task
                /\ task'[t].kind = task[t].kind
                /\ task'[t].stage = stage
                /\ task'[t].phase = "begin"
                /\ task'[t].engine = engine
                /\ task'[t].row = row
           /\ JobSucceeds => task[t].kind = "job" /\ stage = "end"
<1> DEFINE fresh == NewTask(task[t].kind, stage)
           s1 == [fresh EXCEPT !.stalled = task[t].stalled]
           s2 == [s1 EXCEPT !.engine = engine]
           s3 == [s2 EXCEPT !.row = row]
<1>1. task[t] \in Task /\ task[t].kind \in Kinds /\ task[t].stalled \in BOOLEAN
  BY DEF TypeOK, Task
<1>2. stage \notin Over => stage \in Stages
  BY <1>1, Ways
<1>3. task' = [task EXCEPT ![t] = IF stage \in Over THEN Idle ELSE s3]
  BY Zenon DEF GoWith, Over
<1>4. ASSUME stage \notin Over
      PROVE  /\ s3 \in Task
             /\ s3.kind = task[t].kind /\ s3.stage = stage /\ s3.phase = "begin"
             /\ s3.engine = engine /\ s3.row = row
  <2>1. fresh \in Task
    BY <1>1, <1>2, <1>4, ANewTask
  <2>2. fresh.kind = task[t].kind /\ fresh.stage = stage /\ fresh.phase = "begin"
    BY DEF NewTask
  <2> HIDE DEF fresh
  <2>3. s1 \in Task /\ s1.kind = task[t].kind /\ s1.stage = stage /\ s1.phase = "begin"
    BY <1>1, <2>1, <2>2 DEF Task
  <2> HIDE DEF s1
  <2>4. s2 \in Task /\ s2.kind = task[t].kind /\ s2.stage = stage /\ s2.phase = "begin"
        /\ s2.engine = engine
    BY <2>3 DEF Task
  <2> HIDE DEF s2
  <2> QED BY <2>4 DEF Task
<1> HIDE DEF s3
<1>5. task' \in [Tasks -> Task \cup {Idle}] /\ \A u \in Tasks : u # t => task'[u] = task[u]
  BY <1>3, <1>4 DEF TypeOK
<1>6. task'[t] = IF stage \in Over THEN Idle ELSE s3
  BY <1>3 DEF TypeOK
<1>7. /\ job' \in Jobs /\ QueuedHasAttempts'
      /\ JobSucceeds => task[t].kind = "job" /\ stage = "end"
  <2>1. job \in Jobs
    BY DEF TypeOK, Jobs
  <2>2. CASE task[t].kind = "job" /\ ~task[t].stalled /\ stage = "end"
    <3>1. job' = [job EXCEPT !.status = "succeeded"]
      BY <2>2 DEF GoWith, Given
    <3> QED BY <3>1, <2>1, <2>2 DEF Jobs, QueuedHasAttempts
  <2>3. CASE task[t].kind = "job" /\ ~task[t].stalled /\ stage = "failed"
    <3>1. Retried
      BY <2>3 DEF GoWith
    <3> QED BY <3>1, <2>1, RetriedKeeps DEF JobSucceeds
  <2>4. CASE ~(task[t].kind = "job" /\ ~task[t].stalled /\ stage \in Over)
    <3>1. job' = job
      BY <2>4 DEF GoWith, Over
    <3> QED BY <3>1, <2>1 DEF QueuedHasAttempts, JobSucceeds
  <2> QED BY <2>2, <2>3, <2>4 DEF Over
<1> QED BY <1>4, <1>5, <1>6, <1>7 DEF Alone

TypeFacts == TypeOK /\ StageFits /\ QueuedHasAttempts

LEMMA ResultTypes == NoResult \in Result /\ Legacy \in Engines /\ Security \in Engines
                     /\ Legacy # Security
BY DEF NoResult, Result, Legacy, Security, Engines

(* A thread at a stage, free again or at the beginning of one of its own.  *)
Fresh(t) ==
    task'[t] # Idle =>
        /\ task'[t] \in Task
        /\ task'[t].kind = task[t].kind
        /\ task'[t].stage \in StagesOf(task'[t].kind)
        /\ task'[t].phase = "begin"

LEMMA Proceeding ==
    ASSUME TypeFacts, NEW t \in Tasks, task[t] # Idle, Proceed(t)
    PROVE  /\ Alone(t) /\ Fresh(t)
           /\ task'[t] # Idle /\ task'[t].stage = "receipt" => task[t].stage = "verdict"
           /\ JobSucceeds => task[t].kind = "job" /\ task[t].stage = "receipt"
<1> DEFINE next == Succession[task[t].kind][task[t].stage]
<1>1. task[t].kind \in Kinds /\ task[t].stage \in StagesOf(task[t].kind)
  BY DEF TypeFacts, TypeOK, StageFits, Task
<1>2. /\ next \in StagesOf(task[t].kind) \cup {"end"}
      /\ next = "receipt" => task[t].stage = "verdict"
      /\ task[t].kind = "job" /\ next = "end" => task[t].stage = "receipt"
  BY <1>1, Ways
<1>3. GoWith(t, next, Legacy, NoResult)
  BY DEF Proceed, GoTo
<1> HIDE DEF next
<1>4. next \in StagesOf(task[t].kind) \cup Over
  BY <1>2 DEF Over
<1> QED BY <1>2, <1>3, <1>4, Entering, ResultTypes DEF TypeFacts, Fresh

LEMMA Raising ==
    ASSUME TypeFacts, NEW t \in Tasks, task[t] # Idle, Raise(t)
    PROVE  /\ Alone(t) /\ Fresh(t)
           /\ task'[t] # Idle => task'[t].stage # "receipt"
           /\ ~JobSucceeds
<1> DEFINE next == AfterException[task[t].kind][task[t].stage]
<1>1. task[t].kind \in Kinds /\ task[t].stage \in StagesOf(task[t].kind)
  BY DEF TypeFacts, TypeOK, StageFits, Task
<1>2. /\ next \in StagesOf(task[t].kind) \cup Over
      /\ next # "receipt"
      /\ task[t].kind = "job" => next = "failed"
  BY <1>1, Ways
<1>3. GoWith(t, next, Legacy, NoResult)
  BY DEF Raise, GoTo
<1> HIDE DEF next
<1> QED BY <1>2, <1>3, Entering, ResultTypes DEF TypeFacts, Fresh

(* With a result a thread goes on to the receipt of that result; a job only*)
(* with the security engine's.                                             *)
LEMMA Concluding ==
    ASSUME TypeFacts, NEW t \in Tasks, task[t] # Idle, task[t].stage = "verdict",
           NEW engine \in Engines, NEW row \in Result, Conclude(t, engine, row)
    PROVE  /\ Alone(t) /\ Fresh(t)
           /\ task'[t] # Idle /\ task'[t].stage = "receipt" =>
                /\ task'[t].engine = engine /\ task'[t].row = row
                /\ task'[t].kind = "job" => engine = Security
           /\ ~JobSucceeds
<1>1. CASE task[t].kind = "job" /\ engine = Legacy
  BY <1>1, Raising DEF Conclude
<1>2. CASE ~(task[t].kind = "job" /\ engine = Legacy)
  <2> DEFINE next == Succession[task[t].kind].verdict
  <2>1. task[t].kind \in Kinds /\ "verdict" \in StagesOf(task[t].kind)
    BY DEF TypeFacts, TypeOK, StageFits, Task
  <2>2. /\ next \in StagesOf(task[t].kind) \cup {"end"}
        /\ task[t].kind = "job" => next # "end"
    BY <2>1, Ways
  <2>3. GoWith(t, next, engine, row)
    BY <1>2 DEF Conclude
  <2> HIDE DEF next
  <2>4. next \in StagesOf(task[t].kind) \cup Over
    BY <2>2 DEF Over
  <2>5. task[t].kind = "job" => engine = Security
    BY <1>2 DEF Engines
  <2> QED BY <2>2, <2>3, <2>4, <2>5, Entering DEF TypeFacts, Fresh
<1> QED BY <1>1, <1>2

(* A thread that stays at its stage.                                       *)
Stays(t) ==
    /\ Alone(t)
    /\ task'[t] \in Task
    /\ task'[t].kind = task[t].kind /\ task'[t].stage = task[t].stage
    /\ ~JobSucceeds

LEMMA Staying ==
    ASSUME TypeFacts, NEW t \in Tasks, task[t] # Idle, NEW x \in Task,
           task' = [task EXCEPT ![t] = x], UNCHANGED job,
           x.kind = task[t].kind, x.stage = task[t].stage
    PROVE  Stays(t) /\ task'[t] = x
BY DEF TypeFacts, TypeOK, QueuedHasAttempts, Jobs, Stays, Alone, JobSucceeds

-----------------------------------------------------------------------------
(* The analyses, and every failure, leave results and receipts alone.      *)

AnalysesTyped ==
    /\ visual \in [Challenges -> VisualStatus]
    /\ fusion \in [Challenges -> FusionStatus]
    /\ advanced \subseteq {"security", "signals"}
    /\ requests \in 0 .. MaxRequests

Fits(x) == x.stage \in StagesOf(x.kind) /\ (x.phase = "compare" => x.todo # {})

(* Where a thread neither calculates nor issues.                           *)
Elsewhere(x) == x.stage # "receipt" /\ (x.stage = "verdict" => x.phase = "begin")

Quiet(t) ==
    /\ Alone(t) /\ AnalysesTyped'
    /\ task'[t] # Idle => Fits(task'[t]) /\ Elsewhere(task'[t])
    /\ ~JobSucceeds
    /\ UNCHANGED <<result, receipt>>

LEMMA VisualIsQuiet ==
    ASSUME TypeFacts, NEW t \in Tasks,
           BeginVisual(t) \/ AnalyzeChallenge(t) \/ EndVisual(t) \/ FailVisual(t)
    PROVE  Quiet(t)
<1> DEFINE old == task[t]
<1>1. old # Idle /\ old \in Task /\ old.stage = "visual" /\ Fits(old) /\ AnalysesTyped
  BY DEF BeginVisual, AnalyzeChallenge, EndVisual, FailVisual, At, TypeFacts, TypeOK,
     StageFits, Fits, AnalysesTyped
<1>2. CASE BeginVisual(t)
  <2> DEFINE todo == {c \in Challenges : Forced(t) \/ visual[c] \notin VisualDone}
             s1 == [old EXCEPT !.phase = "loop"]
             s2 == [s1 EXCEPT !.todo = todo]
  <2>1. s1 \in Task /\ s1.phase = "loop" /\ s1.stage = "visual" /\ s1.kind = old.kind
    BY <1>1 DEF Task
  <2>2. todo \in SUBSET Challenges
    OBVIOUS
  <2>3. task' = [task EXCEPT ![t] = s2]
    BY <1>2 DEF BeginVisual, TypeFacts, TypeOK
  <2>4. visual' \in [Challenges -> VisualStatus]
    BY <1>1, <1>2 DEF BeginVisual, AnalysesTyped, VisualStatus
  <2> HIDE DEF s1, todo
  <2>5. s2 \in Task /\ s2.phase = "loop" /\ s2.stage = "visual" /\ s2.kind = old.kind
    BY <2>1, <2>2 DEF Task
  <2> HIDE DEF s2
  <2>6. Stays(t) /\ task'[t] = s2
    BY <1>1, <1>2, <2>3, <2>5, Staying DEF BeginVisual
  <2> QED BY <1>1, <1>2, <2>4, <2>5, <2>6
          DEF BeginVisual, Quiet, Stays, Fits, Elsewhere, AnalysesTyped
<1>3. CASE AnalyzeChallenge(t)
  <2> DEFINE c == First(old.todo)
             s1 == [old EXCEPT !.todo = old.todo \ {c}]
  <2>1. c \in Challenges
    BY <1>1, <1>3, FirstIsIn DEF AnalyzeChallenge, Task
  <2>2. task' = [task EXCEPT ![t] = s1]
    BY <1>3 DEF AnalyzeChallenge, TypeFacts, TypeOK
  <2>3. visual' \in [Challenges -> VisualStatus]
    BY <1>1, <1>3, <2>1 DEF AnalyzeChallenge, AnalysesTyped, VisualStatus
  <2>4. old.phase = "loop"
    BY <1>3 DEF AnalyzeChallenge, At
  <2> HIDE DEF c
  <2>5. s1 \in Task /\ s1.phase = "loop" /\ s1.stage = "visual" /\ s1.kind = old.kind
    BY <1>1, <2>4 DEF Task
  <2> HIDE DEF s1
  <2>6. Stays(t) /\ task'[t] = s1
    <3>1. UNCHANGED job
      BY <1>3 DEF AnalyzeChallenge
    <3> QED BY <1>1, <1>3, <2>2, <2>5, <3>1, Staying
  <2> QED BY <1>1, <1>3, <2>3, <2>5, <2>6
          DEF AnalyzeChallenge, Quiet, Stays, Fits, Elsewhere, AnalysesTyped
<1>4. CASE EndVisual(t)
  BY <1>1, <1>4, Proceeding
     DEF EndVisual, Quiet, Fresh, Fits, Elsewhere, AnalysesTyped
<1>5. CASE FailVisual(t)
  <2>1. visual' \in [Challenges -> VisualStatus]
    BY <1>1, <1>5 DEF FailVisual, AnalysesTyped, VisualStatus
  <2> QED BY <1>1, <1>5, <2>1, Raising
          DEF FailVisual, Quiet, Fresh, Fits, Elsewhere, AnalysesTyped
<1> QED BY <1>2, <1>3, <1>4, <1>5

LEMMA FusionIsQuiet ==
    ASSUME TypeFacts, NEW t \in Tasks,
           \/ AwaitVisual(t) \/ BeginFusion(t) \/ MarkProcessing(t)
           \/ StoreDecision(t) \/ EndFusion(t) \/ FailFusion(t)
    PROVE  Quiet(t)
<1> DEFINE old == task[t]
<1>1. old # Idle /\ old \in Task /\ old.stage = "fusion" /\ Fits(old) /\ AnalysesTyped
  BY DEF AwaitVisual, BeginFusion, MarkProcessing, StoreDecision, EndFusion, FailFusion,
     At, TypeFacts, TypeOK, StageFits, Fits, AnalysesTyped
<1>2. CASE AwaitVisual(t)
  <2>1. fusion' \in [Challenges -> FusionStatus]
    BY <1>1, <1>2 DEF AwaitVisual, AnalysesTyped, FusionStatus, FusionInFlight
  <2> QED BY <1>1, <1>2, <2>1, Proceeding
          DEF AwaitVisual, Quiet, Fresh, Fits, Elsewhere, AnalysesTyped
<1>3. CASE BeginFusion(t)
  <2> DEFINE seen == {c \in Challenges : fusion[c] = "COMPLETE"}
             s1 == [old EXCEPT !.phase = "loop"]
             s2 == [s1 EXCEPT !.todo = Challenges]
             s3 == [s2 EXCEPT !.seen = seen]
  <2>1. s1 \in Task /\ s1.phase = "loop" /\ s1.stage = "fusion" /\ s1.kind = old.kind
    BY <1>1 DEF Task
  <2>2. seen \in SUBSET Challenges
    OBVIOUS
  <2>3. task' = [task EXCEPT ![t] = s3]
    <3>1. task' = [[[task EXCEPT ![t].phase = "loop"] EXCEPT ![t].todo = Challenges]
                   EXCEPT ![t].seen = seen]
      BY <1>3, Zenon DEF BeginFusion
    <3> HIDE DEF seen
    <3> QED BY <3>1 DEF TypeFacts, TypeOK
  <2> HIDE DEF s1, seen
  <2>4. s2 \in Task /\ s2.phase = "loop" /\ s2.stage = "fusion" /\ s2.kind = old.kind
    BY <2>1 DEF Task
  <2> HIDE DEF s2
  <2>5. s3 \in Task /\ s3.phase = "loop" /\ s3.stage = "fusion" /\ s3.kind = old.kind
    BY <2>2, <2>4 DEF Task
  <2> HIDE DEF s3
  <2>6. Stays(t) /\ task'[t] = s3
    BY <1>1, <1>3, <2>3, <2>5, Staying DEF BeginFusion
  <2> QED BY <1>1, <1>3, <2>5, <2>6
          DEF BeginFusion, Quiet, Stays, Fits, Elsewhere, AnalysesTyped
<1>4. CASE MarkProcessing(t)
  <2> DEFINE c == First(old.todo)
             s1 == [old EXCEPT !.phase = "compare"]
             s2 == [s1 EXCEPT !.seen = old.seen \ {c}]
  <2>1. c \in Challenges /\ old.todo # {}
    BY <1>1, <1>4, FirstIsIn DEF MarkProcessing, Task
  <2>2. task' = [task EXCEPT ![t] = s2]
    BY <1>4 DEF MarkProcessing, TypeFacts, TypeOK
  <2>3. fusion' \in [Challenges -> FusionStatus]
    BY <1>1, <1>4, <2>1 DEF MarkProcessing, AnalysesTyped, FusionStatus, FusionInFlight
  <2> HIDE DEF c
  <2>4. /\ s1 \in Task /\ s1.phase = "compare" /\ s1.stage = "fusion" /\ s1.kind = old.kind
        /\ s1.todo # {}
    BY <1>1, <2>1 DEF Task
  <2>5. old.seen \ {c} \in SUBSET Challenges
    BY <1>1 DEF Task
  <2> HIDE DEF s1
  <2>6. /\ s2 \in Task /\ s2.phase = "compare" /\ s2.stage = "fusion" /\ s2.kind = old.kind
        /\ s2.todo # {}
    BY <2>4, <2>5 DEF Task
  <2> HIDE DEF s2
  <2>7. Stays(t) /\ task'[t] = s2
    <3>1. UNCHANGED job
      BY <1>4 DEF MarkProcessing
    <3> QED BY <1>1, <1>4, <2>2, <2>6, <3>1, Staying
  <2>8. s2.stage \in StagesOf(s2.kind)
    BY <1>1, <2>6 DEF Fits
  <2> QED BY <1>1, <1>4, <2>3, <2>6, <2>7, <2>8
          DEF MarkProcessing, Quiet, Stays, Fits, Elsewhere, AnalysesTyped
<1>5. CASE StoreDecision(t)
  <2> DEFINE c == First(old.todo)
             s1 == [old EXCEPT !.phase = "loop"]
             s2 == [s1 EXCEPT !.todo = old.todo \ {c}]
             s3 == [s2 EXCEPT !.seen = old.seen \cup {c}]
  <2>1. c \in Challenges
    BY <1>1, <1>5, FirstIsIn DEF StoreDecision, At, Fits, Task
  <2>2. task' = [task EXCEPT ![t] = s3]
    <3>1. /\ task' = [[[task EXCEPT ![t].phase = "loop"] EXCEPT ![t].todo = @ \ {c}]
                      EXCEPT ![t].seen = @ \cup {c}]
      BY <1>5, Zenon DEF StoreDecision
    <3> HIDE DEF c
    <3> QED BY <1>1, <3>1 DEF TypeFacts, TypeOK, Task
  <2>3. fusion' \in [Challenges -> FusionStatus]
    BY <1>1, <1>5, <2>1 DEF StoreDecision, AnalysesTyped, FusionStatus
  <2> HIDE DEF c
  <2>4. s1 \in Task /\ s1.phase = "loop" /\ s1.stage = "fusion" /\ s1.kind = old.kind
    BY <1>1 DEF Task
  <2>5. old.todo \ {c} \in SUBSET Challenges /\ old.seen \cup {c} \in SUBSET Challenges
    BY <1>1, <2>1 DEF Task
  <2> HIDE DEF s1
  <2>6. s2 \in Task /\ s2.phase = "loop" /\ s2.stage = "fusion" /\ s2.kind = old.kind
    BY <2>4, <2>5 DEF Task
  <2> HIDE DEF s2
  <2>7. s3 \in Task /\ s3.phase = "loop" /\ s3.stage = "fusion" /\ s3.kind = old.kind
    BY <2>5, <2>6 DEF Task
  <2> HIDE DEF s3
  <2>8. Stays(t) /\ task'[t] = s3
    BY <1>1, <1>5, <2>2, <2>7, Staying DEF StoreDecision
  <2> QED BY <1>1, <1>5, <2>3, <2>7, <2>8
          DEF StoreDecision, Quiet, Stays, Fits, Elsewhere, AnalysesTyped
<1>6. CASE EndFusion(t)
  BY <1>1, <1>6, Proceeding
     DEF EndFusion, Quiet, Fresh, Fits, Elsewhere, AnalysesTyped
<1>7. CASE FailFusion(t)
  <2>1. fusion' \in [Challenges -> FusionStatus]
    BY <1>1, <1>7 DEF FailFusion, AnalysesTyped, FusionStatus
  <2> QED BY <1>1, <1>7, <2>1, Raising
          DEF FailFusion, Quiet, Fresh, Fits, Elsewhere, AnalysesTyped
<1> QED BY <1>2, <1>3, <1>4, <1>5, <1>6, <1>7

(* A thread that takes on a task.                                          *)
LEMMA Taking ==
    ASSUME TypeFacts, NEW t \in Tasks, NEW x \in Task, Fits(x),
           task' = [task EXCEPT ![t] = x]
    PROVE  /\ task' \in [Tasks -> Task \cup {Idle}]
           /\ \A u \in Tasks : u # t => task'[u] = task[u]
           /\ task'[t] = x
BY DEF TypeFacts, TypeOK

LEMMA StartIsQuiet ==
    ASSUME TypeFacts, NEW t \in Tasks,
           StartJob(t) \/ \E kind \in DOMAIN FirstStage : StartRequest(t, kind)
    PROVE  Quiet(t)
<1> USE DEF TypeFacts
<1>1. CASE StartJob(t)
  <2> DEFINE x == NewTask("job", "visual")
  <2>1. x \in Task
    BY ANewTask, KindsAre DEF Stages
  <2>2. x.kind = "job" /\ x.stage = "visual" /\ x.phase = "begin"
    BY DEF NewTask
  <2>3. task' = [task EXCEPT ![t] = x]
    BY <1>1 DEF StartJob
  <2> HIDE DEF x
  <2>4. Fits(x) /\ Elsewhere(x)
    BY <2>2 DEF Fits, Elsewhere, StagesOf, Stages
  <2>5. job' \in Jobs /\ job'.status = "running"
    BY <1>1, PipelineAssumption DEF StartJob, TypeOK, Jobs, QueuedHasAttempts
  <2> QED BY <1>1, <2>1, <2>3, <2>4, <2>5, Taking
          DEF StartJob, Quiet, Alone, AnalysesTyped, JobSucceeds, TypeOK, QueuedHasAttempts
<1>2. ASSUME NEW kind \in DOMAIN FirstStage, StartRequest(t, kind) PROVE Quiet(t)
  <2> DEFINE x == NewTask(kind, FirstStage[kind])
  <2>1. kind \in Kinds /\ FirstStage[kind] \in StagesOf(kind) /\ FirstStage[kind] \in Stages
        /\ FirstStage[kind] # "receipt"
    BY KindsAre DEF FirstStage, StagesOf, Stages
  <2>2. x \in Task /\ x.kind = kind /\ x.stage = FirstStage[kind] /\ x.phase = "begin"
    BY <2>1, ANewTask DEF NewTask
  <2>3. task' = [task EXCEPT ![t] = x]
    BY <1>2 DEF StartRequest
  <2> HIDE DEF x
  <2>4. Fits(x) /\ Elsewhere(x)
    BY <2>1, <2>2 DEF Fits, Elsewhere
  <2>5. requests' \in 0 .. MaxRequests
    BY <1>2, PipelineAssumption DEF StartRequest, Request, TypeOK
  <2> QED BY <1>2, <2>2, <2>3, <2>4, <2>5, Taking
          DEF StartRequest, Quiet, Alone, AnalysesTyped, JobSucceeds, TypeOK, QueuedHasAttempts,
              Jobs
<1> QED BY <1>1, <1>2

LEMMA FailureIsQuiet ==
    ASSUME TypeFacts, NEW t \in Tasks,
           Crash(t) \/ FailStage(t) \/ FailVerdict(t) \/ FailReceipt(t)
    PROVE  Quiet(t)
<1> USE DEF TypeFacts
<1>1. task[t] # Idle /\ AnalysesTyped /\ job \in Jobs
  BY DEF Crash, FailStage, FailVerdict, FailReceipt, At, TypeOK, AnalysesTyped, Jobs
<1>2. CASE Crash(t)
  <2>1. job' \in Jobs /\ QueuedHasAttempts' /\ ~JobSucceeds
    BY <1>1, <1>2, RetriedKeeps DEF Crash, JobSucceeds, QueuedHasAttempts
  <2> QED BY <1>1, <1>2, <2>1 DEF Crash, TypeOK, Quiet, Alone, AnalysesTyped
<1>3. CASE FailStage(t) \/ FailVerdict(t) \/ FailReceipt(t)
  <2>1. Raise(t)
    BY <1>3 DEF FailStage, FailVerdict, FailReceipt
  <2> QED BY <1>1, <1>3, <2>1, Raising
          DEF FailStage, FailVerdict, FailReceipt, Quiet, Fresh, Fits, Elsewhere, AnalysesTyped
<1> QED BY <1>2, <1>3

LEMMA AdvanceIsQuiet ==
    ASSUME TypeFacts, NEW t \in Tasks, Advance(t)
    PROVE  Quiet(t)
<1>1. PICK s \in {"security", "signals"} : At(t, s, "begin") /\ advanced' = advanced \cup {s}
  BY DEF Advance
<1>2. task[t] # Idle /\ task[t].stage \notin {"verdict", "receipt"} /\ AnalysesTyped'
  BY <1>1 DEF Advance, At, AnalysesTyped, TypeFacts, TypeOK
<1> QED BY <1>2, Proceeding DEF Advance, Quiet, Fresh, Fits, Elsewhere

(* A worker that stalls is at the same place.                              *)
LEMMA Stalling ==
    ASSUME TypeFacts, NEW t \in Tasks, LoseLease(t)
    PROVE  /\ Stays(t) /\ task'[t] = [task[t] EXCEPT !.stalled = TRUE]
           /\ AnalysesTyped' /\ Fits(task'[t]) /\ UNCHANGED <<result, receipt>>
<1> USE DEF TypeFacts
<1> DEFINE x == [task[t] EXCEPT !.stalled = TRUE]
<1>1. task[t] \in Task /\ Fits(task[t]) /\ job \in Jobs /\ AnalysesTyped'
  BY DEF LoseLease, TypeOK, StageFits, Fits, Jobs, AnalysesTyped
<1>2. task' = [task EXCEPT ![t] = x]
  BY DEF LoseLease, TypeOK
<1>3. PICK yes \in BOOLEAN : yes = TRUE
  OBVIOUS
<1>4. x = [task[t] EXCEPT !.stalled = yes]
  BY <1>3
<1>5. /\ x \in Task /\ x.kind = task[t].kind /\ x.stage = task[t].stage
      /\ x.phase = task[t].phase /\ x.todo = task[t].todo
  BY <1>1, <1>4 DEF Task
<1> HIDE DEF x
<1>6. Fits(x)
  BY <1>1, <1>5 DEF Fits
<1>7. job' \in Jobs /\ QueuedHasAttempts' /\ ~JobSucceeds
  BY <1>1, RetriedKeeps DEF LoseLease, JobSucceeds
<1>8. x = [task[t] EXCEPT !.stalled = TRUE]
  BY DEF x
<1>9. task'[t] = x
  BY <1>2 DEF TypeOK
<1> QED
  <2>1. Stays(t) /\ Fits(task'[t])
    BY <1>2, <1>5, <1>6, <1>7, <1>9, Taking DEF Stays, Alone
  <2> QED BY <1>1, <1>8, <1>9, <2>1 DEF LoseLease

-----------------------------------------------------------------------------
(* Calculating and issuing.                                                *)

LEMMA EngineIsOne == Engine \in Engines /\ Newest \in Engines
BY DEF Engine, Newest, Engines

LEMMA Loading ==
    ASSUME TypeFacts, NEW t \in Tasks, LoadResult(t)
    PROVE  /\ Stays(t)
           /\ task'[t].stage = "verdict" /\ task'[t].phase = "loop"
           /\ task'[t].engine = Engine /\ task'[t].row = result[Engine]
<1> DEFINE old == task[t]
           s1 == [old EXCEPT !.phase = "loop"]
           s2 == [s1 EXCEPT !.engine = Engine]
           s3 == [s2 EXCEPT !.row = result[Engine]]
<1>1. old # Idle /\ old \in Task /\ old.stage = "verdict" /\ result[Engine] \in Result
  BY EngineIsOne DEF LoadResult, At, TypeFacts, TypeOK
<1>2. task' = [task EXCEPT ![t] = s3]
  <2>1. task' = [[[task EXCEPT ![t].phase = "loop"] EXCEPT ![t].engine = Engine]
                 EXCEPT ![t].row = result[Engine]]
    BY Zenon DEF LoadResult
  <2> QED BY <1>1, <2>1 DEF TypeFacts, TypeOK, Task
<1>3. s1 \in Task /\ s1.phase = "loop" /\ s1.stage = "verdict" /\ s1.kind = old.kind
  BY <1>1 DEF Task
<1> HIDE DEF s1
<1>4. s2 \in Task /\ s2.phase = "loop" /\ s2.stage = "verdict" /\ s2.kind = old.kind
      /\ s2.engine = Engine
  BY <1>3, EngineIsOne DEF Task
<1> HIDE DEF s2
<1>5. s3 \in Task /\ s3.phase = "loop" /\ s3.stage = "verdict" /\ s3.kind = old.kind
      /\ s3.engine = Engine /\ s3.row = result[Engine]
  BY <1>1, <1>4 DEF Task
<1> HIDE DEF s3
<1>6. UNCHANGED job
  BY DEF LoadResult
<1>7. s3 \in Task /\ s3.kind = old.kind /\ s3.stage = old.stage
  BY <1>1, <1>5
<1>8. Stays(t) /\ task'[t] = s3
  BY <1>1, <1>2, <1>6, <1>7, Staying, Zenon
<1> QED BY <1>5, <1>8

LEMMA Sealing ==
    ASSUME TypeFacts, NEW t \in Tasks, SealEvidence(t)
    PROVE  /\ Stays(t)
           /\ task'[t].stage = "receipt" /\ task'[t].phase = "loop"
           /\ task'[t].engine = task[t].engine /\ task'[t].row = task[t].row
           /\ \A e \in Engines : task'[t].before[e] = receipt[e].status
<1> DEFINE old == task[t]
           seen == [e \in Engines |-> receipt[e].status]
           s1 == [old EXCEPT !.phase = "loop"]
           s2 == [s1 EXCEPT !.before = seen]
<1>1. old # Idle /\ old \in Task /\ old.stage = "receipt"
  BY DEF SealEvidence, At, TypeFacts, TypeOK
<1>2. seen \in [Engines -> ReceiptStatus] /\ \A e \in Engines : seen[e] = receipt[e].status
  BY DEF TypeFacts, TypeOK, Receipt
<1>3. task' = [task EXCEPT ![t] = s2]
  <2>1. task' = [[task EXCEPT ![t].phase = "loop"] EXCEPT ![t].before = seen]
    BY Zenon DEF SealEvidence
  <2> HIDE DEF seen
  <2> QED BY <1>1, <2>1 DEF TypeFacts, TypeOK, Task
<1>4. /\ s1 \in Task /\ s1.phase = "loop" /\ s1.stage = "receipt" /\ s1.kind = old.kind
      /\ s1.engine = old.engine /\ s1.row = old.row
  BY <1>1 DEF Task
<1> HIDE DEF s1, seen
<1>5. /\ s2 \in Task /\ s2.phase = "loop" /\ s2.stage = "receipt" /\ s2.kind = old.kind
      /\ s2.engine = old.engine /\ s2.row = old.row /\ s2.before = seen
  BY <1>2, <1>4 DEF Task
<1> HIDE DEF s2
<1>6. UNCHANGED job
  BY DEF SealEvidence
<1>7. Stays(t) /\ task'[t] = s2
  <2>1. task[t] # Idle /\ s2.kind = task[t].kind /\ s2.stage = task[t].stage
    BY <1>1, <1>5
  <2> QED BY <1>3, <1>5, <1>6, <2>1, Staying, Zenon
<1> QED BY <1>2, <1>5, <1>7

(* An administrator's request for a receipt.                               *)
LEMMA Asking ==
    ASSUME TypeFacts, NEW t \in Tasks, StartIssue(t)
    PROVE  /\ Alone(t) /\ Fits(task'[t]) /\ ~JobSucceeds /\ requests' \in 0 .. MaxRequests
           /\ task'[t].kind = "issue" /\ task'[t].stage = "receipt" /\ task'[t].phase = "begin"
           /\ task'[t].engine = Newest /\ task'[t].row = result[Newest]
<1> DEFINE new == NewTask("issue", "receipt")
           s1 == [new EXCEPT !.engine = Newest]
           s2 == [s1 EXCEPT !.row = result[Newest]]
<1>1. /\ new \in Task
      /\ new.kind = "issue" /\ new.stage = "receipt" /\ new.phase = "begin"
  BY ANewTask, KindsAre DEF NewTask, Stages
<1>2. task' = [task EXCEPT ![t] = s2]
  BY Zenon DEF StartIssue
<1>3. result[Newest] \in Result
  BY EngineIsOne DEF TypeFacts, TypeOK
<1> HIDE DEF new
<1>4. /\ s1 \in Task /\ s1.kind = "issue" /\ s1.stage = "receipt" /\ s1.phase = "begin"
      /\ s1.engine = Newest
  BY <1>1, EngineIsOne DEF Task
<1> HIDE DEF s1
<1>5. /\ s2 \in Task /\ s2.kind = "issue" /\ s2.stage = "receipt" /\ s2.phase = "begin"
      /\ s2.engine = Newest /\ s2.row = result[Newest]
  BY <1>3, <1>4 DEF Task
<1> HIDE DEF s2
<1>6. Fits(s2)
  BY <1>5 DEF Fits, StagesOf
<1>7. requests' \in 0 .. MaxRequests
  BY PipelineAssumption DEF StartIssue, Request, TypeFacts, TypeOK
<1> QED BY <1>2, <1>5, <1>6, <1>7, Taking
        DEF StartIssue, TypeFacts, TypeOK, Alone, JobSucceeds, Jobs, QueuedHasAttempts

-----------------------------------------------------------------------------
(* What holds however calculations and issues overlap.                     *)

(* A task that issues a receipt does so for a completed result, a job for  *)
(* the security engine's; and of the receipts that it read, none has gone  *)
(* and none has become current again.                                      *)
Issuing(t) ==
    task[t] # Idle /\ task[t].stage = "receipt" =>
        /\ result[task[t].engine].status = "COMPLETED"
        /\ task[t].kind = "job" => task[t].engine = Security
        /\ task[t].phase = "loop" =>
             /\ task[t].before[task[t].engine] = "none"
             /\ \A e \in Engines :
                  /\ task[t].before[e] # "none" => Exists(e)
                  /\ receipt[e].status = "ISSUED" => task[t].before[e] \in {"none", "ISSUED"}

OneIssued ==
    \A e, f \in Engines : receipt[e].status = "ISSUED" /\ receipt[f].status = "ISSUED" => e = f

PipelineInv ==
    TypeFacts /\ (\A t \in Tasks : Issuing(t)) /\ OneIssued /\ SuccessIsSealed

(* Completed results stay completed, receipts stay, and only a new receipt *)
(* becomes current.                                                        *)
Forward ==
    \A e \in Engines :
        /\ result[e].status = "COMPLETED" => result'[e].status = "COMPLETED"
        /\ Exists(e) => Exists(e)'
        /\ receipt'[e].status = "ISSUED" => receipt[e].status \in {"none", "ISSUED"}

(* A step of one thread, and the receipts it leaves.                       *)
Good(t) ==
    /\ Alone(t) /\ AnalysesTyped'
    /\ result' \in [Engines -> Result] /\ receipt' \in [Engines -> Receipt]
    /\ task'[t] # Idle => Fits(task'[t])
    /\ Issuing(t)'
    /\ Forward /\ OneIssued'
    /\ JobSucceeds => result'[Security].status = "COMPLETED" /\ Exists(Security)'

LEMMA GoodKeepsInv ==
    ASSUME PipelineInv, NEW t \in Tasks, Good(t)
    PROVE  PipelineInv'
<1>1. TypeOK'
  BY DEF Good, Alone, AnalysesTyped, TypeOK, Jobs
<1>2. StageFits' /\ QueuedHasAttempts'
  BY DEF PipelineInv, TypeFacts, TypeOK, Good, Alone, StageFits, Fits
<1>3. ASSUME NEW u \in Tasks PROVE Issuing(u)'
  <2>1. CASE u = t
    BY <2>1 DEF Good
  <2>2. CASE u # t /\ task[u] # Idle
    <3>1. task'[u] = task[u] /\ task[u] \in Task
      BY <2>2 DEF Good, Alone, PipelineInv, TypeFacts, TypeOK
    <3>2. Issuing(u) /\ Forward /\ task[u].engine \in Engines
      BY <3>1 DEF PipelineInv, Good, Task
    <3>3. receipt \in [Engines -> Receipt]
      BY DEF PipelineInv, TypeFacts, TypeOK
    <3> QED BY <3>1, <3>2, <3>3 DEF Issuing, Forward, Exists
  <2>3. CASE u # t /\ task[u] = Idle
    BY <2>3 DEF Good, Alone, Issuing
  <2> QED BY <2>1, <2>2, <2>3
<1>4. OneIssued'
  BY DEF Good
<1>5. SuccessIsSealed'
  BY ResultTypes DEF PipelineInv, SuccessIsSealed, Good, Forward, JobSucceeds
<1> QED BY <1>1, <1>2, <1>3, <1>4, <1>5 DEF PipelineInv, TypeFacts

LEMMA StandingForward ==
    ASSUME PipelineInv, UNCHANGED <<result, receipt>>
    PROVE  /\ Forward /\ OneIssued'
           /\ result' \in [Engines -> Result] /\ receipt' \in [Engines -> Receipt]
BY DEF PipelineInv, TypeFacts, TypeOK, Forward, OneIssued, Exists

LEMMA QuietIsGood ==
    ASSUME PipelineInv, NEW t \in Tasks, Quiet(t)
    PROVE  Good(t)
BY StandingForward DEF Quiet, Good, Issuing, Elsewhere

LEMMA StallIsGood ==
    ASSUME PipelineInv, NEW t \in Tasks, LoseLease(t)
    PROVE  Good(t)
<1>1. TypeFacts /\ Issuing(t) /\ task[t] # Idle /\ task[t] \in Task
  BY DEF PipelineInv, LoseLease, TypeFacts, TypeOK
<1>2. /\ Stays(t) /\ task'[t] = [task[t] EXCEPT !.stalled = TRUE]
      /\ AnalysesTyped' /\ Fits(task'[t]) /\ UNCHANGED <<result, receipt>>
  BY <1>1, Stalling
<1>3. /\ task'[t].stage = task[t].stage /\ task'[t].kind = task[t].kind
      /\ task'[t].phase = task[t].phase /\ task'[t].engine = task[t].engine
      /\ task'[t].before = task[t].before
  <2>1. PICK yes \in BOOLEAN : yes = TRUE
    OBVIOUS
  <2>2. task'[t] = [task[t] EXCEPT !.stalled = yes]
    BY <1>2, <2>1
  <2> QED BY <1>1, <2>2 DEF Task
<1>4. Issuing(t)'
  BY <1>1, <1>2, <1>3 DEF Issuing, Exists
<1> QED BY <1>2, <1>4, StandingForward DEF Good, Stays

LEMMA CalculationIsGood ==
    ASSUME PipelineInv, NEW t \in Tasks,
           ReturnCompleted(t) \/ LoadResult(t) \/ Wait(t) \/ Decide(t)
    PROVE  Good(t)
<1>1. /\ TypeFacts /\ Issuing(t) /\ task[t] # Idle /\ task[t] \in Task
      /\ task[t].stage = "verdict" /\ AnalysesTyped'
  BY DEF PipelineInv, ReturnCompleted, LoadResult, Wait, Decide, At, TypeFacts, TypeOK, AnalysesTyped
<1>2. CASE ReturnCompleted(t)
  <2>1. result[Engine] \in Result /\ Engine \in Engines
    BY <1>1, EngineIsOne DEF TypeFacts, TypeOK
  <2>2. Conclude(t, Engine, result[Engine]) /\ UNCHANGED <<result, receipt>>
        /\ result[Engine].status = "COMPLETED"
    BY <1>2 DEF ReturnCompleted
  <2>3. /\ Alone(t) /\ Fresh(t) /\ ~JobSucceeds
        /\ task'[t] # Idle /\ task'[t].stage = "receipt" =>
             task'[t].engine = Engine /\ (task'[t].kind = "job" => Engine = Security)
    BY <1>1, <2>1, <2>2, Concluding
  <2>4. Issuing(t)'
    BY <2>2, <2>3 DEF Issuing, Fresh
  <2> QED BY <1>1, <2>2, <2>3, <2>4, StandingForward DEF Good, Fresh, Fits
<1>3. CASE LoadResult(t)
  <2>1. /\ Stays(t) /\ task'[t].stage = "verdict" /\ task'[t].phase = "loop"
    BY <1>1, <1>3, Loading
  <2>2. UNCHANGED <<result, receipt>>
    BY <1>3 DEF LoadResult
  <2>3. Fits(task'[t]) /\ Issuing(t)'
    BY <1>1, <2>1 DEF Fits, Stays, Issuing, TypeFacts, StageFits
  <2> QED BY <1>1, <2>1, <2>2, <2>3, StandingForward DEF Good, Stays
<1>4. CASE Wait(t)
  <2> DEFINE own == task[t].engine
  <2>1. Alone(t) /\ Fresh(t) /\ ~JobSucceeds
        /\ (task'[t] # Idle => task'[t].stage # "receipt")
    BY <1>1, <1>4, Raising DEF Wait
  <2>2. own \in Engines /\ result \in [Engines -> Result] /\ receipt \in [Engines -> Receipt]
    BY <1>1 DEF Task, TypeFacts, TypeOK
  <2>3. receipt' = receipt
    BY <1>4 DEF Wait
  <2>4. CASE result' = result
    BY <1>1, <2>1, <2>3, <2>4, StandingForward DEF Good, Fresh, Fits, Issuing
  <2>5. CASE result[own] = NoResult
             /\ result' = [result EXCEPT ![own].status = "WAITING_FOR_SIGNALS"]
    <3>1. result' \in [Engines -> Result] /\ result[own].status # "COMPLETED"
          /\ \A e \in Engines : e # own => result'[e] = result[e]
      BY <2>2, <2>5 DEF Result, NoResult
    <3>2. Forward /\ OneIssued'
      BY <2>3, <3>1 DEF Forward, OneIssued, Exists, PipelineInv
    <3> QED BY <1>1, <2>1, <2>2, <2>3, <3>1, <3>2 DEF Good, Fresh, Fits, Issuing
  <2> QED BY <1>4, <2>4, <2>5 DEF Wait, Inserted
<1>5. CASE Decide(t)
  <2> DEFINE own == task[t].engine
             decided == [status |-> "COMPLETED", decision |-> Decision]
  <2>1. own \in Engines /\ result \in [Engines -> Result] /\ receipt \in [Engines -> Receipt]
    BY <1>1 DEF Task, TypeFacts, TypeOK
  <2>2. decided \in Result /\ decided.status = "COMPLETED"
    BY DEF Decision, Result
  <2>3. Conclude(t, own, decided) /\ result' = [result EXCEPT ![own] = decided]
        /\ receipt' = receipt
    BY <1>5 DEF Decide
  <2> HIDE DEF decided
  <2>4. /\ Alone(t) /\ Fresh(t) /\ ~JobSucceeds
        /\ task'[t] # Idle /\ task'[t].stage = "receipt" =>
             task'[t].engine = own /\ (task'[t].kind = "job" => own = Security)
    BY <1>1, <2>1, <2>2, <2>3, Concluding
  <2>5. result' \in [Engines -> Result] /\ result'[own].status = "COMPLETED"
        /\ \A e \in Engines : e # own => result'[e] = result[e]
    BY <2>1, <2>2, <2>3
  <2>6. Forward /\ OneIssued'
    BY <2>3, <2>5 DEF Forward, OneIssued, Exists, PipelineInv
  <2>7. Issuing(t)'
    BY <2>4, <2>5 DEF Issuing, Fresh
  <2> QED BY <1>1, <2>1, <2>3, <2>4, <2>5, <2>6, <2>7 DEF Good, Fresh, Fits
<1> QED BY <1>2, <1>3, <1>4, <1>5

(* The receipt issued is the only current one: every other that could be   *)
(* was current when the thread looked, so it is found and superseded.      *)
LEMMA IssuanceIsGood ==
    ASSUME PipelineInv, NEW t \in Tasks,
           KeepReceipt(t) \/ SealEvidence(t) \/ IssueReceipt(t)
    PROVE  Good(t)
<1>1. /\ TypeFacts /\ Issuing(t) /\ task[t] # Idle /\ task[t] \in Task
      /\ task[t].stage = "receipt" /\ AnalysesTyped'
  BY DEF PipelineInv, KeepReceipt, SealEvidence, IssueReceipt, At, TypeFacts, TypeOK, AnalysesTyped
<1>2. task[t].engine \in Engines /\ receipt \in [Engines -> Receipt]
  BY <1>1 DEF Task, TypeFacts, TypeOK
<1>3. CASE KeepReceipt(t)
  <2>1. /\ Alone(t) /\ Fresh(t)
        /\ task'[t] # Idle => task'[t].stage # "receipt"
        /\ JobSucceeds => task[t].kind = "job"
    BY <1>1, <1>3, Proceeding DEF KeepReceipt
  <2>2. UNCHANGED <<result, receipt>> /\ Exists(task[t].engine)
    BY <1>3 DEF KeepReceipt
  <2>3. JobSucceeds => result'[Security].status = "COMPLETED" /\ Exists(Security)'
    BY <1>1, <2>1, <2>2 DEF Issuing, Exists
  <2> QED BY <1>1, <2>1, <2>2, <2>3, StandingForward DEF Good, Fresh, Fits, Issuing
<1>4. CASE SealEvidence(t)
  <2>1. /\ Stays(t)
        /\ task'[t].stage = "receipt" /\ task'[t].phase = "loop"
        /\ task'[t].engine = task[t].engine
        /\ \A e \in Engines : task'[t].before[e] = receipt[e].status
    BY <1>1, <1>4, Sealing
  <2>2. UNCHANGED <<result, receipt>> /\ ~Exists(task[t].engine)
    BY <1>4 DEF SealEvidence
  <2>3. Issuing(t)'
    BY <1>1, <1>2, <2>1, <2>2 DEF Issuing, Exists, Stays
  <2>4. Fits(task'[t])
    BY <1>1, <2>1 DEF Fits, Stays, TypeFacts, StageFits
  <2> QED BY <1>1, <2>1, <2>2, <2>3, <2>4, StandingForward DEF Good, Stays
<1>5. CASE IssueReceipt(t)
  <2> DEFINE own == task[t].engine
             issued == [status |-> "ISSUED", decision |-> task[t].row.decision]
  <2>1. /\ Alone(t) /\ Fresh(t)
        /\ task'[t] # Idle => task'[t].stage # "receipt"
        /\ JobSucceeds => task[t].kind = "job"
    BY <1>1, <1>5, Proceeding DEF IssueReceipt
  <2>2. PICK previous \in Previous(t) :
          receipt' = [e \in Engines |->
            IF e = own THEN issued
            ELSE IF e \in previous THEN [receipt[e] EXCEPT !.status = "SUPERSEDED"]
            ELSE receipt[e]]
    BY <1>5 DEF IssueReceipt
  <2>3. issued \in Receipt /\ issued.status = "ISSUED"
    BY <1>1 DEF Task, Result, Receipt, ReceiptStatus
  <2> HIDE DEF issued
  <2>4. \A e \in Engines : [receipt[e] EXCEPT !.status = "SUPERSEDED"] \in Receipt
          /\ [receipt[e] EXCEPT !.status = "SUPERSEDED"].status = "SUPERSEDED"
    BY <1>2 DEF Receipt, ReceiptStatus
  <2>5. /\ receipt' \in [Engines -> Receipt] /\ result' = result
        /\ receipt'[own] = issued
    BY <1>2, <1>5, <2>2, <2>3, <2>4 DEF IssueReceipt
  <2>6. ~Exists(own)
    BY <1>1, <1>2, <1>5 DEF IssueReceipt, At, Taken, Issuing
  <2>7. ASSUME NEW e \in Engines, e # own
        PROVE  /\ receipt'[e].status # "ISSUED"
               /\ Exists(e) => Exists(e)'
    <3>1. CASE receipt[e].status = "ISSUED"
      <4>1. task[t].before[e] = "ISSUED"
        BY <1>1, <1>5, <3>1 DEF IssueReceipt, At, Taken, Issuing, Exists
      <4>2. e \in previous
        BY <3>1, <4>1 DEF Previous
      <4> QED BY <2>2, <2>4, <2>7, <4>2 DEF Exists
    <3>2. CASE receipt[e].status # "ISSUED"
      BY <2>2, <2>4, <2>7, <3>2 DEF Exists
    <3> QED BY <3>1, <3>2
  <2>8. OneIssued'
    BY <2>7 DEF OneIssued
  <2>9. Forward
    BY <1>2, <2>3, <2>5, <2>6, <2>7 DEF Forward, Exists
  <2>10. JobSucceeds => result'[Security].status = "COMPLETED" /\ Exists(Security)'
    BY <1>1, <2>1, <2>3, <2>5 DEF Issuing, Exists
  <2>11. result' \in [Engines -> Result]
    BY <1>1, <2>5 DEF TypeFacts, TypeOK
  <2> QED BY <1>1, <2>1, <2>5, <2>8, <2>9, <2>10, <2>11 DEF Good, Fresh, Fits, Issuing
<1> QED BY <1>3, <1>4, <1>5

LEMMA AskingIsGood ==
    ASSUME PipelineInv, NEW t \in Tasks, StartIssue(t)
    PROVE  Good(t)
<1>1. /\ Alone(t) /\ Fits(task'[t]) /\ ~JobSucceeds /\ requests' \in 0 .. MaxRequests
      /\ task'[t].kind = "issue" /\ task'[t].stage = "receipt" /\ task'[t].phase = "begin"
      /\ task'[t].engine = Newest
  BY Asking DEF PipelineInv
<1>2. UNCHANGED <<visual, fusion, advanced, result, receipt>> /\ result[Newest].status = "COMPLETED"
  BY DEF StartIssue
<1>3. Issuing(t)'
  BY <1>1, <1>2 DEF Issuing
<1>4. AnalysesTyped'
  BY <1>1, <1>2 DEF PipelineInv, TypeFacts, TypeOK, AnalysesTyped
<1> QED BY <1>1, <1>2, <1>3, <1>4, StandingForward DEF Good

(* Routes that write without a thread of the pipeline.                     *)
LEMMA RoutesKeepInv ==
    ASSUME PipelineInv,
           \/ \E s \in {"security", "signals"} : AdvanceByRoute(s)
           \/ \E e \in Engines : Revoke(e)
    PROVE  PipelineInv' /\ UNCHANGED <<result, task, job>>
<1> USE DEF PipelineInv, TypeFacts
<1>1. requests' \in 0 .. MaxRequests
  BY PipelineAssumption DEF AdvanceByRoute, Revoke, Request, TypeOK
<1>2. CASE \E s \in {"security", "signals"} : AdvanceByRoute(s)
  <2>1. advanced' \subseteq {"security", "signals"}
        /\ UNCHANGED <<visual, fusion, result, receipt, job, task>>
    BY <1>2 DEF AdvanceByRoute, TypeOK
  <2>2. TypeOK' /\ StageFits' /\ QueuedHasAttempts' /\ OneIssued' /\ SuccessIsSealed'
    BY <1>1, <2>1 DEF TypeOK, StageFits, QueuedHasAttempts, OneIssued, SuccessIsSealed, Exists
  <2>3. \A t \in Tasks : Issuing(t)'
    BY <2>1 DEF Issuing, Exists
  <2> QED BY <2>1, <2>2, <2>3
<1>3. ASSUME NEW r \in Engines, Revoke(r) PROVE PipelineInv' /\ UNCHANGED <<result, task, job>>
  <2>1. /\ UNCHANGED <<visual, fusion, advanced, result, job, task>>
        /\ receipt[r].status \in {"ISSUED", "SUPERSEDED"}
        /\ receipt' = [receipt EXCEPT ![r].status = "REVOKED"]
    BY <1>3 DEF Revoke
  <2>2. /\ receipt' \in [Engines -> Receipt] /\ receipt'[r].status = "REVOKED"
        /\ \A e \in Engines : e # r => receipt'[e] = receipt[e]
    BY <2>1 DEF TypeOK, Receipt, ReceiptStatus
  <2>3. \A e \in Engines : /\ Exists(e)' <=> Exists(e)
                           /\ receipt'[e].status = "ISSUED" => receipt[e].status = "ISSUED"
    BY <2>1, <2>2 DEF Exists
  <2>4. TypeOK' /\ StageFits' /\ QueuedHasAttempts' /\ OneIssued' /\ SuccessIsSealed'
    BY <1>1, <2>1, <2>2, <2>3, ResultTypes
       DEF TypeOK, StageFits, QueuedHasAttempts, OneIssued, SuccessIsSealed
  <2>5. \A t \in Tasks : Issuing(t)'
    BY <2>1, <2>3 DEF Issuing
  <2> QED BY <2>1, <2>4, <2>5
<1> QED BY <1>2, <1>3

LEMMA ThreadIsGood ==
    ASSUME PipelineInv, NEW t \in Tasks,
           \/ StartJob(t) \/ Crash(t) \/ LoseLease(t) \/ StartIssue(t)
           \/ \E kind \in DOMAIN FirstStage : StartRequest(t, kind)
           \/ Analysis(t) \/ Calculation(t) \/ Issuance(t)
    PROVE  Good(t)
<1> USE DEF PipelineInv
<1>1. CASE StartJob(t) \/ \E kind \in DOMAIN FirstStage : StartRequest(t, kind)
  BY <1>1, StartIsQuiet, QuietIsGood
<1>2. CASE Crash(t) \/ FailStage(t) \/ FailVerdict(t) \/ FailReceipt(t)
  BY <1>2, FailureIsQuiet, QuietIsGood
<1>3. CASE LoseLease(t)
  BY <1>3, StallIsGood
<1>4. CASE StartIssue(t)
  BY <1>4, AskingIsGood
<1>5. CASE Analysis(t) /\ ~FailStage(t)
  BY <1>5, VisualIsQuiet, FusionIsQuiet, AdvanceIsQuiet, QuietIsGood DEF Analysis
<1>6. CASE Calculation(t) /\ ~FailVerdict(t)
  BY <1>6, CalculationIsGood DEF Calculation
<1>7. CASE Issuance(t) /\ ~FailReceipt(t)
  BY <1>7, IssuanceIsGood DEF Issuance
<1> QED BY <1>1, <1>2, <1>3, <1>4, <1>5, <1>6, <1>7

(* The disjuncts of Next: a thread's step or a route's.                    *)
LEMMA NextIsOfOne ==
    ASSUME Next
    PROVE  \/ \E t \in Tasks :
                \/ StartJob(t) \/ Crash(t) \/ LoseLease(t) \/ StartIssue(t)
                \/ \E kind \in DOMAIN FirstStage : StartRequest(t, kind)
                \/ Analysis(t) \/ Calculation(t) \/ Issuance(t)
           \/ \E s \in {"security", "signals"} : AdvanceByRoute(s)
           \/ \E e \in Engines : Revoke(e)
BY Zenon DEF Next, Administration

LEMMA InitKeepsInv ==
    ASSUME Init
    PROVE  PipelineInv
<1>1. TypeOK
  BY PipelineAssumption
     DEF Init, TypeOK, VisualStatus, FusionStatus, Result, NoResult, Receipt, NoReceipt, ReceiptStatus
<1> QED BY <1>1, PipelineAssumption
        DEF Init, PipelineInv, TypeFacts, StageFits, QueuedHasAttempts, Issuing, OneIssued,
            SuccessIsSealed, NoReceipt

LEMMA PipelineHolds == Spec => []PipelineInv
<1>1. Init => PipelineInv
  BY InitKeepsInv
<1>2. PipelineInv /\ [Next]_vars => PipelineInv'
  <2> SUFFICES ASSUME PipelineInv, [Next]_vars PROVE PipelineInv'
    OBVIOUS
  <2>1. CASE UNCHANGED vars
    BY <2>1 DEF vars, PipelineInv, TypeFacts, TypeOK, StageFits, QueuedHasAttempts, Issuing,
                OneIssued, SuccessIsSealed, Exists
  <2>2. CASE Next
    BY <2>2, NextIsOfOne, ThreadIsGood, GoodKeepsInv, RoutesKeepInv
  <2> QED BY <2>1, <2>2
<1> QED BY <1>1, <1>2, PTL DEF Spec

(* The tables, the job and the tasks are of their types.                   *)
THEOREM TypeCorrect == Spec => []TypeOK
<1>1. PipelineInv => TypeOK
  BY DEF PipelineInv, TypeFacts
<1> QED BY <1>1, PipelineHolds, PTL

(* At most one receipt of a session is current, however issues,            *)
(* revocations and calculations overlap: issue_automated_receipt.          *)
THEOREM OneReceiptIsCurrent == Spec => []OneCurrentReceipt
<1>1. PipelineInv => OneCurrentReceipt
  <2> SUFFICES ASSUME OneIssued PROVE OneCurrentReceipt
    BY DEF PipelineInv
  <2> DEFINE current == {e \in Engines : receipt[e].status = "ISSUED"}
  <2>1. CASE current = {}
    BY <2>1, FS_EmptySet DEF OneCurrentReceipt
  <2>2. CASE current # {}
    <3>1. PICK e \in current : TRUE
      BY <2>2
    <3>2. current = {e}
      BY <3>1 DEF OneIssued
    <3>3. Cardinality(current) = 1
      BY <3>2, FS_Singleton
    <3> QED BY <3>3 DEF OneCurrentReceipt
  <2> QED BY <2>1, <2>2
<1> QED BY <1>1, PipelineHolds, PTL

(* A job that succeeded has left the security engine's decision and a      *)
(* receipt for it: run_verification_pipeline.                              *)
THEOREM SuccessIsAlwaysSealed == Spec => []SuccessIsSealed
<1>1. PipelineInv => SuccessIsSealed
  BY DEF PipelineInv
<1> QED BY <1>1, PipelineHolds, PTL

-----------------------------------------------------------------------------
(* What holds while no two calculations overlap: a calculation works on the*)
(* row as it is, and it is not completed; what is to be signed is what the *)
(* result still shows.  Two that overlap may each decide on the row.       *)

Calculating(t) == task[t] # Idle /\ task[t].stage = "verdict" /\ task[t].phase = "loop"

WorksOnRow(t) ==
    /\ Calculating(t) =>
         task[t].row = result[task[t].engine] /\ task[t].row.status # "COMPLETED"
    /\ task[t] # Idle /\ task[t].stage = "receipt" => task[t].row = result[task[t].engine]

SealInv ==
    /\ \A t, u \in Tasks : Calculating(t) /\ Calculating(u) => t = u
    /\ \A t \in Tasks : WorksOnRow(t)
    /\ ReceiptSealsDecision

Immutable == \A e \in Engines : result[e].status = "COMPLETED" => result'[e] = result[e]

SealGood(t) ==
    /\ Alone(t) /\ Immutable
    /\ result' = result \/ Calculating(t)
    /\ Calculating(t)' => Calculating(t) \/ \A u \in Tasks : ~Calculating(u)
    /\ WorksOnRow(t)'
    /\ ReceiptSealsDecision'

LEMMA SealGoodKeeps ==
    ASSUME PipelineInv, SealInv, NEW t \in Tasks, SealGood(t)
    PROVE  SealInv'
<1>1. ASSUME NEW u \in Tasks, u # t
      PROVE  task'[u] = task[u] /\ (Calculating(u)' <=> Calculating(u))
  BY <1>1 DEF SealGood, Alone, Calculating
<1>2. \A u, w \in Tasks : Calculating(u)' /\ Calculating(w)' => u = w
  BY <1>1 DEF SealGood, SealInv
<1>3. ASSUME NEW u \in Tasks PROVE WorksOnRow(u)'
  <2>1. CASE u = t
    BY <2>1 DEF SealGood
  <2>2. CASE u # t /\ task[u] # Idle
    <3>1. task'[u] = task[u] /\ task[u].engine \in Engines /\ WorksOnRow(u) /\ Issuing(u)
      BY <1>1, <2>2 DEF PipelineInv, TypeFacts, TypeOK, SealInv, Task
    <3>2. Calculating(u) => result' = result
      BY <2>2 DEF SealGood, SealInv
    <3>3. task[u].stage = "receipt" => result'[task[u].engine] = result[task[u].engine]
      BY <2>2, <3>1 DEF SealGood, Immutable, Issuing
    <3> QED BY <1>1, <2>2, <3>1, <3>2, <3>3 DEF WorksOnRow, Calculating
  <2>3. CASE u # t /\ task[u] = Idle
    BY <1>1, <2>3 DEF WorksOnRow, Calculating
  <2> QED BY <2>1, <2>2, <2>3
<1> QED BY <1>2, <1>3 DEF SealGood, SealInv

LEMMA StandingSeals ==
    ASSUME PipelineInv, SealInv, Immutable, UNCHANGED receipt
    PROVE  ReceiptSealsDecision'
BY DEF SealInv, ReceiptSealsDecision, Immutable, Exists

LEMMA QuietSeals ==
    ASSUME PipelineInv, SealInv, NEW t \in Tasks, Quiet(t)
    PROVE  SealGood(t)
<1>1. Immutable
  BY DEF Quiet, Immutable
<1>2. task'[t] # Idle => Elsewhere(task'[t])
  BY DEF Quiet
<1>3. ~Calculating(t)' /\ WorksOnRow(t)'
  BY <1>2 DEF Calculating, WorksOnRow, Elsewhere
<1> QED BY <1>1, <1>3, StandingSeals DEF Quiet, SealGood

LEMMA StallSeals ==
    ASSUME PipelineInv, SealInv, NEW t \in Tasks, LoseLease(t)
    PROVE  SealGood(t)
<1>1. TypeFacts /\ WorksOnRow(t) /\ task[t] # Idle /\ task[t] \in Task
  BY DEF PipelineInv, SealInv, LoseLease, TypeFacts, TypeOK
<1>2. /\ Stays(t) /\ task'[t] = [task[t] EXCEPT !.stalled = TRUE]
      /\ UNCHANGED <<result, receipt>>
  BY <1>1, Stalling
<1>3. /\ task'[t].stage = task[t].stage /\ task'[t].row = task[t].row
      /\ task'[t].phase = task[t].phase /\ task'[t].engine = task[t].engine
  <2>1. PICK yes \in BOOLEAN : yes = TRUE
    OBVIOUS
  <2>2. task'[t] = [task[t] EXCEPT !.stalled = yes]
    BY <1>2, <2>1
  <2> QED BY <1>1, <2>2 DEF Task
<1>4. Immutable /\ WorksOnRow(t)' /\ (Calculating(t)' => Calculating(t))
  BY <1>1, <1>2, <1>3 DEF Immutable, WorksOnRow, Calculating
<1> QED BY <1>2, <1>4, StandingSeals DEF SealGood, Stays

(* A row is loaded only when nobody else works on one.                     *)
LEMMA NobodyCalculates ==
    ASSUME TypeFacts, MaxCalculations <= 1, NEW t \in Tasks, LoadResult(t)
    PROVE  \A u \in Tasks : ~Calculating(u)
<1> DEFINE working == {u \in Tasks : At(u, "verdict", "loop")}
<1>1. IsFiniteSet(working)
  BY PipelineAssumption, FS_Subset
<1>2. Cardinality(working) \in Nat /\ Cardinality(working) < MaxCalculations
  BY <1>1, FS_CardinalityType DEF LoadResult, Calculations
<1>3. Cardinality(working) = 0
  BY <1>2, PipelineAssumption
<1>4. working = {}
  BY <1>1, <1>3, FS_EmptySet
<1> QED BY <1>4 DEF At, Calculating

LEMMA CalculationSeals ==
    ASSUME PipelineInv, SealInv, MaxCalculations <= 1, NEW t \in Tasks,
           ReturnCompleted(t) \/ LoadResult(t) \/ Wait(t) \/ Decide(t)
    PROVE  SealGood(t)
<1>1. /\ TypeFacts /\ WorksOnRow(t) /\ task[t] # Idle /\ task[t] \in Task
      /\ task[t].stage = "verdict"
  BY DEF PipelineInv, SealInv, ReturnCompleted, LoadResult, Wait, Decide, At, TypeFacts, TypeOK
<1>2. CASE ReturnCompleted(t)
  <2>1. result[Engine] \in Result /\ Engine \in Engines
    BY <1>1, EngineIsOne DEF TypeFacts, TypeOK
  <2>2. Conclude(t, Engine, result[Engine]) /\ UNCHANGED <<result, receipt>>
    BY <1>2 DEF ReturnCompleted
  <2>3. /\ Alone(t) /\ Fresh(t)
        /\ task'[t] # Idle /\ task'[t].stage = "receipt" =>
             task'[t].engine = Engine /\ task'[t].row = result[Engine]
    BY <1>1, <2>1, <2>2, Concluding
  <2>4. WorksOnRow(t)' /\ ~Calculating(t)' /\ Immutable
    BY <2>2, <2>3 DEF WorksOnRow, Calculating, Fresh, Immutable
  <2> QED BY <2>2, <2>3, <2>4, StandingSeals DEF SealGood
<1>3. CASE LoadResult(t)
  <2>1. /\ Stays(t) /\ task'[t].stage = "verdict" /\ task'[t].phase = "loop"
        /\ task'[t].engine = Engine /\ task'[t].row = result[Engine]
    BY <1>1, <1>3, Loading
  <2>2. UNCHANGED <<result, receipt>> /\ result[Engine].status # "COMPLETED"
    BY <1>3 DEF LoadResult
  <2>3. WorksOnRow(t)' /\ Immutable
    BY <2>1, <2>2 DEF WorksOnRow, Calculating, Immutable
  <2> QED BY <1>1, <1>3, <2>1, <2>2, <2>3, StandingSeals, NobodyCalculates DEF SealGood, Stays
<1>4. CASE Wait(t)
  <2> DEFINE own == task[t].engine
  <2>1. Alone(t) /\ Fresh(t)
        /\ (task'[t] # Idle => task'[t].stage # "receipt")
    BY <1>1, <1>4, Raising DEF Wait
  <2>2. own \in Engines /\ result \in [Engines -> Result]
    BY <1>1 DEF Task, TypeFacts, TypeOK
  <2>3. receipt' = receipt /\ Calculating(t)
    BY <1>4 DEF Wait, At, Calculating
  <2>4. result' = result \/ result' = [result EXCEPT ![own].status = "WAITING_FOR_SIGNALS"]
    BY <1>4 DEF Wait
  <2>5. result[own].status # "COMPLETED"
    BY <1>1, <2>3 DEF WorksOnRow
  <2>6. Immutable
    BY <2>2, <2>4, <2>5 DEF Immutable
  <2>7. WorksOnRow(t)' /\ ~Calculating(t)'
    BY <2>1 DEF WorksOnRow, Calculating, Fresh
  <2> QED BY <2>1, <2>3, <2>6, <2>7, StandingSeals DEF SealGood
<1>5. CASE Decide(t)
  <2> DEFINE own == task[t].engine
             decided == [status |-> "COMPLETED", decision |-> Decision]
  <2>1. own \in Engines /\ result \in [Engines -> Result]
    BY <1>1 DEF Task, TypeFacts, TypeOK
  <2>2. decided \in Result
    BY DEF Decision, Result
  <2>3. Conclude(t, own, decided) /\ result' = [result EXCEPT ![own] = decided]
        /\ receipt' = receipt /\ Calculating(t)
    BY <1>5 DEF Decide, At, Calculating
  <2> HIDE DEF decided
  <2>4. /\ Alone(t) /\ Fresh(t)
        /\ task'[t] # Idle /\ task'[t].stage = "receipt" =>
             task'[t].engine = own /\ task'[t].row = decided
    BY <1>1, <2>1, <2>2, <2>3, Concluding
  <2>5. result[own].status # "COMPLETED"
    BY <1>1, <2>3 DEF WorksOnRow
  <2>6. Immutable
    BY <2>1, <2>3, <2>5 DEF Immutable
  <2>7. WorksOnRow(t)' /\ ~Calculating(t)'
    BY <2>1, <2>3, <2>4 DEF WorksOnRow, Calculating, Fresh
  <2> QED BY <2>3, <2>4, <2>6, <2>7, StandingSeals DEF SealGood
<1> QED BY <1>2, <1>3, <1>4, <1>5

LEMMA IssuanceSeals ==
    ASSUME PipelineInv, SealInv, NEW t \in Tasks,
           KeepReceipt(t) \/ SealEvidence(t) \/ IssueReceipt(t)
    PROVE  SealGood(t)
<1>1. /\ TypeFacts /\ WorksOnRow(t) /\ Issuing(t) /\ task[t] # Idle /\ task[t] \in Task
      /\ task[t].stage = "receipt"
  BY DEF PipelineInv, SealInv, KeepReceipt, SealEvidence, IssueReceipt, At, TypeFacts, TypeOK
<1>2. UNCHANGED result /\ Immutable
  BY DEF KeepReceipt, SealEvidence, IssueReceipt, Immutable
<1>3. CASE KeepReceipt(t)
  <2>1. /\ Alone(t) /\ Fresh(t)
        /\ task'[t] # Idle => task'[t].stage # "receipt"
    BY <1>1, <1>3, Proceeding DEF KeepReceipt
  <2>2. UNCHANGED receipt
    BY <1>3 DEF KeepReceipt
  <2> QED BY <1>2, <2>1, <2>2, StandingSeals DEF SealGood, Fresh, WorksOnRow, Calculating
<1>4. CASE SealEvidence(t)
  <2>1. /\ Stays(t) /\ task'[t].stage = "receipt"
        /\ task'[t].engine = task[t].engine /\ task'[t].row = task[t].row
    BY <1>1, <1>4, Sealing
  <2>2. UNCHANGED receipt
    BY <1>4 DEF SealEvidence
  <2>3. WorksOnRow(t)' /\ ~Calculating(t)'
    BY <1>1, <1>2, <2>1 DEF WorksOnRow, Calculating
  <2> QED BY <1>2, <2>1, <2>2, <2>3, StandingSeals DEF SealGood, Stays
<1>5. CASE IssueReceipt(t)
  <2> DEFINE own == task[t].engine
             row == task[t].row
             issued == [status |-> "ISSUED", decision |-> row.decision]
  <2>1. /\ Alone(t) /\ Fresh(t)
        /\ task'[t] # Idle => task'[t].stage # "receipt"
    BY <1>1, <1>5, Proceeding DEF IssueReceipt
  <2>2. PICK previous \in Previous(t) :
          receipt' = [e \in Engines |->
            IF e = own THEN issued
            ELSE IF e \in previous THEN [receipt[e] EXCEPT !.status = "SUPERSEDED"]
            ELSE receipt[e]]
    BY <1>5 DEF IssueReceipt
  <2>3. /\ own \in Engines /\ row \in Result /\ row.status = "COMPLETED"
        /\ result[own] = row
    BY <1>1 DEF Task, WorksOnRow, Issuing
  <2>4. row = [status |-> "COMPLETED", decision |-> row.decision]
    BY <2>3 DEF Result
  <2>5. issued.decision = row.decision
    OBVIOUS
  <2> HIDE DEF issued
  <2>6. ASSUME NEW e \in Engines, Exists(e)'
        PROVE  result'[e] = [status |-> "COMPLETED", decision |-> receipt'[e].decision]
    <3>1. CASE e = own
      BY <1>2, <2>2, <2>3, <2>4, <2>5, <3>1
    <3>2. CASE e # own
      <4>1. receipt[e] \in Receipt
        BY <1>1 DEF TypeFacts, TypeOK
      <4>2. receipt'[e] = IF e \in previous THEN [receipt[e] EXCEPT !.status = "SUPERSEDED"]
                          ELSE receipt[e]
        BY <2>2, <3>2
      <4>3. receipt'[e].decision = receipt[e].decision
        BY <4>1, <4>2 DEF Receipt
      <4>4. Exists(e)
        <5>1. CASE e \in previous
          BY <1>1, <1>5, <5>1 DEF IssueReceipt, At, Previous, Issuing, Exists
        <5>2. CASE e \notin previous
          BY <2>6, <4>2, <5>2 DEF Exists
        <5> QED BY <5>1, <5>2
      <4> QED BY <1>2, <4>3, <4>4 DEF SealInv, ReceiptSealsDecision
    <3> QED BY <3>1, <3>2
  <2>7. ReceiptSealsDecision'
    BY <2>6 DEF ReceiptSealsDecision
  <2> QED BY <1>2, <2>1, <2>7 DEF SealGood, Fresh, WorksOnRow, Calculating
<1> QED BY <1>3, <1>4, <1>5

LEMMA AskingSeals ==
    ASSUME PipelineInv, SealInv, NEW t \in Tasks, StartIssue(t)
    PROVE  SealGood(t)
<1>1. /\ Alone(t)
      /\ task'[t].stage = "receipt" /\ task'[t].engine = Newest /\ task'[t].row = result[Newest]
  BY Asking DEF PipelineInv
<1>2. UNCHANGED <<result, receipt>> /\ Immutable
  BY DEF StartIssue, Immutable
<1> QED BY <1>1, <1>2, StandingSeals DEF SealGood, WorksOnRow, Calculating

LEMMA RoutesSeal ==
    ASSUME PipelineInv, SealInv,
           \/ \E s \in {"security", "signals"} : AdvanceByRoute(s)
           \/ \E e \in Engines : Revoke(e)
    PROVE  SealInv' /\ Immutable
<1>1. UNCHANGED <<result, task>>
  BY DEF AdvanceByRoute, Revoke
<1>2. \A t \in Tasks : WorksOnRow(t)' /\ (Calculating(t)' <=> Calculating(t))
  BY <1>1 DEF SealInv, WorksOnRow, Calculating
<1>3. \A e \in Engines : /\ receipt'[e].decision = receipt[e].decision
                         /\ Exists(e)' <=> Exists(e)
  BY DEF AdvanceByRoute, Revoke, PipelineInv, TypeFacts, TypeOK, Receipt, Exists
<1> QED BY <1>1, <1>2, <1>3 DEF SealInv, ReceiptSealsDecision, Immutable

LEMMA ThreadSeals ==
    ASSUME PipelineInv, SealInv, MaxCalculations <= 1, NEW t \in Tasks,
           \/ StartJob(t) \/ Crash(t) \/ LoseLease(t) \/ StartIssue(t)
           \/ \E kind \in DOMAIN FirstStage : StartRequest(t, kind)
           \/ Analysis(t) \/ Calculation(t) \/ Issuance(t)
    PROVE  SealGood(t)
<1> USE DEF PipelineInv
<1>1. CASE StartJob(t) \/ \E kind \in DOMAIN FirstStage : StartRequest(t, kind)
  BY <1>1, StartIsQuiet, QuietSeals
<1>2. CASE Crash(t) \/ FailStage(t) \/ FailVerdict(t) \/ FailReceipt(t)
  BY <1>2, FailureIsQuiet, QuietSeals
<1>3. CASE LoseLease(t)
  BY <1>3, StallSeals
<1>4. CASE StartIssue(t)
  BY <1>4, AskingSeals
<1>5. CASE Analysis(t) /\ ~FailStage(t)
  BY <1>5, VisualIsQuiet, FusionIsQuiet, AdvanceIsQuiet, QuietSeals DEF Analysis
<1>6. CASE Calculation(t) /\ ~FailVerdict(t)
  BY <1>6, CalculationSeals DEF Calculation
<1>7. CASE Issuance(t) /\ ~FailReceipt(t)
  BY <1>7, IssuanceSeals DEF Issuance
<1> QED BY <1>1, <1>2, <1>3, <1>4, <1>5, <1>6, <1>7

LEMMA SealStep ==
    ASSUME MaxCalculations <= 1, PipelineInv, SealInv, [Next]_vars
    PROVE  SealInv' /\ Immutable
<1>1. CASE UNCHANGED vars
  BY <1>1 DEF vars, SealInv, WorksOnRow, Calculating, ReceiptSealsDecision, Exists, Immutable
<1>2. CASE Next
  BY <1>2, NextIsOfOne, ThreadSeals, SealGoodKeeps, RoutesSeal DEF SealGood
<1> QED BY <1>1, <1>2

LEMMA SealHolds == ASSUME MaxCalculations <= 1 PROVE Spec => [](PipelineInv /\ SealInv)
<1>1. Init => SealInv
  BY DEF Init, SealInv, WorksOnRow, Calculating, ReceiptSealsDecision, Exists, NoReceipt
<1>2. PipelineInv /\ SealInv /\ [Next]_vars => SealInv'
  BY SealStep
<1> QED BY <1>1, <1>2, PipelineHolds, PTL DEF Spec

(* While no two calculations of a session overlap, a receipt, current or   *)
(* not, signs the decision that its result still shows:                    *)
(* issue_automated_receipt and calculate_verification.                     *)
THEOREM ReceiptsSealDecisions ==
    ASSUME MaxCalculations <= 1 PROVE Spec => []ReceiptSealsDecision
<1>1. SealInv => ReceiptSealsDecision
  BY DEF SealInv
<1> QED BY <1>1, SealHolds, PTL

(* And a completed decision is never rewritten, whatever is analysed anew: *)
(* calculate_verification.                                                 *)
THEOREM DecisionsAreImmutable ==
    ASSUME MaxCalculations <= 1 PROVE Spec => DecisionIsImmutable
<1>1. PipelineInv /\ SealInv /\ [Next]_vars =>
        [\A e \in Engines : result[e].status = "COMPLETED" => result'[e] = result[e]]_vars
  BY SealStep DEF Immutable
<1> QED BY <1>1, SealHolds, PTL DEF Spec, DecisionIsImmutable
=============================================================================
