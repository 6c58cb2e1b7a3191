# SiteProof: a TLA+ verification project

SiteProof records field inspections. An administrator creates an inspection at a
site and assigns an inspector, who acknowledges it, opens a short live capture
session on an Android phone, performs server-issued movement challenges while
video, sensors and location are recorded, and uploads the evidence. A worker
analyses it, a verification engine computes a verdict, a receipt is signed, and a
reviewer decides. This directory holds TLA+ models of that system, TLC
configurations that check them on small instances, and proofs checked by TLAPS.

1. [The system](#1-the-system)
2. [Modules](#2-modules)
3. [What is checked](#3-what-is-checked)
4. [What is proved](#4-what-is-proved)
5. [Where code and words disagree](#5-where-code-and-words-disagree)
6. [What is not modelled](#6-what-is-not-modelled)
7. [Plan](#7-plan)

`PROJECT.json` lists components, runs, mutants, the source lines behind every
definition, hazards and theorems.

## 1. The system

The backend (`src/backend/app`) is a FastAPI process over PostgreSQL (SQLite in
its tests), with separate worker processes (`worker.py`). The Android app
(`src/android`) and the web dashboard (`src/web`) are its clients. Paths below are
relative to `src/backend/app` unless they start with `src/`.

Two facts about the database layer shape every model:

* `db/session.py` builds sessions with `autoflush=False` and
  `expire_on_commit=False`. An object keeps the values it was loaded with; an
  UPDATE names its row by primary key and carries only the columns whose new
  value differs from the loaded one. A handler that raises before its commit
  changes nothing.
* PostgreSQL runs at its default, READ COMMITTED. Only handlers that ask for
  `FOR UPDATE` serialise; any other "read, check, write" may have another
  request's commit between its read and its write. SQLite, under which the
  repository's tests run, never lets that happen.

So every module distinguishes a handler that nothing overlaps from one that is
overlapped, and the properties are sorted by what they need.

### Components

| Component | State | Operations | What is hard | What makes it correct |
|---|---|---|---|---|
| Queue and worker (`services/processing_queue.py`, `worker.py`) | one row per job: status, attempts, max_attempts, lease, next attempt | enqueue, re-enqueue, recover leases, claim, heartbeat, mark | leases that expire under a living worker, crashes, checks separated from writes | an attempt is a fencing token; every job ends; nothing runs over budget |
| Inspections, assignments and sessions (`services/inspection_service.py`, `session_*.py`, `verification/review.py`) | inspection status, assignment history, session rows | assign, reassign, acknowledge, ready, cancel, review; create, start, complete, abort and expire a session | locked and unlocked handlers overlap; a session outlives its assignment | history in order, no stranded capture, terminal and durable states |
| Challenges (`services/challenges/service.py`) | rows keyed by sequence and attempt number | next, start, submit, retry, expire, finalize | `/challenges/next` takes no lock, expiry is noticed lazily, submissions repeat | order, one active, budget of retries, results and evidence never replaced |
| Evidence transport (`services/evidence_*.py`, `session_capture.py`, `storage_service.py`, Android `EvidenceUploadWorker`) | file records, stored objects, the phone's worker and its local copy | complete capture, initiate, put, fail, complete, clean up | calls and replies lost, both ends crash, handlers outlive their client, torn objects | the only copy is deleted only when the server has everything; the package arrives |
| Verification (`services/processing_pipeline.py`, `visual_analysis_*.py`, `fusion/`, `verification/service.py`, `receipt_service.py`) | analysis rows, one result per engine, receipts | the job's stages; retries, recalculation, issue, revoke | stages stop at any exception, two threads work on one session | decisions and receipts never change, success is sealed |
| Decision functions (`verification/collectors.py`, `scoring.py`, `policy.py`, `security_gate.py`) | none | signals to score, hard rules, verdict, gate | missing signals and renormalised weights, rows that were stored earlier, anew or never | VERIFIED is earned, weaker evidence is never better, facts flag, heuristics only cap |
| Analyses (`challenges/validators/`, `vision/`, `fusion/`, `verification/advanced/`, `advanced_*_service.py`) | one row per take or session | validate, measure, compare, assess | two sign conventions, thresholds, order and partial failure | scores stay in range, honest motion is never accused |
| Signing keys (`receipt_service.py`, `receipt_crypto.py`) | public keys and their status | rotate, sign, verify | two processes with different keys | old receipts stay verifiable |
| Android capture (`src/android/.../verification/VerificationViewModel.kt`, `VerificationCaptureCoordinator.kt`) | screen, coroutines, capture, timeline, pending-evidence rows | prepare, start, challenges, stop, abort, retry | lost replies, interruptions, cancelled coroutines, process death | what is handed over agrees with the server; camera and sensors are let go of; no dead screen |
| Identity, audit, dashboards, web client | single rows, append-only logs, views | CRUD and queries | nothing concurrent | out of scope, section 6 |

### How the components interact

* A session can be created only for the assigned inspector of a READY inspection;
  its creation moves the inspection to SESSION_STARTED, and its end (upload, abort,
  expiry) moves the inspection on. Challenges and uploads change the session's
  status, nothing else of it.
* Completing an upload commits the session's UPLOADED, the inspection's PROCESSING
  and the enqueued job in one transaction. That commit is the hand-over between the
  phone and the worker.
* A worker runs the pipeline for a job. Its first stage moves the session to
  PROCESSING and back to UPLOADED; later stages write analysis rows, a result and a
  receipt. Administrators start the same stages through API routes as background
  tasks of the API process, beside the worker.
* A reviewer's decision is written on the inspection, through a session.

## 2. Modules

| Module | Models | Lines |
|---|---|---|
| `ProcessingQueue` | rows, producers, workers, heartbeats, crashes, time | 405 |
| `DurableJobs` | what the queue promises to the code that enqueues a job | 57 |
| `InspectionLifecycle` | one inspection, its assignments and sessions, all handlers | 506 |
| `ChallengeSequence` | the challenge table of one session | 376 |
| `EvidenceUpload` | phone, evidence endpoints, object store, first stage of processing | 366 |
| `VerificationPipeline` | analyses, verification results and receipts of one session | 521 |
| `CaptureSession` | the phone's view model and coordinator against the session endpoints | 648 |
| `Verdict` | one session's rows from the samples to the verdict | 301 |
| ... `Fractions` | scores as integers | 45 |
| ... `ChallengeMotion` | what a challenge's sensor samples show (`validators/`) | 122 |
| ... `VideoMotion` | what a take's frames show (`vision/`) | 152 |
| ... `MotionEstimates`, `FusionDecision` | sensor and camera made comparable, and compared (`fusion/`) | 65, 182 |
| ... `SecurityRisk`, `AdvancedSignals` | risks and supporting signals (`verification/advanced/`) | 210, 73 |
| ... `Signals`, `Scoring` | collectors; policy, score, hard rules, security gate | 138, 124 |
| `ProcessingQueueProofs` | theorems on the queue and its refinement of `DurableJobs` | 795 |
| `InspectionLifecycleProofs` | theorems under any overlap of requests, and without overlap | 1565 |
| `ChallengeSequenceProofs`, `EvidenceUploadProofs` | theorems on challenges and transport | 1330, 431 |
| `VerificationPipelineProofs`, `CaptureSessionProofs` | theorems on the pipeline and the phone | 1385, 3241 |
| `ScoreProofs` | lemmas on sums, means, extremes and filtered sequences, and the range of every score | 3981 |
| `VerdictProofs` | theorems on scores, verdicts, hard rules and the security gate | 2977 |
| `MC...` | symmetry sets and instances for TLC; `MCVerdict` has the takes and streams | |

Each model module is laid out alike: constants and their named assumption,
variables, type invariant and initial states, helper predicates named after what
the code asks, one action per handler or transaction step, the next-state relation
and fairness, then the properties. Some helpers spell a plausible mistake
(`RetryDelayUncapped`, `FinalizedBeyond`, `PutStoreAfterCommit`, ...): they are not
part of the specification, `PROJECT.json` substitutes them one at a time for the
definition that follows them to see that each property notices.

### Composition

The modules meet where one component relies on another:

* `ProcessingQueue` implements `DurableJobs` (`ImplementsDurableJobs`), the view its
  users have of it: phases, starts within an allowance, done only after a start ran
  to its end.
* `EvidenceUpload` sees the queue as one job that is queued, failed or succeeded; its
  fairness on the end of the job is `EveryJobEnds` of `ProcessingQueue`.
* `VerificationPipeline` sees the queue as attempts of one job that may be superseded
  (`LoseLease`) or die (`Crash`) at any step, which is what the queue allows, and as a
  success mark that is made only when the pipeline returned, which is
  `CompletedByLatestAttempt`.
* `InspectionLifecycle` sees challenges and uploads as handlers that move a session's
  status; `ChallengeSequence` and `EvidenceUpload` refine what happens within those
  moves. Their `session` is the status of one row of `sessions`.
* `CaptureSession` composes the phone with a small view of those two: each endpoint is
  one atomic step on `sessions`, with its guards, and the network between them loses
  requests and replies. It ends where `EvidenceUpload` begins, with a session that is
  CAPTURE_COMPLETED, a row in the phone's database and a queued upload.
* `Verdict` fills in what `VerificationPipeline` leaves out. The pipeline interleaves
  commits and abstracts values; `Verdict` calculates values and takes each step as one
  transaction. Both have the same rows, the same tests of readiness and the same choice
  of engine.

### ProcessingQueue

`status`, `attempts`, `budget` (max_attempts), `lease` and `dueIn` are columns.
Times are ticks until due, so a due and a null `next_attempt_at` are both 0 and
`NoLease` stands for a null lease. `main[w]` is the worker's main thread (idle,
running attempt *a* of job *j*, or between the check and the write of a mark);
`beats` is the set of heartbeats between check and write, of any process that was
ever there; `finished` records pipeline runs that returned.

`Claim` is the whole of `claim_next_processing_job`: recover expired leases, skip
rows whose lock another transaction holds (`SKIP LOCKED`), choose the oldest
runnable row, take the lease and count the attempt. `PollEmpty` is the same call
when nothing is runnable. `CheckSucceeded`, `CheckFailed` and `CheckHeartbeat`
are the SELECT of `_active_attempt`, `WriteMark` and `WriteHeartbeat` the UPDATE.
`MayBegin` keeps other transactions out in between unless `ReadCommitted`. `LoseMark`
is a mark that raises, `Crash` a process that dies, `Repair` an operator who raises
max_attempts.

### InspectionLifecycle

`inspection`, `assignments` and `sessions` are the tables (sequences, oldest first);
`view[r]` is what overlapped request *r* loaded, `holder` the request that holds
the inspection's row with FOR UPDATE. A handler is `Handler(r, ...)`: it decides on
`Seen(r)`, computes the rows it wants, and `Commit(r, n)` writes only the columns
that differ from what it saw, waits for the row lock where it writes the
inspection, and gives up where the unique index on active sessions forbids it. With
`r = Now` the view is the present state: the handler is atomic. `Load` and `RollBack`
open and abandon overlapped requests. Deadlines are choices: a handler that
compares a clock may find it passed or not.

### ChallengeSequence

`challenges` maps `<<sequence_number, attempt_number>>` to a row. As above, a handler
runs as `Now`, or overlapped as one of `Requests`, with `Lock` for the handlers that
select the challenge FOR UPDATE and `Reread` for `/challenges/next`, which reads the
table a second time after it marked expired rows. `Lapse` is a challenge's
`expires_at` passing, `Overrun` the session's. A late submission stays possible,
because its evidence may have ended in time.

### EvidenceUpload

The phone is at one call of its fixed order (`capture-complete`, `initiate`, `put` for
each file, `complete`, `cleanup`) and every call either succeeds, is refused, or is
lost with or without effect on the server. `upload[h]` is a server handler that
awaits a body with the columns it loaded before. Storing has a torn intermediate
state, as `LocalObjectStorage.put_file` copies into place. `Crash` kills the server's
handlers, `StartOver` the phone's process.

### VerificationPipeline

`visual`, `fusion`, `advanced`, `result` and `receipt` are the rows; `task[t]` is a
thread: the job's (perhaps a stalled predecessor's), a background retry's, a
recalculation's or an issue's, with the stage and phase it is at and what it read
(`seen`, `before`). Every step is one commit. An exception ends a job
(`AfterException`) but not a background task. Scores are abstracted: a decision is
`full` when the visual and fusion signals it weighs were there and `degraded`
otherwise, which is all that waiting, immutability and receipts can tell apart.

### CaptureSession

The view model runs one coroutine after another (`prepare`, `startJob`,
`challengeJob`): `app.at` is the call, delay or piece of work at which this flow is
suspended. Beside it run the guard of the capture's time limit (`app.guard`) and a
coroutine that aborts on an interruption or on the user's wish; their answers are told
apart by the `by` of a call. `app.recording`, `challenge` and `timeline` are the
coordinator's `active`, `activeChallenge` and `challengeTimeline`, and `app.ui` is the
screen. An operator of the flow takes the app's state `a` as it finds it, so that
`BeginNext` follows `CaptureBegun` or a result in the same step, as the code does
between two suspension points.

Cancelling is the heart of it. `viewModelScope` dispatches immediately on the main
thread, so a suspended coroutine's catch blocks run before `cancel()` returns, and a
call that a cancelled coroutine makes is not sent: `Cancelled` is what is left then.
The catch blocks of challenge calls and of `stop` let go of the capture; those of
`start` do not.

A recorder may fail at any time (`RecorderFails`: the disk is full, the camera is lost), which
only `stop` ever learns. `app.film` is what it leaves: still `rolling`, ended `short` of the
required duration, or `long` enough. `Finish` is the wait of `finishAfterChallenges` for the
encoded duration. It cancels the limit guard first, and with a film that ended short it does not end.

The server's endpoints are functions from a call to its possible outcomes
(`Outcomes`). A handler that compares a clock may find it passed or not; a session's
own deadline is the flag `overdue`. Sessions that ended without evidence forget their
challenges: only calls that nobody waits for still ask about them.

### Verdict and the modules it extends

`case` is the evidence and never changes: samples of a gyroscope, what was measured in
every frame, fixes, counts of sensor anomalies. `takes` adds the validation's outcome.
`visual`, `fusion`, `security`, `advanced` and `result` are the rows. `BeginVisual`,
`AnalyseTake` and `FailVisual` are the visual analysis, which goes from take to take and
may break off; it begins with the takes that have no final row, or by force with all of them
(`visual_analysis_tasks.py:14`). `FuseTooEarly`, `Fuse` and `FailFusion` are the fusion,
`Assess` and `StoreSignals` the analyses of the whole session. Every caller forces these
(`processing_pipeline.py:27-29`, the tasks and the routes), so that each run writes its rows anew,
before a decision or after it. `Wait` and `Decide` are the calculation, which decides once for each
engine. All come in any order, since an administrator can start each.

Everything between is operators, one per idea of the code: `Validated` (a take's
challenge result), `VideoRow` (a take's visual row), `FusedTake`, `Assessed`,
`SupportingSignals`, `SignalsOf` (the collectors), `Resolved` (score, hard rules and
verdict) and `GateRules` (the security gate). A score of 1.0 is the integer `One`,
60,000, which makes thousandths and means of up to six exact; products are rounded down
to thousandths. Angles are hundredths of a degree, rates milliradians per second, times
milliseconds. Pixels (OpenCV), hashes and the correlation of two curves are inputs; so are
the directions of axes that the code projects away.

### Bounds

Constants named `Max...`, `Repairs` and `JobCount` bound the models; guards mention
them by name. Sequence and attempt numbers of challenges are bounded by the code's
own settings.

## 3. What is checked

Passing runs (deadlock is not checked: all these systems may stop, when every job
has ended, a bound is reached or the package has arrived; what must not stop is
stated as liveness):

| Run | Instance | Distinct states | Shows |
|---|---|---|---|
| `QueueSerial` | 2 jobs, 2 workers, 2 attempts, 1 repair, serial, fair | 56,000 | `RunningIsRecoverable`, `OneWorkerPerAttempt`, `CompletedByLatestAttempt`, `TerminalIsFinal`, `EveryJobEnds`, `ImplementsDurableJobs` |
| `LifecycleSerial` | 2 inspectors, 3 assignments, 3 sessions, no overlap | 171,000 | `CaptureIsUnderWay`, `UploadedIsDurable`, `AcceptedSurvivesPolling`, `CancelledLeftOnlyByReview`, `DecisionStands` |
| `LifecycleOverlap` | 2 inspectors, 2 assignments, 1 session, one overlapped request | 109,000 | `CancelledIsUnassigned`, `SessionOpenedForAssignee` |
| `ChallengesSerial` | 3 challenges, 1 retry, failure limit 2, 2 submissions, fair | 9,000 | `OutcomeIsOfWholeSequence`, `ResultStands`, `StageEnds` |
| `ChallengesOverlap` | 2 challenges, 1 retry, failure limit 1, one overlapped request | 235,000 | `NumberedWithoutGaps`, `EvidenceStands` |
| `EvidenceUpload` | 2 files (the video and another), one handler, fair | 700 | `EvidenceSurvives`, `VerifiedIsStored`, `Delivered` |
| `VerificationPipeline` | 1 challenge, 2 threads, 2 attempts, 3 requests | 1,400,000 | `OneCurrentReceipt`, `ReceiptSealsDecision`, `SuccessIsSealed`, `DecisionIsImmutable` |
| `CaptureSession` | 2 sessions, 2 challenges, 1 retry, 1 lost call, 1 interruption, death or failing recorder, fair | 1,032,000 | `HandedOverIsComplete`, `RecordingEnds`, `ProgressEnds` |
| `Verdict` | the cases of `MCVerdict`, up to two takes, up to 1 failure, any number of repeated analyses | 144,000 | `VerifiedIsEarned`, `DeterministicFactsFlag`, `HeuristicsOnlyCap`, `SameDirectionNotAccused`, `WeakerEvidenceNeverVerifies` |

`TypeOK` is among the properties of one run of each module.

Why the instances are enough to meet the interesting cases:

* Queue: two workers are one that stalls and one that takes over; two jobs make the
  choice among rows and SKIP LOCKED matter; two attempts give one that is superseded
  and one that is the last. The lease is one tick, so that it can expire at every
  step of an attempt. `QueueSerial` caps a back-off of 2 ticks at 1,
  `QueueStaleMark` lets it reach its cap by doubling.
* Lifecycle: two inspectors are the old one and the new one; the third assignment and
  session show that histories work after one round. One overlapped request beside any
  number of atomic ones meets every pair of handlers, and the handler that commits in
  between can be any sequence of them.
* Challenges: one sequence number before and one after the one at stake; a retry
  budget of one distinguishes "may be retried" from "was retried"; with a failure
  limit of 2 of 3 the outcome depends on which attempts are counted.
* Evidence: the completion reads every file but the video, so one of each kind.
* Pipeline: two threads are any pair of job, stalled attempt, retry, recalculation and
  issue. One challenge suffices for the order of commits; two challenges with two
  requests were also explored (3,210,000 states, no violation).
* Capture: a second session is what a timeline, a late answer or a row of the first one
  could spill into; two challenges with one retry have a next, a repeated and a last
  one; one lost call and one break (an interruption, a death or a recorder that fails) can
  be anywhere, also together.
* Verdict: a case is a value, so the question is which values are told apart. `Motions`
  has one motion of the phone per branch of the validation (as asked, short, reversed,
  none, contradicting the rotation vector, without it, sparse, too sparse), `Films` one
  video per branch of the visual analysis (clear, opposite, still, spun, frozen, cut,
  blurred, without features, of another time), `Streams` one per risk; takes are
  combined with a left turn and a tilt, whose conventions differ.

Symmetry (workers, inspectors, submissions, threads) is used only in runs without
liveness properties, and only over constants that the module does not compare by
order.

### Fairness

* Queue: workers poll, pipeline runs end (they have time limits), open transactions
  commit, heartbeats are written, time passes. Starting a transaction has strong
  fairness, because a lock is held for an instant and a worker that keeps asking meets
  a free one. Crashes, failures and repairs are never required and never excluded.
* Challenges: the client keeps calling `/challenges/next` and clocks run. No fairness
  on starting or submitting: `StageEnds` says that expiry alone gets through.
* Evidence: WorkManager restarts the worker and the inspector retries as long as it
  takes; a call repeated for ever gets through at last (strong fairness of its
  success); handlers of the server and the job run to an end.
* Capture: calls end (the client has a call timeout), suspended work goes on and the
  guard looks at the clock every 250 ms. `Finish` ends because a camera that is rolling
  encodes more and more; where the recorder failed before the required duration nothing
  ends it, so the step is not enabled and no fairness pushes it. `RecordingEnds` and
  `ProgressEnds` name that state, `FinishStalls`, as their one exception. Nobody need press a
  button: otherwise `RecordingEnds` rests on the guard and on `stop` alone.
* Lifecycle, pipeline and verdict state safety only: nobody has to act, and the code sets no
  timer that would make them.

## 4. What is proved

Every theorem holds for all values of the constants that the module's named
assumption admits, and the assumptions say no more than what the constants are:
counts are natural numbers, at least 1 where the code has at least one
(`QueueAssumption`, `LifecycleAssumption`, `ChallengeAssumption`,
`PipelineAssumption`, where the threads are also finitely many, and
`CaptureAssumption`), marks for "nothing" are no values
(`NoRowsAssumption`, `NoMeasureAssumption`, `NoPlaceAssumption`, and `UploadAssumption`,
which also puts the video among the files), a policy is one that `validate_policy`
accepts (`PolicyAssumption`), and the evidence of a case has its types: samples, frames and
fixes are sequences of records whose measures are integers or missing, shares are between
0 and 1 (`CasesAssumption`). That a site's radius is at least 1 and a fix's accuracy not
negative is what the collector makes of them (`verification/collectors.py:97-99`).

Some theorems have a hypothesis besides, and each is needed: section 5 tells what
happens without the first four.

| Hypothesis | Means | Stands for |
|---|---|---|
| `ReadCommitted = FALSE` | no other transaction writes between a check of the queue and its write | SQLite, or PostgreSQL when a mark's two statements happen not to be overlapped |
| `Requests = {}` | no handler is overlapped by another one's commit | a phone and an administrator who wait for their answers |
| `MaxCalculations <= 1` | one thread at a time is between loading a result and storing it | a worker, and administrators who do not recalculate meanwhile |
| `OneUpload` | at most one upload is being received | a phone whose broken upload the server has noticed before the next one |
| `PolicyAsksMotion` | the policy requires VISUAL_MOTION | the default policy |
| `ChallengesWeigh` | takes times (100 - the threshold of VERIFIED) is below the challenges' weight | the default policy and settings: 3 takes times (100 - 90) is 30, the weight is 45 |
| the rule CLEAR_WRONG_LOCATION | is one of the policy's hard rules | the default policy |

The last three are about the policy, a row per organization that starts as the default one
(`verification/policy.py:101-130`; no route edits it). `MCVerdict` assumes them of its
policy and cases (`TheoremsApply`), so that TLC checks that the run is one that the theorems
speak of. What they are needed for is told under the arguments.

The theorems without a hypothesis hold under every interleaving the models have.

| Theorem | Says | Inductive invariant |
|---|---|---|
| `ProcessingQueueProofs!TypeCorrect` | `Spec => []TypeOK` | itself |
| `...!RunningRecoverable` | `[]RunningIsRecoverable`, either isolation | itself with `TypeOK`: every write of RUNNING carries a lease, and stale heartbeats write one too |
| `...!AttemptTokens` | `[](AttemptsWithinBudget /\ OneWorkerPerAttempt)`, either isolation | itself; `ClaimEffect`: a claim increments the one row it takes, so the attempt it hands out is above all held ones |
| `...!Fencing` | serial: `[](CheckStillHolds /\ CompletedByLatestAttempt)` | itself. `CompletedByLatestAttempt` alone is not inductive, since a mark in flight may be stale |
| `...!TerminalStays` | serial: `TerminalIsFinal` | from `Fencing`: no open mark or heartbeat concerns a terminal row |
| `...!QueueIsDurable` | serial: the queue implements `DurableJobs` | `Fencing`, `RunsWereClaimed`, `DecidedOnBudget` |
| `InspectionLifecycleProofs!LifecycleInvariant` | `Spec => []IInv` | `ViewsOK`, `LockOK` |
| `...!TypeCorrect` | `[]TypeOK` | `IInv` |
| `...!AssignmentsInOrder` | `[]CancelledIsUnassigned` | `IInv` |
| `...!OpenedForAssignee` | `SessionOpenedForAssignee` | `IInv`, and only `CreateSession` appends a session |
| `...!CaptureAlwaysUnderWay` | no overlap: `[]CaptureIsUnderWay` | itself, over `Effect` |
| `...!UploadedStaysDurable`, `...!AcceptedStays`, `...!CancelledStays`, `...!DecisionsStand` | no overlap: `UploadedIsDurable`, `AcceptedSurvivesPolling`, `CancelledLeftOnlyByReview`, `DecisionStands` | `TypeOK`, over `Effect` |
| `ChallengeSequenceProofs!TypeCorrect` | `[]TypeOK` | `SequenceInv` |
| `...!NumbersLeaveNoGap` | `[]NumberedWithoutGaps` | `SequenceInv` |
| `...!EvidenceAlwaysStands` | `EvidenceStands` | `SequenceInv` |
| `...!ResultsAlwaysStand` | no overlap: `ResultStands` | `SequenceInv` |
| `...!OutcomeIsOfAll` | no overlap: `[]OutcomeIsOfWholeSequence` | `SequenceInv`, `SerialInv` |
| `EvidenceUploadProofs!TypeCorrect` | `[]TypeOK`, any number of uploads | itself |
| `...!VerifiedIsAlwaysStored`, `...!EvidenceAlwaysSurvives` | one upload: `[]VerifiedIsStored`, `[]EvidenceSurvives` | `TransportInv` |
| `VerificationPipelineProofs!TypeCorrect` | `[]TypeOK` | `TypeFacts` |
| `...!OneReceiptIsCurrent` | `[]OneCurrentReceipt` | `PipelineInv` |
| `...!SuccessIsAlwaysSealed` | `[]SuccessIsSealed` | `PipelineInv` |
| `...!ReceiptsSealDecisions`, `...!DecisionsAreImmutable` | one calculation: `[]ReceiptSealsDecision`, `DecisionIsImmutable` | `PipelineInv`, `SealInv` |
| `CaptureSessionProofs!TypeCorrect` | `[]TypeOK` | `CaptureInv` |
| `...!HandedOverAlwaysComplete` | `[]HandedOverIsComplete` | `CaptureInv` |
| `VerdictProofs!OnlyFactsFlag` | `[]HeuristicsOnlyCap` for every policy, evidence and order of the analyses | see below |
| `...!FactsFlag` | `[]DeterministicFactsFlag`, likewise | see below |
| `...!VerifiedAlwaysObeys` | `[]VerifiedObeysThePolicy`, likewise: the first conjunct of `VerifiedIsEarned` | `DecisionObeys` |
| `...!ScoresStayInRange` | `[]TypeOK`, likewise | `TypeInv` |
| `...!SameDirectionNeverAccused` | `[]SameDirectionNotAccused`, likewise | `SeenInv` |
| `...!VerifiedWasEarned` | `[]VerifiedIsEarned`, for every policy with `PolicyAsksMotion` and `ChallengesWeigh` | `EarnedInv`, `DecisionObeys` |
| `...!WeakerNeverVerifies` | `WeakerEvidenceNeverVerifies`, for every policy that has CLEAR_WRONG_LOCATION | `SeenInv` |

Every invariant and every action property that a passing run checks is stated by one of these
theorems. The eight proof modules have 13,349 obligations, all discharged.

### Arguments

**Queue.** The refinement maps a row to its phase, the attempts it had and may have, and
whether its latest attempt ran to its end. What a step does to the abstract job is shown
job by job (`Moved`): a claim may give back several expired jobs and start another one in
the same transaction, which the abstract step allows. Two facts about the past are needed. `RunsWereClaimed`: a run that returned was an attempt that the row has
counted. `DecidedOnBudget`: a mark in flight decides between RETRY and FAILED by the
budget that the row still has, as a repair waits for it.

**Lifecycle.** `CancelledIsUnassigned` alone is not inductive: a locked request that
decided on a stale view could write a second ACTIVE assignment. `IInv` adds what the
row lock gives. `ViewsOK`: views are well typed and no longer than the tables, which
only grow. `LockOK`: at most one open request holds the lock, and its view agrees with
the stored inspection status and assignments, since everyone else who writes
them waits. Unlocked handlers are shown to be harmless whatever they saw: they never
write an assignment's status, and they never write CANCELLED. The proof has one lemma
per family of handlers (`SessionStep`, `CreateStep`, `InspectorStep`, `CancelStep`,
`LoadStep`, ...) on top of lemmas about `Commit`, and `NextStep` joins them.

Without overlap a handler sees the tables as they are, and `SerialStep` shows that each
has one of nine effects on statuses: a session ends, goes on, is uploaded or analysed;
someone decides, administers or prepares; a session is opened; nothing. The five
properties are read off the effects.

**Challenges.** `SequenceInv` says that the numbers in use have no gap below them, that
an active challenge has no submission yet, that no two requests hold one row, and
(`HoldsFresh`) that a row which is held has not been answered since its holder saw it. It
holds under any overlap: `/challenges/next`, which loads without a lock, adds the next
number, which the unique constraint lets one request do, and the EXPIRED that it may write
over a result it did not see waits for rows that are held and leaves submissions alone. `OutcomeIsOfWholeSequence` needs more: `SerialInv` says that
only the last challenge is ever active, that those before it have no retry left, and that a
session which has an outcome has it of every sequence number.

**Transport.** `TransportInv` ties the three parties together: a file that is being
received is marked so and the session still takes uploads (`ReceivingIsMarked`), and an
accepted session has its job and every object, is the only one that is analysed, and the
only one after which the phone cleans up (`AcceptedIsComplete`).

**Pipeline.** `PipelineInv` says of a thread that issues a receipt (`Issuing`) that its
result is completed and that, of the receipts it read, none has gone and none has become
current again; so when it revokes the ones it read and inserts its own, no other is
current. `SealInv` adds that a calculation works on the row as it is stored and that this
row is not completed (`WorksOnRow`), which is what two calculations break.

**Phone.** `HandedOverIsComplete` compares two sides of a network: a timeline that was
packaged on the phone with rows on the server. The invariant follows one session
from its creation to the queued upload:

* The timeline tells every result of the session that is being recorded but that of the
  challenge on the screen (`TellsBut`): a submission's result is at the server before
  its reply is at the phone. A lost reply leaves the challenge on the screen until the
  same submission is repeated; any other failure lets go of the capture. So the phone
  never goes on from a timeline that misses a result.
* The flow waits for one call or its reply, and for that of its present step
  (`CallOfFlow`, `ReplyToFlow`); cancelled coroutines leave nothing that looks like one.
* No other call under way concerns the session that is being captured (`Private`), and
  none at all one that was handed over (`Untouched`): an abort beside the flow lets go of
  the capture in the same step, a call that nobody waits for is about a session that was
  let go of, and the session's own deadline does not expire CAPTURE_COMPLETED.
* What is on the disk was packaged from the timeline that the app still holds (`Packs`),
  and the row is written before the upload is queued.

A step of the flow is shown through what it does to the app's state `a` (`AppInv(a)`),
as the flow's operators are composed within one step.

**Verdict.** A verdict is decided from the security row, the property speaks of the
evidence, so `Verdict`'s invariant ties the two: a row that exists flags if and only if its
evidence holds a deterministic fact (`FactsReachTheGate`, `RowSpeaksOfEvidence`). A row
that is written again is another row of the same evidence and says the same of it, so a
decision need not be compared with the row that is stored now: what the gate makes of a
verdict depends on the evidence alone (`GateSpeaks`). The lemmas below it go through the analyses: a fact makes its risk certain
enough for the rule that asks for it (`MockFlags`: the surest indicator is 0.98 where the
rule wants 0.95), and without one no code or score reaches a flagging rule
(`LocationFacts`, `DeviceFacts`, `ReuseFacts`, `GateOnlyCaps`).

What a policy requires is proved without the score: the gate never raises a verdict
(`GateNeverRaises`), VERIFIED therefore was resolved with nothing required missing and no
rule that flags (`ResolvedObeys`), a fix that is clearly off the site is told with the
confidence its rule asks for, however inaccurate it is (`OutsideIsSure`), and fix and takes
are still what they were when the decision was made. Under the default weights of the run
the score alone already keeps an off-site capture from VERIFIED; the theorem says that the
rules do so whatever the weights.

**Scores.** A score is a mean, a sum or an extreme over signals, samples or rows, and
an induction over them is out of the provers' reach. `ScoreProofs` argues on a least counterexample
instead: among the finite sets for which a fact fails there is one with the fewest members
(`LeastSubset`, from the well-founded order of the natural numbers), and one member less
cannot make the difference. So the function that a fold is defined by exists and is unique
(`AddsExists`, `AddsAgree`), and a sum can be taken apart at any member, be compared member by
member and be bounded. What follows is one lemma per formula of the code: a challenge's
validation, a video row, a fused row, the risks, the supporting signals, the collectors. Each
says that measures are integers and that a score stays between 0 and 1 for whatever samples,
frames and rows, down to a window without samples and a video without usable frames.
`TypeInv` carries this along the analyses, and keeps in addition that rows have their fields and
that `takes` is what the validation made of `case`.

**An earned VERIFIED.** A weighted mean is renormalised by the weights of the signals that
are there, so that a missing signal makes the others weigh more. `Earned` holds nevertheless:
a failed challenge, or two undecided ones, take a share of 1/n from the mean of n
challenges (`SumScarce`, `CompletionScarce`); what the challenges lack the whole lacks
with their weight (`WorthWithout`); and since the weights that are there add up to at most
100, more is lacking than VERIFIED allows (`Margin`). Hence `ChallengesWeigh`: with
the default weights and five takes, or three and a threshold of 85, the argument fails, and
so may the property. The camera's motion is required, and available only where some row is SUCCESS.
Such a row is what the video shows of its take (`RowsInv`), which a later analysis that blanks the
row, or breaks off, does not change: so `Earned` speaks of the video and not of the row.

**Nobody accused.** `SeenInv` says that a visual row is one of three: marked, failed, or what
the analysis makes of the take (`RowOf`). Under that, if the camera saw every take move the way
the phone did (`AllSeen`), each fused row is harmless (`Harmless`): no strong contradiction,
and a disagreement below what a mismatch needs. This covers rows that came too early, broke
off half-way, were made before the video's or made again after it was blanked; neither the hard rule nor the replay risk gets
more from several rows than from the worst of them.

**Weaker evidence.** `NoBetter` compares two signals: equally available, inconclusive if the
other is, and neither score nor confidence higher. If all seven are no better and the
hard rules no fewer, the verdict is VERIFIED only if the other one is (`NoBetterVerdict`): the
same weights are divided by, so worth and confidence are compared term by term. What
remains is that each change has that effect: a challenge judged worse (`TakesWeaker`), a video
not understood (`RowWeaker`), a fix farther away (`FartherWeaker`). The last is true only of
fixes that are not clearly off the site. A fix far off is told with *more* confidence than one
in the grey zone, and with the hard rule off that could lift the overall confidence over
the policy's minimum; the rule is what makes distance count one way.

### What stays with TLC

* Liveness, which needs ENABLED: `EveryJobEnds`, `StageEnds`, `Delivered`,
  `RecordingEnds`, `ProgressEnds`.
* The three disagreements of section 5, which are violations.
* Values: the theorems on `Verdict` say in what range a score is and how it moves with the
  evidence. What it is for a given take is calculated by TLC's run only.

## 5. Where code and words disagree

Three runs state what a comment or a document says and find it violated by what the
code does:

| Run | The words | What happens |
|---|---|---|
| `QueueStaleMark` | `services/processing_queue.py:177`: a stale worker can never "mark its replacement attempt complete" | `_active_attempt` reads without a lock, the UPDATE names the row by id only; a lease that expires and is claimed between the two is completed by the wrong attempt |
| `ReplayGate` | `services/verification/security_gate.py:51-54`: high replay risks may cap VERIFIED | the gate looks the replay row up as `replay-risk-v1`, the analysis writes `replay-risk-v1.1`: the row is never found and VERIFIED stands. Two takes, one seen to move as asked and one the opposite way (which only makes its row INCONCLUSIVE), 8 frames that look like a screen and a replaced attempt with repeated frames reach the rule's score and confidence of .90. Motion that agrees does not: its confidence stays at .87 |
| `AbortNotSent` | `src/docs/session-lifecycle.md:151` and the screen: an interruption aborts the session | the interruption cancels the pending challenge call, whose catch block lets go of the capture and makes an abort call that a cancelled coroutine cannot send; the abort coroutine then finds nothing to abort. The session stays active until it expires, and CHALLENGES_COMPLETED never does |

The first needs two transactions to overlap under READ COMMITTED; `QueueSerial` and the
theorem `Fencing` show that overlap is its only cause. Other facts that TLC shows
when a constant is changed or a property added, and which are noted with the hazards
they belong to:

* With `ReadCommitted = TRUE`, `EveryJobEnds` fails: a stale failure mark writes RETRY
  over the last attempt and leaves a row that is neither runnable nor terminal.
* With `Requests = {r1}` in `InspectionLifecycle`, an acknowledgement brings a cancelled
  inspection back (`CancelledLeftOnlyByReview`; `src/docs/inspection-lifecycle.md:13`
  calls CANCELLED terminal), an overlapped abort overwrites UPLOADED, an overlapped
  poll overwrites CHALLENGES_COMPLETED with EXPIRED, and two calls of `start_capture`
  can leave SESSION_STARTED without a session (`UploadedIsDurable`,
  `AcceptedSurvivesPolling`, `CaptureIsUnderWay`).
* With `Requests = {r1}` in `ChallengeSequence`, two calls of `/challenges/next` leave
  two active challenges, against `src/docs/challenge-engine.md:36`.
* With two handlers in `EvidenceUpload`, a slow upload that outlived its client marks
  a completed session UPLOAD_FAILED (`EvidenceSurvives`).
* With `MaxCalculations = 2` in `VerificationPipeline`, two calculations load the waiting
  row and the second writes over the first one's decision (`DecisionIsImmutable`;
  `services/verification/service.py:149` says `force` never does).
* In `EvidenceUpload`, a phone that lost the reply of a completion starts over with
  `complete_capture`, which refuses PROCESSING with 409, so that it reports a failed
  upload of accepted evidence; `src/docs/session-lifecycle.md:123` says a delayed
  completion is accepted then.
* In `CaptureSession`, a recorder that fails leaves the wait of `finishAfterChallenges`
  without an end, since the limit guard is cancelled before it
  (`VerificationViewModel.kt:364-375`): the screen stays FINISHING and camera and sensors are
  held until the user leaves. `src/docs/session-lifecycle.md:151` says that a capture failure
  aborts the session. The model has this as `FinishStalls`, which `RecordingEnds` and
  `ProgressEnds` except; without the exception both fail.
* In `CaptureSession`, a lost reply of `captureComplete` makes `stop` abort a session
  that the server has as complete, and its packaged evidence is never queued.
* In `Verdict`, a clear video of the opposite motion is INCONCLUSIVE to the analyzer and
  therefore invalid input to the fusion, which records the contradiction and decides
  INCONCLUSIVE; `src/docs/visual-inertial-fusion.md:135-141` says MISMATCH.
* In `Verdict`, the gyroscope's bias for the fusion comes from the first 500 ms of a
  padded window, which contains the onset: a passed take's fused onset can be missing
  or differ from the validated one by more than 100 ms.

By reading alone: `src/docs/verification-engine.md` describes an earlier policy than
the weights, thresholds and version `verification/policy.py` now has.

## 6. What is not modelled

* **Pixels and curves**: OpenCV's features, matches, flow and blur, the hashes of files
  and windows, the correlation of two resampled curves are inputs of `Verdict`. So is
  the random choice of a movement. Interleavings within an analysis are
  `VerificationPipeline`'s.
* **Attestation challenges** (`advanced_security_service.py`): the provider's answer is
  an input.
* **Signing keys and receipt verification**: planned. The pipeline takes the key as
  active and signing as enabled. Ed25519 and canonical JSON are library code.
* **What Android's recorders record, evidence packaging, the pending-evidence table's progress
  columns, a camera that cannot be bound**: device I/O, or columns that decide nothing.
* **Manifest comparison, review queue, dashboards, audit log, users and
  authentication, routes and schemas, web client, migrations, deployment**: pure
  checks, read-only queries, single-row edits or adapters that decide nothing the
  models tell apart. Roles and organization scoping are taken as given.
* Within the modelled parts: `update_inspection`, descriptor and size validation,
  idempotency keys other than the submission's, location arithmetic, capture
  summaries, error texts, the S3 adapter, older challenge attempts in the pipeline, a
  policy that changes between calculations.

## 7. Plan

Done, in order of weight: the queue and its promise (1), the life cycle of inspections
and sessions (2), challenges (3), evidence transport (4), the pipeline to a sealed
verdict (5), from samples to the verdict (6), the phone's live proof (7); proofs of every
safety property of 1 to 7 and of the refinement in 1.

Modelling next:

8. *Signing keys*: `ensure_key_metadata` by several processes, rotation and issue; old
   receipts stay verifiable, a process with the active key can issue.
9. *Client manifest checks* (`manifest_service.py`), as an operator over the records of
   `EvidenceUpload` and the timeline of `CaptureSession`.
10. *Endpoint resolver* of the Android data layer, if its probing proves to have
   interleavings worth stating.

Proving next:

* `ChallengesWeigh` made exact: the policies and numbers of takes for which renormalised
  weights do let a failed challenge through.
* The hypotheses of section 4 made finer: which of the properties that need `Requests = {}`
  survive the overlap of which handlers.
