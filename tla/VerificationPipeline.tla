------------------------ MODULE VerificationPipeline ------------------------
(***************************************************************************)
(* From uploaded evidence to a signed verdict: the tables of visual,       *)
(* fusion and security results, the verification results and the receipts  *)
(* of one session, and everything that writes them.                        *)
(*                                                                         *)
(* run_verification_pipeline, the job of the queue, runs the analyses in a *)
(* fixed order and stops at the first exception.  Administrators retry an  *)
(* analysis, recalculate, issue and revoke meanwhile; the retries are      *)
(* background tasks of the API server that go on after an exception.       *)
(* Nothing keeps two of them apart but the unique constraints and the      *)
(* order of their commits, which are the steps of this module.             *)
(*                                                                         *)
(* Scores are left out: a decision is full when the visual and fusion      *)
(* signals it weighed were there, and degraded when one was FAILED or      *)
(* missing.  Signing is enabled, the policy does not change, and location  *)
(* and challenge signals are available.                                    *)
(***************************************************************************)
EXTENDS Naturals, FiniteSets

CONSTANTS
    ChallengeCount,   \* sequence numbers; older attempts are left out
    Tasks,            \* threads that may run analyses at once
    MaxAttempts,      \* max_attempts of the job
    MaxRequests,      \* bound: what administrators ask for
    MaxCalculations,  \* bound: overlapping calls of calculate_verification
    Idle              \* no task

Legacy == "v1.1"
Security == "v2.0"
Engines == {Legacy, Security}

ASSUME PipelineAssumption ==
    /\ ChallengeCount \in Nat \ {0} /\ MaxAttempts \in Nat \ {0}
    /\ MaxRequests \in Nat /\ MaxCalculations \in Nat
    /\ IsFiniteSet(Tasks)

VARIABLES
    visual,    \* visual_motion_results.analysis_status, none before the row exists
    fusion,    \* visual_inertial_results.analysis_status
    advanced,  \* the advanced analyses that are COMPLETE
    result,    \* verification_results, one row per engine version
    receipt,   \* signed_receipts of each engine's result
    job,       \* the processing job, attempts it has used
    requests,  \* bound: requests of administrators so far
    task       \* what each thread is at

vars == <<visual, fusion, advanced, result, receipt, job, requests, task>>

Challenges == 1 .. ChallengeCount
VisualDone == {"SUCCESS", "INCONCLUSIVE"}
VisualStatus == VisualDone \cup {"none", "PROCESSING", "FAILED"}
FusionInFlight == {"PENDING", "PROCESSING"}
FusionStatus == FusionInFlight \cup {"none", "COMPLETE", "FAILED"}

NoResult == [status |-> "none", decision |-> "none"]
Result ==
    [status : {"none", "WAITING_FOR_SIGNALS", "COMPLETED"},
     decision : {"none", "full", "degraded"}]
ReceiptStatus == {"none", "ISSUED", "SUPERSEDED", "REVOKED"}

\* A receipt signs the decision it was issued for.
NoReceipt == [status |-> "none", decision |-> "none"]
Receipt == [status : ReceiptStatus, decision : {"none", "full", "degraded"}]

\* Where a stage leads, and where an exception in it leads.
Succession ==
    [job |-> [visual |-> "fusion", fusion |-> "security", security |-> "signals",
              signals |-> "verdict", verdict |-> "receipt", receipt |-> "end"],
     visualRetry |-> [visual |-> "fusion", fusion |-> "end"],
     fusionRetry |-> [fusion |-> "verdict", verdict |-> "receipt", receipt |-> "security",
                      security |-> "signals", signals |-> "end"],
     recalculation |-> [verdict |-> "end"],
     issue |-> [receipt |-> "end"]]

\* Mutant: a receipt that cannot be issued is only logged, by the job too.
AfterExceptionLogged ==
    [job |-> [[s \in DOMAIN Succession.job |-> "failed"] EXCEPT !.receipt = "end"],
     visualRetry |-> [visual |-> "fusion", fusion |-> "end"],
     fusionRetry |-> [fusion |-> "verdict", verdict |-> "security", receipt |-> "security",
                      security |-> "end", signals |-> "end"],
     recalculation |-> [verdict |-> "end"],
     issue |-> [receipt |-> "end"]]

AfterException ==
    [job |-> [s \in DOMAIN Succession.job |-> "failed"],
     visualRetry |-> [visual |-> "fusion", fusion |-> "end"],
     fusionRetry |-> [fusion |-> "verdict", verdict |-> "security", receipt |-> "security",
                      security |-> "end", signals |-> "end"],
     recalculation |-> [verdict |-> "end"],
     issue |-> [receipt |-> "end"]]

Kinds == DOMAIN Succession
FirstStage ==
    [visualRetry |-> "visual", fusionRetry |-> "fusion", recalculation |-> "verdict"]

\* stalled: a job whose lease was taken away goes on until it ends.
\* phase: a stage begins, loops over its challenges or, for one, compares.
\* todo, seen: challenges to do, and those it knows to be COMPLETE.
\* engine, row, before: the result row it works on, as it loaded or wrote it,
\* and the receipts of the session when it looked at them.
Task ==
    [kind : Kinds, stalled : BOOLEAN,
     stage : DOMAIN Succession.job, phase : {"begin", "loop", "compare"},
     todo : SUBSET Challenges, seen : SUBSET Challenges,
     engine : Engines, row : Result, before : [Engines -> ReceiptStatus]]

Unread == [e \in Engines |-> "none"]

NewTask(kind, stage) ==
    [kind |-> kind, stalled |-> FALSE, stage |-> stage, phase |-> "begin",
     todo |-> {}, seen |-> {}, engine |-> Legacy, row |-> NoResult, before |-> Unread]

TypeOK ==
    /\ visual \in [Challenges -> VisualStatus]
    /\ fusion \in [Challenges -> FusionStatus]
    /\ advanced \subseteq {"security", "signals"}
    /\ result \in [Engines -> Result]
    /\ receipt \in [Engines -> Receipt]
    /\ job \in [status : {"queued", "running", "succeeded", "failed"}, attempts : 0 .. MaxAttempts]
    /\ requests \in 0 .. MaxRequests
    /\ task \in [Tasks -> Task \cup {Idle}]

Init ==
    /\ visual = [c \in Challenges |-> "none"]
    /\ fusion = [c \in Challenges |-> "none"]
    /\ advanced = {}
    /\ result = [e \in Engines |-> NoResult]
    /\ receipt = [e \in Engines |-> NoReceipt]
    /\ job = [status |-> "queued", attempts |-> 0]
    /\ requests = 0
    /\ task = [t \in Tasks |-> Idle]

-----------------------------------------------------------------------------
(* Tasks come, go and change stage. *)

Given(status) == job' = [job EXCEPT !.status = status]
Retried == Given(IF job.attempts < MaxAttempts THEN "queued" ELSE "failed")

\* The task enters the stage, or is over; only the job's own attempt is marked.
GoWith(t, stage, engine, row) ==
    LET old == task[t]
        own == old.kind = "job" /\ ~old.stalled
    IN
    /\ task' = [task EXCEPT ![t] =
            IF stage \in {"end", "failed"} THEN Idle
            ELSE [NewTask(old.kind, stage) EXCEPT
                    !.stalled = old.stalled, !.engine = engine, !.row = row]]
    /\ CASE own /\ stage = "end" -> Given("succeeded")
         [] own /\ stage = "failed" -> Retried
         [] OTHER -> UNCHANGED job

GoTo(t, stage) == GoWith(t, stage, Legacy, NoResult)
Proceed(t) == GoTo(t, Succession[task[t].kind][task[t].stage])
Raise(t) == GoTo(t, AfterException[task[t].kind][task[t].stage])

\* With its result the task goes on to the receipt; the job accepts only the
\* security engine's.
Conclude(t, engine, row) ==
    IF task[t].kind = "job" /\ engine = Legacy THEN Raise(t)
    ELSE GoWith(t, Succession[task[t].kind].verdict, engine, row)

At(t, stage, phase) ==
    task[t] # Idle /\ task[t].stage = stage /\ task[t].phase = phase

\* run_verification_pipeline is called for a claimed job.
StartJob(t) ==
    /\ task[t] = Idle
    /\ job.status = "queued"
    /\ job' = [status |-> "running", attempts |-> job.attempts + 1]
    /\ task' = [task EXCEPT ![t] = NewTask("job", "visual")]
    /\ UNCHANGED <<visual, fusion, advanced, result, receipt, requests>>

Request ==
    /\ requests < MaxRequests
    /\ requests' = requests + 1

\* The routes retry_visual_analysis, retry_fusion_analysis and recalculate.
StartRequest(t, kind) ==
    /\ Request
    /\ task[t] = Idle
    /\ task' = [task EXCEPT ![t] = NewTask(kind, FirstStage[kind])]
    /\ UNCHANGED <<visual, fusion, advanced, result, receipt, job>>

\* issue_session_receipt: for the newest result, if that is completed.
Newest == IF result[Security].status # "none" THEN Security ELSE Legacy

StartIssue(t) ==
    /\ Request
    /\ task[t] = Idle
    /\ result[Newest].status = "COMPLETED"
    /\ task' = [task EXCEPT ![t] =
            [NewTask("issue", "receipt") EXCEPT !.engine = Newest, !.row = result[Newest]]]
    /\ UNCHANGED <<visual, fusion, advanced, result, receipt, job>>

\* The process dies between two commits.
Crash(t) ==
    /\ task[t] # Idle
    /\ task' = [task EXCEPT ![t] = Idle]
    /\ IF task[t].kind = "job" /\ ~task[t].stalled THEN Retried ELSE UNCHANGED job
    /\ UNCHANGED <<visual, fusion, advanced, result, receipt, requests>>

\* The worker stalls, its lease expires and the queue recovers the job.
LoseLease(t) ==
    /\ task[t] # Idle /\ task[t].kind = "job" /\ ~task[t].stalled
    /\ task' = [task EXCEPT ![t].stalled = TRUE]
    /\ Retried
    /\ UNCHANGED <<visual, fusion, advanced, result, receipt, requests>>

-----------------------------------------------------------------------------
(* analyze_session_visual_motion *)

First(S) == CHOOSE c \in S : \A d \in S : c <= d

\* Only the retry forces: otherwise what is done already is not done again.
Forced(t) == task[t].kind = "visualRetry"

BeginVisual(t) ==
    LET todo == {c \in Challenges : Forced(t) \/ visual[c] \notin VisualDone} IN
    /\ At(t, "visual", "begin")
    /\ visual' = [c \in Challenges |-> IF c \in todo THEN "PROCESSING" ELSE visual[c]]
    /\ task' = [task EXCEPT ![t].phase = "loop", ![t].todo = todo]
    /\ UNCHANGED <<fusion, advanced, result, receipt, job, requests>>

\* The next challenge; another task may have done it meanwhile.
AnalyzeChallenge(t) ==
    /\ At(t, "visual", "loop") /\ task[t].todo # {}
    /\ LET c == First(task[t].todo) IN
         /\ \/ visual' \in {[visual EXCEPT ![c] = status] : status \in VisualDone}
            \/ ~Forced(t) /\ visual[c] \in VisualDone /\ UNCHANGED visual
         /\ task' = [task EXCEPT ![t].todo = @ \ {c}]
    /\ UNCHANGED <<fusion, advanced, result, receipt, job, requests>>

EndVisual(t) ==
    /\ At(t, "visual", "loop") /\ task[t].todo = {}
    /\ Proceed(t)
    /\ UNCHANGED <<visual, fusion, advanced, result, receipt, requests>>

\* An exception: _mark_failure leaves what is done.  Rows that it loaded before
\* another task did them are not done to it (kept: those it reads afresh).
FailVisual(t) ==
    /\ At(t, "visual", "loop")
    /\ \E kept \in SUBSET {c \in task[t].todo : visual[c] \in VisualDone} :
         visual' = [c \in Challenges |->
                        IF c \in task[t].todo \ kept THEN "FAILED" ELSE visual[c]]
    /\ Raise(t)
    /\ UNCHANGED <<fusion, advanced, result, receipt, requests>>

-----------------------------------------------------------------------------
(* analyze_session_fusion, always forced *)

VisualSettled(c) == visual[c] \notin {"none", "PROCESSING"}

\* Mutant: the status of the result in the status of the analysis.
AwaitVisualMixedUp(t) ==
    /\ At(t, "fusion", "begin")
    /\ \E c \in Challenges : ~VisualSettled(c)
    /\ fusion' = [c \in Challenges |->
            IF VisualSettled(c) THEN fusion[c] ELSE "WAITING_FOR_SIGNALS"]
    /\ Proceed(t)
    /\ UNCHANGED <<visual, advanced, result, receipt, requests>>

\* Without its input the analysis marks the rows and returns.
AwaitVisual(t) ==
    /\ At(t, "fusion", "begin")
    /\ \E c \in Challenges : ~VisualSettled(c)
    /\ fusion' = [c \in Challenges |-> IF VisualSettled(c) THEN fusion[c] ELSE "PENDING"]
    /\ Proceed(t)
    /\ UNCHANGED <<visual, advanced, result, receipt, requests>>

BeginFusion(t) ==
    /\ At(t, "fusion", "begin")
    /\ \A c \in Challenges : VisualSettled(c)
    /\ task' = [task EXCEPT ![t].phase = "loop", ![t].todo = Challenges,
            ![t].seen = {c \in Challenges : fusion[c] = "COMPLETE"}]
    /\ UNCHANGED <<visual, fusion, advanced, result, receipt, job, requests>>

\* Nothing is written to a row that was PROCESSING when the task loaded it.
MarkProcessing(t) ==
    /\ At(t, "fusion", "loop") /\ task[t].todo # {}
    /\ LET c == First(task[t].todo) IN
         /\ \/ fusion' = [fusion EXCEPT ![c] = "PROCESSING"]
            \/ c \notin task[t].seen /\ fusion[c] = "COMPLETE" /\ UNCHANGED fusion
         /\ task' = [task EXCEPT ![t].phase = "compare", ![t].seen = @ \ {c}]
    /\ UNCHANGED <<visual, advanced, result, receipt, job, requests>>

StoreDecision(t) ==
    /\ At(t, "fusion", "compare")
    /\ LET c == First(task[t].todo) IN
         /\ fusion' = [fusion EXCEPT ![c] = "COMPLETE"]
         /\ task' = [task EXCEPT ![t].phase = "loop", ![t].todo = @ \ {c},
                ![t].seen = @ \cup {c}]
    /\ UNCHANGED <<visual, advanced, result, receipt, job, requests>>

EndFusion(t) ==
    /\ At(t, "fusion", "loop") /\ task[t].todo = {}
    /\ Proceed(t)
    /\ UNCHANGED <<visual, fusion, advanced, result, receipt, requests>>

\* An exception: _mark_failed leaves what is COMPLETE (kept: read afresh).
FailFusion(t) ==
    /\ At(t, "fusion", "loop") \/ At(t, "fusion", "compare")
    /\ task[t].todo # {}
    /\ \E kept \in SUBSET {c \in Challenges \ task[t].seen : fusion[c] = "COMPLETE"} :
         fusion' = [c \in Challenges |->
                        IF c \in task[t].seen \cup kept THEN fusion[c] ELSE "FAILED"]
    /\ Raise(t)
    /\ UNCHANGED <<visual, advanced, result, receipt, requests>>

-----------------------------------------------------------------------------
(* analyze_advanced_security and analyze_advanced_signals: their rows are only *)
(* ever COMPLETE, and may also be asked for by a route.                        *)

Advance(t) ==
    /\ \E s \in {"security", "signals"} :
         /\ At(t, s, "begin")
         /\ advanced' = advanced \cup {s}
    /\ Proceed(t)
    /\ UNCHANGED <<visual, fusion, result, receipt, requests>>

AdvanceByRoute(s) ==
    /\ Request
    /\ advanced' = advanced \cup {s}
    /\ UNCHANGED <<visual, fusion, result, receipt, job, task>>

\* Storage or the database fails before the stage has committed anything.
FailStage(t) ==
    /\ task[t] # Idle /\ task[t].phase = "begin"
    /\ Raise(t)
    /\ UNCHANGED <<visual, fusion, advanced, result, receipt, requests>>

-----------------------------------------------------------------------------
(* calculate_verification *)

\* engine_version_for_session
Engine == IF advanced = {"security", "signals"} THEN Security ELSE Legacy

Calculations == Cardinality({t \in Tasks : At(t, "verdict", "loop")})

\* A completed decision is returned as it is.
ReturnCompleted(t) ==
    /\ At(t, "verdict", "begin")
    /\ result[Engine].status = "COMPLETED"
    /\ Conclude(t, Engine, result[Engine])
    /\ UNCHANGED <<visual, fusion, advanced, result, receipt, requests>>

\* Mutant: force calculates a completed decision again.
LoadResultForced(t) ==
    /\ At(t, "verdict", "begin")
    /\ Calculations < MaxCalculations
    /\ task' = [task EXCEPT ![t].phase = "loop", ![t].engine = Engine,
            ![t].row = result[Engine]]
    /\ UNCHANGED <<visual, fusion, advanced, result, receipt, job, requests>>

\* Otherwise the row is loaded and reset, or a new one inserted.
LoadResult(t) ==
    /\ At(t, "verdict", "begin")
    /\ result[Engine].status # "COMPLETED"
    /\ Calculations < MaxCalculations
    /\ task' = [task EXCEPT ![t].phase = "loop", ![t].engine = Engine,
            ![t].row = result[Engine]]
    /\ UNCHANGED <<visual, fusion, advanced, result, receipt, job, requests>>

\* _upstream_processing, and the one required signal that may be missing.
Upstream ==
    \/ \E c \in Challenges : visual[c] \in {"none", "PROCESSING"}
    \/ \E c \in Challenges : fusion[c] \in FusionInFlight

Decision ==
    IF \A c \in Challenges : visual[c] # "FAILED" /\ fusion[c] = "COMPLETE"
    THEN "full" ELSE "degraded"

\* The unique constraint refuses the second of two insertions.
Inserted(t) == task[t].row = NoResult /\ result[task[t].engine] # NoResult

\* Mutant: the task issues a receipt for whatever it was given.
WaitThenIssue(t) ==
    LET e == task[t].engine
        waiting == [status |-> "WAITING_FOR_SIGNALS", decision |-> "none"]
    IN
    /\ At(t, "verdict", "loop") /\ ~Inserted(t)
    /\ Upstream
    /\ result' = IF task[t].row = NoResult THEN [result EXCEPT ![e] = waiting] ELSE result
    /\ Conclude(t, e, waiting)
    /\ UNCHANGED <<visual, fusion, advanced, receipt, requests>>

\* WAITING_FOR_SIGNALS is committed; in a row that was loaded so, no column
\* differs and nothing is written.
Wait(t) ==
    LET e == task[t].engine IN
    /\ At(t, "verdict", "loop") /\ ~Inserted(t)
    /\ Upstream
    /\ result' = IF task[t].row = NoResult
                 THEN [result EXCEPT ![e].status = "WAITING_FOR_SIGNALS"] ELSE result
    /\ Raise(t)
    /\ UNCHANGED <<visual, fusion, advanced, receipt, requests>>

Decide(t) ==
    LET e == task[t].engine
        decided == [status |-> "COMPLETED", decision |-> Decision]
    IN
    /\ At(t, "verdict", "loop") /\ ~Inserted(t)
    /\ ~Upstream
    /\ result' = [result EXCEPT ![e] = decided]
    /\ Conclude(t, e, decided)
    /\ UNCHANGED <<visual, fusion, advanced, receipt, requests>>

\* The insertion collides or the transaction fails: rolled back.
FailVerdict(t) ==
    /\ At(t, "verdict", "loop")
    /\ Raise(t)
    /\ UNCHANGED <<visual, fusion, advanced, result, receipt, requests>>

-----------------------------------------------------------------------------
(* issue_automated_receipt and revoke_receipt *)

Exists(e) == receipt[e].status # "none"

KeepReceipt(t) ==
    /\ At(t, "receipt", "begin")
    /\ Exists(task[t].engine)
    /\ Proceed(t)
    /\ UNCHANGED <<visual, fusion, advanced, result, receipt, requests>>

\* The receipts are read, the evidence is sealed: its hashes take a while.
SealEvidence(t) ==
    /\ At(t, "receipt", "begin")
    /\ ~Exists(task[t].engine)
    /\ task' = [task EXCEPT ![t].phase = "loop",
            ![t].before = [e \in Engines |-> receipt[e].status]]
    /\ UNCHANGED <<visual, fusion, advanced, result, receipt, job, requests>>

\* Mutant: manifests are not unique.
TakenByResult(t) == Exists(task[t].engine)

\* A receipt issued meanwhile holds the unique key of the result, or that of the
\* session's manifest, which the first receipt of a session inserts.
Taken(t) == \E e \in Engines : task[t].before[e] = "none" /\ Exists(e)

\* What the search for previous receipts may return: it sees some moment since.
Previous(t) ==
    LET before == {e \in Engines : task[t].before[e] = "ISSUED"}
        now == {e \in Engines : receipt[e].status = "ISSUED"}
    IN {found \in SUBSET (before \cup now) : before \cap now \subseteq found}

IssueReceipt(t) ==
    LET own == task[t].engine IN
    /\ At(t, "receipt", "loop") /\ ~Taken(t)
    /\ \E previous \in Previous(t) :
         receipt' = [e \in Engines |->
            IF e = own THEN [status |-> "ISSUED", decision |-> task[t].row.decision]
            ELSE IF e \in previous THEN [receipt[e] EXCEPT !.status = "SUPERSEDED"]
            ELSE receipt[e]]
    /\ Proceed(t)
    /\ UNCHANGED <<visual, fusion, advanced, result, requests>>

\* The insertion collides or the transaction fails: rolled back.
FailReceipt(t) ==
    /\ At(t, "receipt", "loop")
    /\ Raise(t)
    /\ UNCHANGED <<visual, fusion, advanced, result, receipt, requests>>

Revoke(e) ==
    /\ Request
    /\ receipt[e].status \in {"ISSUED", "SUPERSEDED"}
    /\ receipt' = [receipt EXCEPT ![e].status = "REVOKED"]
    /\ UNCHANGED <<visual, fusion, advanced, result, job, task>>

-----------------------------------------------------------------------------
Analysis(t) ==
    \/ BeginVisual(t) \/ AnalyzeChallenge(t) \/ EndVisual(t) \/ FailVisual(t)
    \/ AwaitVisual(t) \/ BeginFusion(t) \/ MarkProcessing(t)
    \/ StoreDecision(t) \/ EndFusion(t) \/ FailFusion(t)
    \/ Advance(t) \/ FailStage(t)

Calculation(t) ==
    \/ ReturnCompleted(t) \/ LoadResult(t)
    \/ Wait(t) \/ Decide(t) \/ FailVerdict(t)

Issuance(t) ==
    KeepReceipt(t) \/ SealEvidence(t) \/ IssueReceipt(t) \/ FailReceipt(t)

Administration ==
    \/ \E t \in Tasks, kind \in DOMAIN FirstStage : StartRequest(t, kind)
    \/ \E s \in {"security", "signals"} : AdvanceByRoute(s)
    \/ \E t \in Tasks : StartIssue(t)
    \/ \E e \in Engines : Revoke(e)

Next ==
    \/ \E t \in Tasks :
         \/ StartJob(t) \/ Crash(t) \/ LoseLease(t)
         \/ Analysis(t) \/ Calculation(t) \/ Issuance(t)
    \/ Administration

Spec == Init /\ [][Next]_vars

-----------------------------------------------------------------------------
(* Properties. *)

\* At most one receipt of a session is current, however issues and revocations
\* overlap (issue_automated_receipt supersedes the others).
OneCurrentReceipt ==
    Cardinality({e \in Engines : receipt[e].status = "ISSUED"}) <= 1

\* A receipt, current or not, signs the decision that its result still shows:
\* "Automated decisions and any receipts derived from them are historical
\* records" (calculate_verification).
ReceiptSealsDecision ==
    \A e \in Engines : Exists(e) =>
        result[e] = [status |-> "COMPLETED", decision |-> receipt[e].decision]

\* A job that succeeded has left the security engine's decision and a receipt
\* for it (run_verification_pipeline, worker.py).
SuccessIsSealed ==
    job.status = "succeeded" => result[Security].status = "COMPLETED" /\ Exists(Security)

\* "force may resume/retry an unfinished calculation, but it never rewrites a
\* completed decision" (calculate_verification): whatever is analysed anew.
DecisionIsImmutable ==
    [][\A e \in Engines : result[e].status = "COMPLETED" => result'[e] = result[e]]_vars
=============================================================================
