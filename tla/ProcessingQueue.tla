--------------------------- MODULE ProcessingQueue ---------------------------
(***************************************************************************)
(* The durable verification queue (services/processing_queue.py) and the   *)
(* worker processes that serve it (worker.py).                             *)
(*                                                                         *)
(* One row per job lives in PostgreSQL.  A worker claims a row under a     *)
(* time-limited lease, a heartbeat thread of the same process renews the   *)
(* lease, and the worker finally marks the row.  Heartbeats and marks are  *)
(* a SELECT (does my attempt still own the row?) followed by an UPDATE by  *)
(* primary key, in a transaction that takes no row lock before the UPDATE: *)
(* they are two steps here.  ReadCommitted says whether another            *)
(* transaction may commit between the two (PostgreSQL's default) or not    *)
(* (SQLite's database lock, under which the repository's tests run).       *)
(*                                                                         *)
(* Jobs are numbered in the order of created_at.  A timestamp is the       *)
(* number of ticks until it is due; a due next_attempt_at and a null one   *)
(* both read as "runnable now" and are both 0.  last_error is left out.    *)
(***************************************************************************)
EXTENDS Integers, FiniteSets

CONSTANTS
    JobCount,       \* jobs that may be enqueued
    Workers,        \* worker processes
    MaxAttempts,    \* DEFAULT_MAX_ATTEMPTS
    Lease,          \* DEFAULT_LEASE_SECONDS, in ticks
    BaseDelay,      \* back-off after the first failure, in ticks
    DelayCap,       \* longest back-off, in ticks
    Repairs,        \* bound: extra attempts an operator grants a failed job
    ReadCommitted   \* may a commit fall between a check and its write?

ASSUME QueueAssumption ==
    /\ JobCount \in Nat
    /\ MaxAttempts \in Nat \ {0}
    /\ Lease \in Nat \ {0}
    /\ BaseDelay \in Nat
    /\ DelayCap \in Nat
    /\ Repairs \in Nat
    /\ ReadCommitted \in BOOLEAN

VARIABLES
    status,     \* the row's status, "ABSENT" before it is inserted
    attempts,   \* attempts claimed so far: the fencing token
    budget,     \* the row's max_attempts
    lease,      \* ticks until lease_expires_at, NoLease for null
    dueIn,      \* ticks until next_attempt_at
    main,       \* per worker: what its main thread is doing, for which attempt
    beats,      \* heartbeats between their check and their write
    finished    \* history: attempts whose pipeline run returned normally

rows == <<status, attempts, budget, lease, dueIn>>
vars == <<status, attempts, budget, lease, dueIn, main, beats, finished>>

Jobs == 1 .. JobCount
NoLease == -1
Statuses == {"ABSENT", "PENDING", "RUNNING", "RETRY", "COMPLETED", "FAILED"}
Terminal == {"COMPLETED", "FAILED"}

\* A worker past the check of a mark is about to write it.
Marking == {"complete", "retry", "bury"}
Idle == [pc |-> "idle", job |-> 0, attempt |-> 0]

TypeOK ==
    /\ status \in [Jobs -> Statuses]
    /\ attempts \in [Jobs -> Nat]
    /\ budget \in [Jobs -> Nat]
    /\ lease \in [Jobs -> {NoLease} \cup 0 .. Lease]
    /\ dueIn \in [Jobs -> 0 .. DelayCap]
    /\ main \in [Workers -> {Idle} \cup
                  [pc : {"run"} \cup Marking, job : Jobs, attempt : Nat]]
    /\ beats \subseteq [worker : Workers, job : Jobs, attempt : Nat]
    /\ finished \subseteq Jobs \X Nat

Init ==
    /\ status = [j \in Jobs |-> "ABSENT"]
    /\ attempts = [j \in Jobs |-> 0]
    /\ budget = [j \in Jobs |-> MaxAttempts]
    /\ lease = [j \in Jobs |-> NoLease]
    /\ dueIn = [j \in Jobs |-> 0]
    /\ main = [w \in Workers |-> Idle]
    /\ beats = {}
    /\ finished = {}

-----------------------------------------------------------------------------
(* Transactions. *)

MarkInFlight(w) == main[w].pc \in Marking

\* Under SQLite's lock no transaction starts while another is open.
MayBegin == ReadCommitted \/ (beats = {} /\ \A w \in Workers : ~MarkInFlight(w))

\* Rows that SKIP LOCKED may pass over for worker w: a heartbeat or a mark is
\* being written, or another idle worker is inside its own claim.
Lockable(w) ==
    {j \in Jobs :
        /\ ReadCommitted
        /\ \/ \E b \in beats : b.job = j
           \/ \E v \in Workers \ {w} :
                \/ MarkInFlight(v) /\ main[v].job = j
                \/ main[v].pc = "idle"}

\* Mutants: a check that ignores the token, and one that ignores the status.
AnyRunningAttempt(j, a) == status[j] = "RUNNING"
SameAttemptAnyStatus(j, a) == attempts[j] = a

\* _active_attempt: the check of the fencing token.
ActiveAttempt(j, a) == status[j] = "RUNNING" /\ attempts[j] = a

-----------------------------------------------------------------------------
(* Producers. *)

\* enqueue_processing_job, no row yet.  The unique constraint and the savepoint
\* make one of two racing inserts the winner and the other a reuse of it.  The
\* other columns of an absent row already hold the values of the INSERT (Init).
Enqueue(j) ==
    /\ MayBegin
    /\ status[j] = "ABSENT"
    /\ \A i \in Jobs : i < j => status[i] # "ABSENT"
    /\ status' = [status EXCEPT ![j] = "PENDING"]
    /\ UNCHANGED <<attempts, budget, lease, dueIn, main, beats, finished>>

\* enqueue_processing_job on an existing row: only a FAILED row with attempts
\* left is touched (_reuse_existing_job).
Reenqueue(j) ==
    /\ MayBegin
    /\ status[j] = "FAILED"
    /\ attempts[j] < budget[j]
    /\ status' = [status EXCEPT ![j] = "RETRY"]
    /\ dueIn' = [dueIn EXCEPT ![j] = 0]
    /\ lease' = [lease EXCEPT ![j] = NoLease]
    /\ UNCHANGED <<attempts, budget, main, beats, finished>>

\* The "manually repaired failed job" of the comment in _reuse_existing_job: an
\* operator grants one more attempt in the database.
Repair(j) ==
    /\ MayBegin
    /\ status[j] = "FAILED"
    /\ budget[j] < MaxAttempts + Repairs
    /\ budget' = [budget EXCEPT ![j] = @ + 1]
    /\ UNCHANGED <<status, attempts, lease, dueIn, main, beats, finished>>

-----------------------------------------------------------------------------
(* Claiming. *)

\* Mutants: recovery that leaves a last attempt alone, or never buries a job.
ExpiredWithBudget(skipped) ==
    {j \in Jobs \ skipped :
        status[j] = "RUNNING" /\ lease[j] = 0 /\ attempts[j] < budget[j]}
NeverExhausted(j) == FALSE

\* _recover_expired_leases, as the rows it leaves for the rest of the claim.
Expired(skipped) ==
    {j \in Jobs \ skipped : status[j] = "RUNNING" /\ lease[j] = 0}
Exhausted(j) == attempts[j] >= budget[j]

RecoveredStatus(skipped) ==
    [j \in Jobs |-> IF j \notin Expired(skipped) THEN status[j]
                    ELSE IF Exhausted(j) THEN "FAILED" ELSE "RETRY"]
RecoveredLease(skipped) ==
    [j \in Jobs |-> IF j \in Expired(skipped) THEN NoLease ELSE lease[j]]
RecoveredDueIn(skipped) ==
    [j \in Jobs |-> IF j \in Expired(skipped) THEN 0 ELSE dueIn[j]]

\* Mutants: a second claim that does not count, a claim that sets no lease.
UncountedReclaim(j) == IF attempts[j] = 0 THEN 1 ELSE attempts[j]
UnleasedClaim(j) == lease[j]

Runnable(skipped) ==
    {j \in Jobs \ skipped :
        /\ RecoveredStatus(skipped)[j] \in {"PENDING", "RETRY"}
        /\ attempts[j] < budget[j]
        /\ RecoveredDueIn(skipped)[j] = 0}

NextAttempt(j) == attempts[j] + 1
ClaimLease(j) == Lease

\* claim_processing_job returns a job: recovery and claim commit together.
Claim(w) ==
    /\ main[w].pc = "idle"
    /\ MayBegin
    /\ \E skipped \in SUBSET Lockable(w) : \E j \in Runnable(skipped) :
        /\ \A i \in Runnable(skipped) : j <= i
        /\ status' = [RecoveredStatus(skipped) EXCEPT ![j] = "RUNNING"]
        /\ attempts' = [attempts EXCEPT ![j] = NextAttempt(j)]
        /\ dueIn' = [RecoveredDueIn(skipped) EXCEPT ![j] = 0]
        /\ lease' = [RecoveredLease(skipped) EXCEPT ![j] = ClaimLease(j)]
        /\ main' = [main EXCEPT ![w] =
                     [pc |-> "run", job |-> j, attempt |-> NextAttempt(j)]]
    /\ UNCHANGED <<budget, beats, finished>>

\* claim_processing_job returns None: only the recovery is committed.
PollEmpty(w) ==
    /\ main[w].pc = "idle"
    /\ MayBegin
    /\ \E skipped \in SUBSET Lockable(w) :
        /\ Runnable(skipped) = {}
        /\ Expired(skipped) # {}
        /\ status' = RecoveredStatus(skipped)
        /\ dueIn' = RecoveredDueIn(skipped)
        /\ lease' = RecoveredLease(skipped)
    /\ UNCHANGED <<attempts, budget, main, beats, finished>>

-----------------------------------------------------------------------------
(* The attempt: pipeline, heartbeat, mark. *)

\* run_verification_pipeline returned; mark_processing_job_succeeded reads the
\* row and gives up when the attempt is no longer the active one.
CheckSucceeded(w) ==
    /\ main[w].pc = "run"
    /\ MayBegin
    /\ finished' = finished \cup {<<main[w].job, main[w].attempt>>}
    /\ main' = [main EXCEPT ![w] =
                 IF ActiveAttempt(@.job, @.attempt)
                 THEN [@ EXCEPT !.pc = "complete"] ELSE Idle]
    /\ UNCHANGED <<rows, beats>>

\* The pipeline raised; mark_processing_job_failed reads the row and decides
\* from what it read whether the budget is spent.
CheckFailed(w) ==
    /\ main[w].pc = "run"
    /\ MayBegin
    /\ LET verdict == IF Exhausted(main[w].job) THEN "bury" ELSE "retry"
       IN main' = [main EXCEPT ![w] =
                    IF ActiveAttempt(@.job, @.attempt)
                    THEN [@ EXCEPT !.pc = verdict] ELSE Idle]
    /\ UNCHANGED <<rows, beats, finished>>

\* Mutant: back-off without a cap.
RetryDelayUncapped(a) == BaseDelay * 2 ^ (a - 1)

\* min(300, 5 * 2 ** (attempts - 1))
RetryDelay(a) ==
    LET d == BaseDelay * 2 ^ (a - 1)
    IN IF d \in 0 .. DelayCap THEN d ELSE DelayCap

\* The UPDATE of a mark.  It names the row by id and sets the columns that
\* differ from the row as read: next_attempt_at, null in every RUNNING row, is
\* written by a retry only.
WriteMark(w) ==
    LET j == main[w].job IN
    /\ MarkInFlight(w)
    /\ status' = [status EXCEPT ![j] =
                   CASE main[w].pc = "complete" -> "COMPLETED"
                     [] main[w].pc = "bury" -> "FAILED"
                     [] main[w].pc = "retry" -> "RETRY"]
    /\ dueIn' = [dueIn EXCEPT ![j] =
                  IF main[w].pc = "retry" THEN RetryDelay(main[w].attempt) ELSE @]
    /\ lease' = [lease EXCEPT ![j] = NoLease]
    /\ main' = [main EXCEPT ![w] = Idle]
    /\ UNCHANGED <<attempts, budget, beats, finished>>

\* heartbeat_processing_job, the read.  The thread lives until the main thread
\* is done with the attempt; a failed check ends it, which changes nothing here
\* because an attempt that lost its row never gets it back.
CheckHeartbeat(w) ==
    LET b == [worker |-> w, job |-> main[w].job, attempt |-> main[w].attempt] IN
    /\ main[w].pc # "idle"
    /\ MayBegin
    /\ b \notin beats
    /\ ActiveAttempt(b.job, b.attempt)
    /\ beats' = beats \cup {b}
    /\ UNCHANGED <<rows, main, finished>>

\* heartbeat_processing_job, the UPDATE of lease_expires_at.  It may come after
\* the main thread moved on: join waits for the thread at most two seconds.
WriteHeartbeat(b) ==
    /\ b \in beats
    /\ lease' = [lease EXCEPT ![b.job] = Lease]
    /\ beats' = beats \ {b}
    /\ UNCHANGED <<status, attempts, budget, dueIn, main, finished>>

-----------------------------------------------------------------------------
(* Failure and time. *)

\* The mark itself raised (the database was unreachable): process_one ends, the
\* heartbeat is told to stop, and the row stays RUNNING until its lease runs out.
LoseMark(w) ==
    /\ main[w].pc # "idle"
    /\ main' = [main EXCEPT ![w] = Idle]
    /\ UNCHANGED <<rows, beats, finished>>

\* The worker process dies and is restarted; open transactions roll back.
Crash(w) ==
    /\ main[w].pc # "idle" \/ \E b \in beats : b.worker = w
    /\ main' = [main EXCEPT ![w] = Idle]
    /\ beats' = {b \in beats : b.worker # w}
    /\ UNCHANGED <<rows, finished>>

CountDown(t) == IF t > 0 THEN t - 1 ELSE t

\* Nothing keeps a worker from being stalled past its own lease.
Tick ==
    /\ \E j \in Jobs : lease[j] > 0 \/ dueIn[j] > 0
    /\ lease' = [j \in Jobs |-> CountDown(lease[j])]
    /\ dueIn' = [j \in Jobs |-> CountDown(dueIn[j])]
    /\ UNCHANGED <<status, attempts, budget, main, beats, finished>>

-----------------------------------------------------------------------------
Producer == \E j \in Jobs : Enqueue(j) \/ Reenqueue(j) \/ Repair(j)

Poll(w) == Claim(w) \/ PollEmpty(w)
EndPipeline(w) == CheckSucceeded(w) \/ CheckFailed(w)

Worker(w) ==
    \/ Poll(w) \/ EndPipeline(w) \/ WriteMark(w)
    \/ CheckHeartbeat(w) \/ LoseMark(w) \/ Crash(w)

Next ==
    \/ Producer
    \/ \E w \in Workers : Worker(w)
    \/ \E b \in beats : WriteHeartbeat(b)
    \/ Tick

Spec == Init /\ [][Next]_vars

\* The worker loop polls for ever, a pipeline run ends (it has time limits of
\* its own), an open transaction commits, and time passes.  Starting a
\* transaction gets strong fairness: a lock is held for an instant, so a worker
\* that keeps asking meets a free one.  Nobody has to enqueue, crash or repair.
Fairness ==
    /\ \A w \in Workers : /\ SF_vars(Poll(w))
                          /\ SF_vars(EndPipeline(w))
                          /\ WF_vars(WriteMark(w))
    /\ WF_vars(\E b \in beats : WriteHeartbeat(b))
    /\ WF_vars(Tick)

FairSpec == Spec /\ Fairness

-----------------------------------------------------------------------------
(* What holds under either isolation. *)

\* Every RUNNING row carries a lease, so that a later claim can always recover
\* it: no interleaving of claims, stale heartbeats and stale marks leaves a job
\* RUNNING with nobody able to take it back (lines 97-98 skip a null lease).
RunningIsRecoverable == \A j \in Jobs : status[j] = "RUNNING" => lease[j] # NoLease

\* Retries, lease recoveries and crashes together never hand out more attempts
\* than the row's max_attempts, and no worker holds an attempt never claimed.
AttemptsWithinBudget ==
    /\ \A j \in Jobs : attempts[j] <= budget[j]
    /\ \A w \in Workers : main[w] # Idle => main[w].attempt <= attempts[main[w].job]

\* SKIP LOCKED and the attempt counter make an attempt a token: no two workers
\* ever run the same attempt of the same job.
OneWorkerPerAttempt ==
    \A v, w \in Workers :
        /\ v # w /\ main[v] # Idle /\ main[w] # Idle
        => <<main[v].job, main[v].attempt>> # <<main[w].job, main[w].attempt>>

-----------------------------------------------------------------------------
(* What the fencing token is there for (comment in heartbeat_processing_job). *)

\* Without interleaving, at most one heartbeat or mark is open, what its check
\* saw still holds, and a success is marked only after the pipeline returned:
\* the inductive core of the two properties below.
CheckStillHolds ==
    /\ \A w \in Workers : MarkInFlight(w) =>
         /\ status[main[w].job] = "RUNNING" /\ attempts[main[w].job] = main[w].attempt
         /\ main[w].pc = "complete" => <<main[w].job, main[w].attempt>> \in finished
         /\ beats = {}
         /\ \A v \in Workers : MarkInFlight(v) => v = w
    /\ \A b \in beats :
         /\ status[b.job] = "RUNNING" /\ attempts[b.job] = b.attempt
         /\ \A c \in beats : c = b

\* A job is COMPLETED only if the pipeline run of its latest attempt returned:
\* a superseded attempt never completes its replacement.
CompletedByLatestAttempt ==
    \A j \in Jobs : status[j] = "COMPLETED" => <<j, attempts[j]>> \in finished

\* A terminal success is immutable (comment in _reuse_existing_job), and a
\* failed job comes back only after somebody granted it another attempt.
TerminalIsFinal ==
    [][\A j \in Jobs :
         /\ status[j] = "COMPLETED" => status'[j] = "COMPLETED"
         /\ status[j] = "FAILED" /\ status'[j] # "FAILED"
            => status'[j] = "RETRY" /\ attempts[j] < budget[j]]_vars

\* No job is lost: whatever crashes, stalls and failures happen, an enqueued
\* job eventually succeeds or runs out of attempts, and the queue says so.
EveryJobEnds == \A j \in Jobs : status[j] # "ABSENT" ~> status[j] \in Terminal

-----------------------------------------------------------------------------
(* The queue implements DurableJobs. *)

PhaseOf(st) ==
    CASE st = "ABSENT" -> "none"
      [] st \in {"PENDING", "RETRY"} -> "waiting"
      [] st = "RUNNING" -> "active"
      [] st = "COMPLETED" -> "done"
      [] st = "FAILED" -> "dead"

\* The state of DurableJobs that a state of the queue stands for.
AbstractJob ==
    [j \in Jobs |-> [phase |-> PhaseOf(status[j]),
                     starts |-> attempts[j],
                     allowance |-> budget[j],
                     ran |-> <<j, attempts[j]>> \in finished]]

Durable == INSTANCE DurableJobs WITH job <- AbstractJob

\* Seen from the code that enqueues a job, a queue whose transactions do not
\* interleave behaves as DurableJobs: every claim, recovery, retry, crash and
\* repair is one of its moves or invisible.
ImplementsDurableJobs == Durable!Spec
=============================================================================
