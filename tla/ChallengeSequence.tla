------------------------- MODULE ChallengeSequence -------------------------
(***************************************************************************)
(* The movement challenges of one verification session                     *)
(* (services/challenges/service.py): issue the next one, start it, submit  *)
(* its sensor evidence, retry it, and settle the session's challenge stage.*)
(*                                                                         *)
(* start_challenge and submit_challenge hold the challenge's row FOR       *)
(* UPDATE; issue_next_challenge takes no lock.  As in InspectionLifecycle, *)
(* a handler that nothing overlaps runs as request Now in one step; one of *)
(* Requests loads its rows first (Load, Lock), may read the table again    *)
(* (Reread), and decides on what it read.                                  *)
(*                                                                         *)
(* Validators, nonces, sensor windows and clocks are abstracted: a valid   *)
(* submission has any result, and a challenge's expires_at passes at any   *)
(* moment (late).  A late challenge may still be submitted: what counts is *)
(* when its evidence ended (_validate_structure).                          *)
(***************************************************************************)
EXTENDS Integers, FiniteSets

CONSTANTS
    Requests,       \* overlapped requests that may be open at once
    Now,            \* the request that nothing overlaps
    Submissions,    \* idempotency keys, each with its evidence
    NoSubmission,   \* submission_idempotency_key is NULL
    ChallengeCount, \* settings.challenge_count
    MaxRetries,     \* settings.challenge_max_retries
    FailureLimit    \* settings.challenge_failure_limit

ASSUME ChallengeAssumption ==
    /\ Now \notin Requests
    /\ NoSubmission \notin Submissions
    /\ ChallengeCount \in Nat \ {0}
    /\ MaxRetries \in Nat
    /\ FailureLimit \in Nat \ {0}

VARIABLES
    session,     \* verification_sessions.status
    overdue,     \* verification_sessions.expires_at has passed
    challenges,  \* verification_challenges by <<sequence_number, attempt_number>>
    view,        \* per request: what it has read and marked
    locked       \* per request: the set of the challenge whose row it holds

rows == <<session, overdue, challenges>>
vars == <<session, overdue, challenges, view, locked>>

ACTIVE_CHALLENGE_STATES == {"ISSUED", "STARTED"}
Results == {"PASSED", "FAILED", "INCONCLUSIVE"}
TERMINAL_CHALLENGE_STATES == Results \cup {"EXPIRED"}
ChallengesOver == {"CHALLENGES_COMPLETED", "CHALLENGE_FAILED"}

\* ENDED: the capture was completed, aborted or expired.
SessionStatus == {"CAPTURING", "CHALLENGES_IN_PROGRESS", "ENDED"} \cup ChallengesOver

\* late: expires_at has passed, told only of an active challenge.
Keys == (Nat \ {0}) \X (Nat \ {0})
Challenge ==
    [status : ACTIVE_CHALLENGE_STATES \cup TERMINAL_CHALLENGE_STATES,
     submission : Submissions \cup {NoSubmission},
     late : BOOLEAN]

Closed == [session |-> "ENDED", overdue |-> TRUE, rows |-> << >>, lapsed |-> {}]

TypeOK ==
    /\ session \in SessionStatus
    /\ overdue \in BOOLEAN
    /\ DOMAIN challenges \in SUBSET Keys
    /\ \A k \in DOMAIN challenges : challenges[k] \in Challenge
    /\ \A r \in Requests : locked[r] \in SUBSET DOMAIN challenges

Init ==
    /\ session = "CAPTURING"
    /\ overdue = FALSE
    /\ challenges = << >>
    /\ view = [r \in Requests |-> Closed]
    /\ locked = [r \in Requests |-> {}]

-----------------------------------------------------------------------------
(* Rows as a request sees them. *)

Stored == [session |-> session, overdue |-> overdue, rows |-> challenges,
           lapsed |-> {}]

Seen(r) == IF r = Now THEN Stored ELSE view[r]

\* The rows a handler works on: those it marked expired (_mark_expired) count
\* as expired before they are written.
Marked(d) ==
    [k \in DOMAIN d.rows |->
        IF k \in d.lapsed THEN [d.rows[k] EXCEPT !.status = "EXPIRED"]
        ELSE d.rows[k]]

ActiveKeys(t) == {k \in DOMAIN t : t[k].status \in ACTIVE_CHALLENGE_STATES}

\* The last row ordered by sequence_number, attempt_number.
Last(K) ==
    CHOOSE k \in K :
        \A j \in K : j[1] < k[1] \/ (j[1] = k[1] /\ j[2] <= k[2])

\* An expired challenge has result INCONCLUSIVE.
Retryable(c) == c.status \in {"FAILED", "INCONCLUSIVE", "EXPIRED"}

RetryCount(t, s) == Cardinality({k \in DOMAIN t : k[1] = s /\ k[2] > 1})

\* Mutant: one retry over the budget.
MayRetryOnceMore(t, k) == Retryable(t[k]) /\ RetryCount(t, k[1]) <= MaxRetries

MayRetry(t, k) == Retryable(t[k]) /\ RetryCount(t, k[1]) < MaxRetries

\* Mutant: numbers start from zero.
NextFromZero(t) ==
    IF DOMAIN t = {} THEN <<0, 1>>
    ELSE LET k == Last(DOMAIN t)
         IN  IF MayRetry(t, k) THEN <<k[1], k[2] + 1>> ELSE <<k[1] + 1, 1>>

NextKey(t) ==
    IF DOMAIN t = {} THEN <<1, 1>>
    ELSE LET k == Last(DOMAIN t)
         IN  IF MayRetry(t, k) THEN <<k[1], k[2] + 1>> ELSE <<k[1] + 1, 1>>

Sequences(t) == {k[1] : k \in DOMAIN t}
LatestKeys(t) == {k \in DOMAIN t : \A j \in DOMAIN t : j[1] = k[1] => j[2] <= k[2]}
ExplicitFailures(t) == {k \in LatestKeys(t) : t[k].status = "FAILED"}

\* Mutant: failed attempts that were tried again count as failures.
FinalizedByAnyFailure(t, before) ==
    IF Cardinality(Sequences(t)) < ChallengeCount THEN before
    ELSE IF Cardinality({k \in DOMAIN t : t[k].status = "FAILED"}) >= FailureLimit
         THEN "CHALLENGE_FAILED"
    ELSE "CHALLENGES_COMPLETED"

\* Mutant: waits for one challenge more than are issued.
FinalizedBeyond(t, before) ==
    IF Cardinality(Sequences(t)) <= ChallengeCount THEN before
    ELSE IF Cardinality(ExplicitFailures(t)) >= FailureLimit THEN "CHALLENGE_FAILED"
    ELSE "CHALLENGES_COMPLETED"

\* _finalize_sequence: the session status it leaves, given the one before.
Finalized(t, before) ==
    IF Cardinality(Sequences(t)) < ChallengeCount THEN before
    ELSE IF Cardinality(ExplicitFailures(t)) >= FailureLimit THEN "CHALLENGE_FAILED"
    ELSE "CHALLENGES_COMPLETED"

-----------------------------------------------------------------------------
(* Requests and transactions. *)

Open(r) == r \in {Now} \cup {q \in Requests : view[q] # Closed}

Close(r) ==
    /\ view' = [q \in Requests |-> IF q = r THEN Closed ELSE view[q]]
    /\ locked' = [q \in Requests |-> IF q = r THEN {} ELSE locked[q]]

\* No other request holds the row of one of the challenges K.
Free(r, K) == \A q \in Requests \ {r} : locked[q] \cap K = {}

\* The session's status is written only if it changed (unit of work).
WriteSession(d, status) ==
    session' = IF status = d.session THEN session ELSE status

\* issue_next_challenge's first queries.
Load(r) ==
    /\ ~Open(r)
    /\ view' = [view EXCEPT ![r] = Stored]
    /\ UNCHANGED <<rows, locked>>

\* _challenge_for_update, then the session.
Lock(r, k) ==
    /\ ~Open(r)
    /\ Free(r, {k})
    /\ view' = [view EXCEPT ![r] = Stored]
    /\ locked' = [locked EXCEPT ![r] = {k}]
    /\ UNCHANGED rows

\* The active challenge that issue_next_challenge is about to expire.
LateActive(d) ==
    {k \in ActiveKeys(d.rows) : k = Last(ActiveKeys(d.rows)) /\ d.rows[k].late}

\* _challenge_rows again.  Rows loaded before keep the values they had; a handler
\* that holds a challenge had loaded no other row.
Reread(r) ==
    /\ r \in Requests /\ Open(r)
    /\ LET d == view[r]
           old == IF locked[r] = {} THEN d.rows ELSE << >>
           known == [k \in DOMAIN challenges \cup DOMAIN old |->
                        IF k \in DOMAIN old THEN old[k] ELSE challenges[k]]
       IN  /\ locked[r] = {} => d.lapsed = {} /\ LateActive(d) # {}
           /\ view' = [view EXCEPT ![r].rows = known,
                                   ![r].lapsed = IF locked[r] = {} THEN LateActive(d) ELSE {}]
    /\ UNCHANGED <<rows, locked>>

\* A handler that raises, finds nothing to change or loses its client.
RollBack(r) ==
    /\ r \in Requests /\ Open(r)
    /\ Close(r)
    /\ UNCHANGED rows

-----------------------------------------------------------------------------
(* The handlers. *)

Accepting(d) == ~d.overdue /\ d.session \in {"CAPTURING", "CHALLENGES_IN_PROGRESS"}

\* issue_next_challenge has passed its return of the active challenge, which it
\* expires if it is late.
PastActive(d) ==
    IF d.lapsed # {} \/ ActiveKeys(d.rows) = {} THEN d
    ELSE [d EXCEPT !.lapsed = LateActive(d)]

NewChallenge == [status |-> "ISSUED", submission |-> NoSubmission, late |-> FALSE]

\* The table with the challenges K marked expired.
WithExpired(K) == [k \in DOMAIN challenges |->
    IF k \in K THEN [challenges[k] EXCEPT !.status = "EXPIRED", !.late = FALSE]
    ELSE challenges[k]]

IssueNext(r) ==
    LET d == PastActive(Seen(r))
        t == Marked(d)
        k == NextKey(t)
    IN
    /\ Open(r) /\ locked' = locked
    /\ r \in Requests => locked[r] = {}
    /\ Accepting(d)
    /\ ActiveKeys(d.rows) # {} => d.lapsed # {}
    /\ Free(r, d.lapsed)
    /\ k[1] <= ChallengeCount
    /\ k \notin DOMAIN challenges   \* uq_challenge_session_sequence_attempt
    /\ challenges' = [j \in DOMAIN challenges \cup {k} |->
                        IF j = k THEN NewChallenge ELSE WithExpired(d.lapsed)[j]]
    /\ WriteSession(d, "CHALLENGES_IN_PROGRESS")
    /\ view' = [q \in Requests |-> IF q = r THEN Closed ELSE view[q]]
    /\ UNCHANGED overdue

\* issue_next_challenge finds that no challenge is left.
IssueNone(r) ==
    LET d == PastActive(Seen(r))
        t == Marked(d)
    IN
    /\ Open(r)
    /\ r \in Requests => locked[r] = {}
    /\ Accepting(d)
    /\ ActiveKeys(d.rows) # {} => d.lapsed # {}
    /\ Free(r, d.lapsed)
    /\ NextKey(t)[1] > ChallengeCount
    /\ challenges' = WithExpired(d.lapsed)
    /\ WriteSession(d, Finalized(t, "CHALLENGES_IN_PROGRESS"))
    /\ Close(r)
    /\ UNCHANGED overdue

\* Mutant: submit_challenge without FOR UPDATE.
HoldsNothing(r, k) == k \in DOMAIN Seen(r).rows

\* Request r holds challenge k, or takes it for the length of one step.
Holds(r, k) == IF r = Now THEN Free(r, {k}) ELSE k \in locked[r]

Start(r, k) ==
    LET d == Seen(r) IN
    /\ Open(r) /\ Holds(r, k)
    /\ d.session = "CHALLENGES_IN_PROGRESS"
    /\ \/ /\ d.rows[k].late /\ d.rows[k].status \in ACTIVE_CHALLENGE_STATES
          /\ challenges' = WithExpired({k})
       \/ /\ ~d.rows[k].late /\ d.rows[k].status = "ISSUED"
          /\ challenges' = [challenges EXCEPT ![k].status = "STARTED"]
    /\ Close(r)
    /\ UNCHANGED <<session, overdue>>

\* Mutant: only the nonce is looked at, not the challenge's status.
NotConsumed(d, k) == d.rows[k].submission = NoSubmission

\* A first submission of started challenge k.
Submittable(d, k) == d.rows[k].status = "STARTED"

UnusedElsewhere(t, k, s) == \A j \in DOMAIN t \ {k} : t[j].submission # s

Submit(r, k, s, result) ==
    LET d == Seen(r)
        c == [challenges[k] EXCEPT !.status = result, !.submission = s, !.late = FALSE]
        t == [d.rows EXCEPT ![k] = c]
    IN
    /\ Open(r) /\ Holds(r, k)
    /\ ~d.overdue
    /\ d.session = "CHALLENGES_IN_PROGRESS"
    /\ Submittable(d, k)
    /\ UnusedElsewhere(d.rows, k, s)
    /\ UnusedElsewhere(challenges, k, s)   \* uq_challenge_submission_idempotency
    /\ challenges' = [challenges EXCEPT ![k] = c]
    /\ WriteSession(d, IF k[1] >= ChallengeCount /\ ~MayRetry(t, k)
                       THEN Finalized(t, d.session) ELSE d.session)
    /\ Close(r)
    /\ UNCHANGED overdue

-----------------------------------------------------------------------------
(* The rest of the system. *)

\* complete_capture, abort_session, expire_if_needed.
End ==
    /\ session # "ENDED"
    /\ session' = "ENDED"
    /\ UNCHANGED <<overdue, challenges, view, locked>>

\* An active challenge's deadline passes.
Lapse(k) ==
    /\ k \in ActiveKeys(challenges) /\ ~challenges[k].late
    /\ challenges' = [challenges EXCEPT ![k].late = TRUE]
    /\ UNCHANGED <<session, overdue, view, locked>>

\* The session's deadline passes.
Overrun ==
    /\ ~overdue
    /\ overdue' = TRUE
    /\ UNCHANGED <<session, challenges, view, locked>>

HandlerStep(r) ==
    \/ IssueNext(r)
    \/ IssueNone(r)
    \/ \E k \in DOMAIN challenges :
          \/ Start(r, k)
          \/ \E s \in Submissions, result \in Results : Submit(r, k, s, result)

Next ==
    \/ \E r \in Requests \cup {Now} : HandlerStep(r)
    \/ \E r \in Requests : Load(r) \/ Reread(r) \/ RollBack(r)
    \/ \E r \in Requests : \E k \in DOMAIN challenges : Lock(r, k)
    \/ End
    \/ \E k \in DOMAIN challenges : Lapse(k)
    \/ Overrun

Spec == Init /\ [][Next]_vars

\* The client keeps asking for the next challenge, and clocks run.
Fairness ==
    /\ WF_vars(IssueNext(Now) \/ IssueNone(Now))
    /\ WF_vars(\E k \in DOMAIN challenges : Lapse(k))

FairSpec == Spec /\ Fairness

-----------------------------------------------------------------------------
(* What the handlers guarantee when requests do not overlap. *)

\* A result once given to a challenge is the one every retry of the submission
\* is answered with (submit_challenge): it is never replaced.
ResultStands ==
    [][\A k \in DOMAIN challenges :
          challenges[k].status \in TERMINAL_CHALLENGE_STATES =>
              challenges'[k].status = challenges[k].status]_vars

\* The challenge stage ends with every challenge of the sequence settled, and as
\* CHALLENGE_FAILED exactly when the latest attempts hold too many failures
\* (_finalize_sequence).
OutcomeIsOfWholeSequence ==
    session \in ChallengesOver =>
        /\ Sequences(challenges) = 1 .. ChallengeCount
        /\ ActiveKeys(challenges) = {}
        /\ \A k \in LatestKeys(challenges) : ~MayRetry(challenges, k)
        /\ session = "CHALLENGE_FAILED" <=>
              Cardinality(ExplicitFailures(challenges)) >= FailureLimit

\* An inspector whose client keeps asking gets through the stage, whatever
\* submissions fail or never arrive: the retry budget ends every sequence.
StageEnds == <>(overdue \/ session \in ChallengesOver \cup {"ENDED"})

(* What holds however requests overlap. *)

\* Sequence and attempt numbers leave no gap and stay in budget (the unique
\* constraint and issue_next_challenge's choice of the next number).
NumberedWithoutGaps ==
    \A k \in DOMAIN challenges :
        /\ k[1] <= ChallengeCount /\ k[2] <= MaxRetries + 1
        /\ k[1] > 1 => <<k[1] - 1, 1>> \in DOMAIN challenges
        /\ k[2] > 1 => <<k[1], k[2] - 1>> \in DOMAIN challenges

\* The evidence recorded for a challenge is that of its first valid submission,
\* though a second one is in flight (submit_challenge holds the row).
EvidenceStands ==
    [][\A k \in DOMAIN challenges :
          challenges[k].submission # NoSubmission =>
              challenges'[k].submission = challenges[k].submission]_vars
=============================================================================
