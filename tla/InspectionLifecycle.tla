------------------------- MODULE InspectionLifecycle -------------------------
(***************************************************************************)
(* One inspection, its assignments and its verification sessions, under    *)
(* the HTTP handlers and the worker that change them                       *)
(* (services/inspection_service.py, session_*.py, evidence_*.py,           *)
(* challenges/service.py, visual_analysis_service.py,                      *)
(* verification/review.py).                                                *)
(*                                                                         *)
(* A handler loads rows, decides on what it loaded, and commits the        *)
(* columns it changed (SQLAlchemy writes a column only if it differs from  *)
(* the loaded value).  Most handlers take no lock; assign, reassign,       *)
(* cancel and the creation of a session hold the inspection's row with     *)
(* FOR UPDATE.  A handler that runs while nothing else commits is an       *)
(* action of request Now.  A handler that others overlap is an action of   *)
(* one of Requests: Load (with the lock or without) takes its view of the  *)
(* rows, and the action decides on that view.  Requests = {} is the        *)
(* serial system of the repository's tests (SQLite).                       *)
(*                                                                         *)
(* A view is loaded in one step, though a handler may spread its reads     *)
(* over several statements.  Deadlines are left out: a handler that        *)
(* compares the clock with a deadline may find it passed or not.           *)
(***************************************************************************)
EXTENDS Integers, Sequences, FiniteSets

CONSTANTS
    Inspectors,      \* active inspectors of the organization
    Requests,        \* overlapped requests that may be open at once
    Now,             \* the request that nothing overlaps
    NoRows,          \* the view of a request that is not open
    MaxAssignments,  \* bound: assignment rows
    MaxSessions      \* bound: session rows

ASSUME LifecycleAssumption ==
    /\ Now \notin Requests
    /\ MaxAssignments \in Nat
    /\ MaxSessions \in Nat

VARIABLES
    inspection,   \* inspections.status
    assignments,  \* inspection_assignments, oldest first
    sessions,     \* verification_sessions, oldest first
    view,         \* per open request: the rows it loaded
    holder        \* set of the request that holds the inspection's row lock

rows == <<inspection, assignments, sessions>>
vars == <<inspection, assignments, sessions, view, holder>>

Decided == {"APPROVED", "REJECTED", "RECAPTURE_REQUIRED"}
InspectionStatus ==
    {"DRAFT", "ASSIGNED", "ACKNOWLEDGED", "READY", "SESSION_STARTED",
     "EVIDENCE_UPLOADING", "PROCESSING", "CANCELLED"} \cup Decided

ChallengesOver == {"CHALLENGES_COMPLETED", "CHALLENGE_FAILED"}
Transporting == {"CAPTURE_COMPLETED", "UPLOADING", "UPLOAD_FAILED"}
LiveExpiringStates == {"CREATED", "CAPTURING", "CHALLENGES_IN_PROGRESS"}
ActiveSessionStates == LiveExpiringStates \cup ChallengesOver \cup Transporting
EvidenceStored == {"UPLOADED", "PROCESSING"}
SessionStatus == ActiveSessionStates \cup EvidenceStored \cup {"ABORTED", "EXPIRED"}

Assignment ==
    [inspector : Inspectors,
     status : {"ACTIVE", "REASSIGNED", "CANCELLED"},
     acknowledged : BOOLEAN]

\* overdue: expires_at has passed.  judged: a verification result has a verdict.
Session ==
    [inspector : Inspectors, status : SessionStatus,
     overdue : BOOLEAN, judged : BOOLEAN]

Database ==
    [inspection : InspectionStatus,
     assignments : Seq(Assignment), sessions : Seq(Session)]

ASSUME NoRowsAssumption == NoRows \notin Database

TypeOK ==
    /\ inspection \in InspectionStatus
    /\ assignments \in Seq(Assignment)
    /\ sessions \in Seq(Session)
    /\ view \in [Requests -> Database \cup {NoRows}]
    /\ holder \in SUBSET Requests

Init ==
    /\ inspection = "DRAFT"
    /\ assignments = << >>
    /\ sessions = << >>
    /\ view = [r \in Requests |-> NoRows]
    /\ holder = {}

-----------------------------------------------------------------------------
(* Requests and transactions. *)

Stored == [inspection |-> inspection, assignments |-> assignments,
           sessions |-> sessions]

\* The rows request r decides on.
Seen(r) == IF r = Now THEN Stored ELSE view[r]

\* A handler without a row lock may run as request r.
Unlocked(r) == r \in {Now} \cup {q \in Requests \ holder : view[q] # NoRows}

\* _locked_inspection (FOR UPDATE): r holds the row, or takes it here.
Locked(r) == r \in (IF holder = {} THEN {Now} ELSE holder)

Close(r) ==
    /\ view' = [q \in Requests |-> IF q = r THEN NoRows ELSE view[q]]
    /\ holder' = holder \ {r}

\* The columns the unit of work writes: those whose value it changed.
Merge(current, loaded, new) == IF new = loaded THEN current ELSE new

\* Inserted rows are appended; rows others inserted since the load stay.
MergedAssignments(d, n) ==
    [k \in DOMAIN assignments \cup DOMAIN n.assignments |->
        IF k \notin DOMAIN assignments THEN n.assignments[k]
        ELSE IF k \notin DOMAIN d.assignments THEN assignments[k]
        ELSE [assignments[k] EXCEPT
                !.status = Merge(@, d.assignments[k].status, n.assignments[k].status),
                !.acknowledged = Merge(@, d.assignments[k].acknowledged,
                                          n.assignments[k].acknowledged)]]

MergedSessions(d, n) ==
    [s \in DOMAIN sessions \cup DOMAIN n.sessions |->
        IF s \notin DOMAIN sessions THEN n.sessions[s]
        ELSE IF s \notin DOMAIN d.sessions THEN sessions[s]
        ELSE [sessions[s] EXCEPT
                !.status = Merge(@, d.sessions[s].status, n.sessions[s].status)]]

\* uq_active_verification_session_per_inspection
AtMostOneActive(ss) ==
    \A s, t \in DOMAIN ss :
        ss[s].status \in ActiveSessionStates /\ ss[t].status \in ActiveSessionStates
        => s = t

\* Request r turns the rows it loaded into n and commits.  A write to the
\* inspection waits for another request's lock; a violated unique index rolls
\* the request back.
Commit(r, n) ==
    LET d == Seen(r) IN
    /\ n.inspection # d.inspection => holder \subseteq {r}
    /\ AtMostOneActive(MergedSessions(d, n))
    /\ inspection' = Merge(inspection, d.inspection, n.inspection)
    /\ assignments' = MergedAssignments(d, n)
    /\ sessions' = MergedSessions(d, n)
    /\ Close(r)

\* Request r loads its rows, with the row lock or without.
Load(r, lock) ==
    /\ view[r] = NoRows
    /\ lock => holder = {}
    /\ view' = [view EXCEPT ![r] = Stored]
    /\ holder' = IF lock THEN {r} ELSE holder
    /\ UNCHANGED rows

\* Request r is refused, or its process dies: the transaction rolls back.
RollBack(r) ==
    /\ view[r] # NoRows
    /\ Close(r)
    /\ UNCHANGED rows

-----------------------------------------------------------------------------
(* What handlers read and change. *)

Active(d) == {k \in DOMAIN d.assignments : d.assignments[k].status = "ACTIVE"}
AssignedTo(d, i) == \E k \in Active(d) : d.assignments[k].inspector = i

\* owned_session with its default require_active_assignment.
OwnerStillAssigned(d, s) == AssignedTo(d, d.sessions[s].inspector)

NewAssignment(i) == [inspector |-> i, status |-> "ACTIVE", acknowledged |-> FALSE]
NewSession(i) ==
    [inspector |-> i, status |-> "CREATED", overdue |-> FALSE, judged |-> FALSE]

\* The ACTIVE assignments (at most one) become REASSIGNED or CANCELLED.
Retire(d, to) ==
    [d EXCEPT !.assignments =
        [k \in DOMAIN @ |-> IF k \in Active(d) THEN [@[k] EXCEPT !.status = to]
                            ELSE @[k]]]

SetSession(d, s, to) == [d EXCEPT !.sessions[s].status = to]

\* Mutant: the guard `inspection.status != CANCELLED` forgotten.
MoveAlways(d, to) == [d EXCEPT !.inspection = to]

\* Handlers of a session move the inspection along unless it was cancelled.
Move(d, to) == [d EXCEPT !.inspection = IF @ = "CANCELLED" THEN @ ELSE to]

\* Mutant: every active session expires, whatever it has already proved.
ExpirableWhileActive(d, s) ==
    d.sessions[s].status \in ActiveSessionStates /\ d.sessions[s].overdue

\* expire_if_needed
Expirable(d, s) ==
    d.sessions[s].status \in LiveExpiringStates /\ d.sessions[s].overdue
Expire(d, s) == Move(SetSession(d, s, "EXPIRED"), "READY")

-----------------------------------------------------------------------------
(* Administrators: inspection_service.py *)

Assign(r, i) ==
    /\ Locked(r)
    /\ Seen(r).inspection = "DRAFT"
    /\ Active(Seen(r)) = {}
    /\ Len(Seen(r).assignments) < MaxAssignments
    /\ Commit(r, [Seen(r) EXCEPT !.inspection = "ASSIGNED",
                                 !.assignments = Append(@, NewAssignment(i))])

\* Any status but CANCELLED goes back to ASSIGNED.
Reassign(r, i) ==
    /\ Locked(r)
    /\ Seen(r).inspection # "CANCELLED"
    /\ Active(Seen(r)) # {}
    /\ ~AssignedTo(Seen(r), i)
    /\ Len(Seen(r).assignments) < MaxAssignments
    /\ Commit(r, [Retire(Seen(r), "REASSIGNED") EXCEPT
                    !.inspection = "ASSIGNED",
                    !.assignments = Append(@, NewAssignment(i))])

\* Mutant: the assignment survives the cancellation.
CancelOnlyInspection(r) ==
    /\ Locked(r)
    /\ Seen(r).inspection # "CANCELLED"
    /\ Commit(r, [Seen(r) EXCEPT !.inspection = "CANCELLED"])

Cancel(r) ==
    /\ Locked(r)
    /\ Seen(r).inspection # "CANCELLED"
    /\ Commit(r, [Retire(Seen(r), "CANCELLED") EXCEPT !.inspection = "CANCELLED"])

\* Mutant: the name of the audit event stored as the status.
ReviewByEvent(r, s, decision) ==
    /\ Unlocked(r)
    /\ s \in DOMAIN Seen(r).sessions
    /\ Seen(r).sessions[s].judged
    /\ Commit(r, [Seen(r) EXCEPT !.inspection = "REVIEW_APPROVED"])

\* create_review_decision: no lock, and no look at the inspection's status.
Review(r, s, decision) ==
    /\ Unlocked(r)
    /\ s \in DOMAIN Seen(r).sessions
    /\ Seen(r).sessions[s].judged
    /\ Commit(r, [Seen(r) EXCEPT !.inspection = decision])

-----------------------------------------------------------------------------
(* The assigned inspector before capture. *)

Acknowledge(r, i) ==
    /\ Unlocked(r)
    /\ AssignedTo(Seen(r), i)
    /\ Seen(r).inspection = "ASSIGNED"
    /\ Commit(r, [Seen(r) EXCEPT
                    !.inspection = "ACKNOWLEDGED",
                    !.assignments = [k \in DOMAIN @ |->
                        IF k \in Active(Seen(r))
                        THEN [@[k] EXCEPT !.acknowledged = TRUE] ELSE @[k]]])

MarkReady(r, i) ==
    /\ Unlocked(r)
    /\ AssignedTo(Seen(r), i)
    /\ Seen(r).inspection = "ACKNOWLEDGED"
    /\ Commit(r, [Seen(r) EXCEPT !.inspection = "READY"])

-----------------------------------------------------------------------------
(* Sessions: session_creation.py, session_capture.py, session_queries.py *)

\* The rows once an existing active session is out of the way of inspector i;
\* none if i's own session is still live (ACTIVE_SESSION_EXISTS).
Vacated(d, i) ==
    LET existing == {s \in DOMAIN d.sessions :
                        d.sessions[s].status \in ActiveSessionStates}
    IN  IF existing = {} THEN {d}
        ELSE {Expire(d, s) : s \in {e \in existing : Expirable(d, e)}}
             \cup {SetSession(d, s, "ABORTED") :
                     s \in {e \in existing : /\ ~Expirable(d, e)
                                             /\ d.sessions[e].inspector # i}}

\* create_verification_session from a device that has no session yet.
CreateSession(r, i) ==
    /\ Locked(r)
    /\ AssignedTo(Seen(r), i)
    /\ Len(Seen(r).sessions) < MaxSessions
    /\ \E d \in Vacated(Seen(r), i) :
          /\ d.inspection = "READY"
          /\ Commit(r, [d EXCEPT !.inspection = "SESSION_STARTED",
                                 !.sessions = Append(@, NewSession(i))])

\* The same call replayed by the device that created session s.
ReplayCreation(r, s) ==
    /\ Locked(r)
    /\ Seen(r).inspection # "CANCELLED"
    /\ s \in DOMAIN Seen(r).sessions
    /\ OwnerStillAssigned(Seen(r), s)
    /\ Expirable(Seen(r), s)
    /\ Commit(r, Expire(Seen(r), s))

\* get_session and latest_session_for_inspection, by anyone who may look.
Poll(r, s) ==
    /\ Unlocked(r)
    /\ s \in DOMAIN Seen(r).sessions
    /\ Expirable(Seen(r), s)
    /\ Commit(r, Expire(Seen(r), s))

\* A handler of session s that only its still assigned owner may call.
OwnerCall(r, s) ==
    /\ Unlocked(r)
    /\ s \in DOMAIN Seen(r).sessions
    /\ OwnerStillAssigned(Seen(r), s)

\* start_capture.  The second commit is the deadline's grace period exceeded; a
\* location outside or inconclusive refuses the request.
StartCapture(r, s) ==
    /\ OwnerCall(r, s)
    /\ LET d == Seen(r) IN
       \/ /\ Expirable(d, s)
          /\ Commit(r, Expire(d, s))
       \/ /\ ~Expirable(d, s)
          /\ d.sessions[s].status = "CREATED"
          /\ d.inspection # "CANCELLED"
          /\ \/ Commit(r, [SetSession(d, s, "EXPIRED") EXCEPT !.inspection = "READY"])
             \/ Commit(r, [SetSession(d, s, "CAPTURING") EXCEPT
                             !.inspection = "SESSION_STARTED"])

\* issue_next_challenge: the first challenge puts the session in challenge mode,
\* and asking beyond the last one closes the sequence.
IssueChallenge(r, s) ==
    /\ OwnerCall(r, s)
    /\ ~Seen(r).sessions[s].overdue
    /\ \/ /\ Seen(r).sessions[s].status = "CAPTURING"
          /\ Commit(r, SetSession(Seen(r), s, "CHALLENGES_IN_PROGRESS"))
       \/ /\ Seen(r).sessions[s].status = "CHALLENGES_IN_PROGRESS"
          /\ \E end \in ChallengesOver : Commit(r, SetSession(Seen(r), s, end))

\* submit_challenge of the last challenge.
SubmitLastChallenge(r, s) ==
    /\ OwnerCall(r, s)
    /\ ~Seen(r).sessions[s].overdue
    /\ Seen(r).sessions[s].status = "CHALLENGES_IN_PROGRESS"
    /\ \E end \in ChallengesOver : Commit(r, SetSession(Seen(r), s, end))

\* complete_capture.  A capture that outlived the session expires it.
CompleteCapture(r, s) ==
    /\ OwnerCall(r, s)
    /\ LET d == Seen(r) IN
       \/ /\ d.sessions[s].status \in ChallengesOver
          /\ \/ Commit(r, Expire(d, s))
             \/ Commit(r, Move(SetSession(d, s, "CAPTURE_COMPLETED"),
                               "EVIDENCE_UPLOADING"))
       \/ /\ d.sessions[s].status # "CAPTURING"
          /\ Expirable(d, s)
          /\ Commit(r, Expire(d, s))

\* Mutant: a session whose evidence is stored can be aborted too.
AbortAny(r, s) ==
    /\ Unlocked(r)
    /\ s \in DOMAIN Seen(r).sessions
    /\ Commit(r, Move(SetSession(Seen(r), s, "ABORTED"), "READY"))

\* Mutant: the inspection is left behind.
AbortSessionOnly(r, s) ==
    /\ Unlocked(r)
    /\ s \in DOMAIN Seen(r).sessions
    /\ Seen(r).sessions[s].status \in ActiveSessionStates
    /\ Commit(r, SetSession(Seen(r), s, "ABORTED"))

\* abort_session, by the owner, assigned or not.
Abort(r, s) ==
    /\ Unlocked(r)
    /\ s \in DOMAIN Seen(r).sessions
    /\ Seen(r).sessions[s].status \in ActiveSessionStates
    /\ Commit(r, Move(SetSession(Seen(r), s, "ABORTED"), "READY"))

-----------------------------------------------------------------------------
(* Evidence transport and processing, as far as these rows see them. *)

\* Mutant: the idempotent replay of an uploaded batch reopens the upload.
InitiateAlways(r, s) ==
    /\ OwnerCall(r, s)
    /\ Seen(r).sessions[s].status \in Transporting \cup {"UPLOADED"}
    /\ Commit(r, Move(SetSession(Seen(r), s, "UPLOADING"), "EVIDENCE_UPLOADING"))

\* initiate_evidence_upload.  Replayed on an UPLOADED session it changes nothing.
InitiateUpload(r, s) ==
    /\ OwnerCall(r, s)
    /\ Seen(r).sessions[s].status \in Transporting
    /\ Commit(r, Move(SetSession(Seen(r), s, "UPLOADING"), "EVIDENCE_UPLOADING"))

\* accept_evidence_upload: a file arrived, or failed to.
AcceptUpload(r, s) ==
    /\ OwnerCall(r, s)
    /\ Seen(r).sessions[s].status \in {"UPLOADING", "UPLOAD_FAILED"}
    /\ \E to \in {"UPLOADING", "UPLOAD_FAILED"} : Commit(r, SetSession(Seen(r), s, to))

\* complete_evidence_upload
CompleteUpload(r, s) ==
    /\ OwnerCall(r, s)
    /\ Seen(r).sessions[s].status \in {"UPLOADING", "UPLOAD_FAILED"}
    /\ Commit(r, Move(SetSession(Seen(r), s, "UPLOADED"), "PROCESSING"))

\* The worker's visual analysis starts, and restores the durable state.
Analyze(r, s) ==
    /\ Unlocked(r)
    /\ s \in DOMAIN Seen(r).sessions
    /\ Seen(r).sessions[s].status \in EvidenceStored
    /\ \E to \in EvidenceStored : Commit(r, SetSession(Seen(r), s, to))

\* calculate_verification stores a verdict, which is never taken back.
Judge(s) ==
    /\ s \in DOMAIN sessions
    /\ sessions[s].status \in EvidenceStored
    /\ sessions' = [sessions EXCEPT ![s].judged = TRUE]
    /\ UNCHANGED <<inspection, assignments, view, holder>>

\* expires_at passes.
Pass(s) ==
    /\ s \in DOMAIN sessions
    /\ sessions' = [sessions EXCEPT ![s].overdue = TRUE]
    /\ UNCHANGED <<inspection, assignments, view, holder>>

-----------------------------------------------------------------------------

SessionHandler(r, s) ==
    \/ ReplayCreation(r, s)
    \/ Poll(r, s)
    \/ StartCapture(r, s)
    \/ IssueChallenge(r, s)
    \/ SubmitLastChallenge(r, s)
    \/ CompleteCapture(r, s)
    \/ Abort(r, s)
    \/ InitiateUpload(r, s)
    \/ AcceptUpload(r, s)
    \/ CompleteUpload(r, s)
    \/ Analyze(r, s)
    \/ \E decision \in Decided : Review(r, s, decision)

InspectorHandler(r, i) ==
    \/ Assign(r, i)
    \/ Reassign(r, i)
    \/ Acknowledge(r, i)
    \/ MarkReady(r, i)
    \/ CreateSession(r, i)

Next ==
    \/ \E r \in Requests \cup {Now} :
          \/ Cancel(r)
          \/ \E i \in Inspectors : InspectorHandler(r, i)
          \/ \E s \in 1 .. MaxSessions : SessionHandler(r, s)
    \/ \E r \in Requests, lock \in BOOLEAN : Load(r, lock)
    \/ \E r \in Requests : RollBack(r)
    \/ \E s \in 1 .. MaxSessions : Judge(s) \/ Pass(s)

Spec == Init /\ [][Next]_vars

-----------------------------------------------------------------------------
(* Properties. *)

\* The row lock keeps the assignment history in order under every interleaving:
\* at most one assignment is ACTIVE, only the newest one may be, and a cancelled
\* inspection is assigned to nobody, so that nobody can capture for it.
CancelledIsUnassigned ==
    /\ \A k \in DOMAIN assignments :
          assignments[k].status = "ACTIVE" => k = Len(assignments)
    /\ inspection = "CANCELLED" => Active(Stored) = {}

\* A session is only ever opened for the inspector who is assigned at that very
\* moment, on an inspection that becomes SESSION_STARTED with it.
SessionOpenedForAssignee ==
    [][Len(sessions') > Len(sessions) =>
          /\ AssignedTo(Stored', sessions'[Len(sessions')].inspector)
          /\ inspection' = "SESSION_STARTED"]_vars

\* A capture in progress is never lost sight of: while the inspection says that
\* capture or upload is going on, some session can still be finished, aborted or
\* expired.  If none could, nobody could ever start another one: create needs
\* READY, mark ready needs ACKNOWLEDGED.
CaptureIsUnderWay ==
    inspection \in {"SESSION_STARTED", "EVIDENCE_UPLOADING"} =>
        \E s \in DOMAIN sessions : sessions[s].status \in ActiveSessionStates

\* "Evidence upload completion remains the durable session state": a session
\* whose evidence was stored is never reopened, aborted or expired.
UploadedIsDurable ==
    [][\A s \in DOMAIN sessions :
          sessions[s].status \in EvidenceStored =>
              sessions'[s].status \in EvidenceStored]_vars

\* Polling a session never destroys what it proved (session_common.py, on
\* LIVE_EXPIRING_STATES): once the challenges are over, only complete_capture
\* expires a session, whose capture then outlived it.
AcceptedSurvivesPolling ==
    [][\A s \in DOMAIN sessions :
          /\ sessions[s].status \in ChallengesOver \cup Transporting \cup EvidenceStored
          /\ sessions'[s].status = "EXPIRED"
          => \E r \in Requests \cup {Now} : CompleteCapture(r, s)]_vars

\* What the code keeps of it when requests do not overlap: a cancelled
\* inspection is touched by nothing but a human review of an earlier session.
CancelledLeftOnlyByReview ==
    [][inspection = "CANCELLED" => inspection' \in {"CANCELLED"} \cup Decided]_vars

\* A reviewer's decision stands until a reviewer or an administrator changes it,
\* or an inspector's session that was still open at the time goes on.
DecisionStands ==
    [][/\ inspection \in Decided
       /\ \A s \in DOMAIN sessions : sessions[s].status \notin ActiveSessionStates
       => inspection' \in Decided \cup {"ASSIGNED", "CANCELLED"}]_vars
=============================================================================
