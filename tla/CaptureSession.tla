--------------------------- MODULE CaptureSession ---------------------------
(***************************************************************************)
(* A live proof as the phone conducts it: VerificationViewModel and        *)
(* VerificationCaptureCoordinator against the session endpoints, from the  *)
(* permission screen to the upload's queue.                                *)
(*                                                                         *)
(* The view model runs one coroutine after another (prepare, startJob,     *)
(* challengeJob): the flow.  Beside it run the guard of the capture's time *)
(* limit, and a coroutine that aborts when the app is interrupted or the   *)
(* user stops.  All run on the main thread and suspend in network calls    *)
(* and delays.  viewModelScope dispatches immediately on the main thread,  *)
(* so cancel() runs a suspended coroutine's catch blocks before it returns *)
(* (not if it waits for Room, which answers from a thread of its own); and *)
(* a call made by a cancelled coroutine is not sent.                       *)
(*                                                                         *)
(* One inspector, who stays assigned.  Handlers are atomic: their overlap  *)
(* is the subject of InspectionLifecycle and ChallengeSequence.  A FAILED  *)
(* result is an INCONCLUSIVE one here: both may be retried.  A camera that *)
(* cannot be bound, and what happens to the queued upload, are left out; a *)
(* recorder that fails later is not.                                       *)
(***************************************************************************)
EXTENDS Naturals, Sequences, FiniteSets, SequencesExt

CONSTANTS
    MaxSessions,     \* bound: sessions created
    ChallengeCount,  \* settings.challenge_count
    MaxRetries,      \* settings.challenge_max_retries, per sequence number
    MaxLosses,       \* bound: requests and replies lost
    MaxBreaks        \* bound: interruptions, user aborts, process deaths, failing recorders

ASSUME CaptureAssumption ==
    /\ {MaxSessions, ChallengeCount} \subseteq Nat \ {0}
    /\ {MaxRetries, MaxLosses, MaxBreaks} \subseteq Nat

VARIABLES
    sessions,  \* verification_sessions, oldest first, with their challenges
    calls,     \* requests on their way
    replies,   \* responses and IOExceptions on their way
    app,       \* what the app's process holds
    packaged,  \* per session: {}, or the challenge timeline in its manifest
    pending,   \* sessions with a row in pending_evidence
    work,      \* sessions whose upload is queued in WorkManager
    losses, breaks

disk == <<packaged, pending, work>>
bounds == <<losses, breaks>>
vars == <<sessions, calls, replies, app, disk, bounds>>

None == 0

LiveExpiringStates == {"CREATED", "CAPTURING", "CHALLENGES_IN_PROGRESS"}
ActiveSessionStates ==
    LiveExpiringStates \cup {"CHALLENGES_COMPLETED", "CAPTURE_COMPLETED"}
SessionStatus == ActiveSessionStates \cup {"ABORTED", "EXPIRED"}
ActiveChallengeStates == {"ISSUED", "STARTED"}
Submitted == {"PASSED", "INCONCLUSIVE"}

Challenge ==
    [number : 1 .. ChallengeCount,
     status : ActiveChallengeStates \cup Submitted \cup {"EXPIRED"}]

\* overdue: expires_at has passed.
Session == [status : SessionStatus, overdue : BOOLEAN, challenges : Seq(Challenge)]
NewSession == [status |-> "CREATED", overdue |-> FALSE, challenges |-> << >>]

\* VerificationUiState.  isLiveState holds of the first seven.
LiveStates ==
    {"STARTING", "LOADING", "ACTIVE", "CHECKING", "NETWORK_WAIT", "RESULT", "FINISHING"}
UiStates == LiveStates \cup {"INTRO", "PREPARING", "READY", "CAPTURED", "ERROR"}

\* Where the flow is suspended: in a call, an abort that ends it, or other work.
Preparing == {"inspection", "create", "locate"}
Starting == {"relocate", "start-capture", "record", "abort twice"}
Challenging == {"next", "start-challenge", "submit", "result", "finish"}
Stopping == {"stop", "capture-complete", "abort stop"}
Saving == {"save", "enqueue"}
Steps == Preparing \cup Starting \cup Challenging \cup Stopping \cup Saving
         \cup {"idle", "window", "abort", "abort leave"}

\* recording, challenge, timeline: the coordinator's active, activeChallenge and
\* challengeTimeline.  prepared, last: the session and the result on the screen.
\* told: the session the screen calls aborted.  film: how the recorder of the capture
\* does: it may have failed with a video that is too short, or long enough already.
Films == {"rolling", "short", "long"}
App ==
    [ui : UiStates, at : Steps, job : {"none", "start", "challenge"}, guard : BOOLEAN,
     prepared : Nat, recording : Nat, challenge : Nat,
     timeline : Seq([challenge : Nat, status : Submitted]),
     last : {"none", "next", "retry", "over"}, told : Nat, film : Films]

NewApp ==
    [ui |-> "INTRO", at |-> "idle", job |-> "none", guard |-> FALSE,
     prepared |-> None, recording |-> None, challenge |-> None, timeline |-> << >>,
     last |-> "none", told |-> None, film |-> "rolling"]

TypeOK ==
    /\ sessions \in Seq(Session) /\ Len(sessions) <= MaxSessions
    /\ app \in App
    /\ \A s \in 1 .. MaxSessions : Cardinality(packaged[s]) <= 1
    /\ work \subseteq pending /\ pending \subseteq 1 .. MaxSessions
    /\ losses \in 0 .. MaxLosses /\ breaks \in 0 .. MaxBreaks

Init ==
    /\ sessions = << >>
    /\ calls = {} /\ replies = {}
    /\ app = NewApp
    /\ packaged = [s \in 1 .. MaxSessions |-> {}]
    /\ pending = {} /\ work = {}
    /\ losses = 0 /\ breaks = 0

-----------------------------------------------------------------------------
(* The server: for a call m, the outcomes [table, answer, s, c, status] of   *)
(* its handler.  Answers to a submission say what comes next.                *)

Outcome(t, answer, s, c, status) ==
    [table |-> t, answer |-> answer, s |-> s, c |-> c, status |-> status]
Refused(t) == Outcome(t, "refused", None, None, "none")
Ok(t, s, c) == Outcome(t, "ok", s, c, "none")

SetStatus(t, s, status) == [t EXCEPT ![s].status = status]

\* Of a session that ends without evidence the challenges are forgotten: only calls
\* that nobody waits for still ask about them.
End(t, s, status) ==
    [t EXCEPT ![s] = [status |-> status, overdue |-> FALSE, challenges |-> << >>]]
Expire(t, s) == End(t, s, "EXPIRED")
Expirable(d) == d.status \in LiveExpiringStates /\ d.overdue
ActiveSessions == {s \in DOMAIN sessions : sessions[s].status \in ActiveSessionStates}

\* GET /inspections/{id}, and the phone's test that it is READY: sessions that end
\* without evidence put it back.
Inspection ==
    {IF ActiveSessions = {} THEN Ok(sessions, None, None) ELSE Refused(sessions)}

\* create_verification_session.  Each call comes with a new device_session_id.
Create ==
    LET vacated == [s \in DOMAIN sessions |->
                       IF Expirable(sessions[s]) THEN Expire(sessions, s)[s] ELSE sessions[s]]
    IN  {IF \A s \in ActiveSessions : Expirable(sessions[s])
         THEN Ok(Append(vacated, NewSession), Len(sessions) + 1, None)
         ELSE Refused(sessions)}

\* start_capture may find the phone outside, or the deadline's grace period over.
StartCapture(s) ==
    LET d == sessions[s] IN
    IF Expirable(d) THEN {Refused(Expire(sessions, s))}
    ELSE IF d.status # "CREATED" THEN {Refused(sessions)}
    ELSE {Ok(SetStatus(sessions, s, "CAPTURING"), s, None),
          Refused(sessions), Refused(Expire(sessions, s))}

\* The latest challenge may be repeated.
MayRetry(t) ==
    /\ t # << >>
    /\ Last(t).status \in {"INCONCLUSIVE", "EXPIRED"}
    /\ Cardinality({i \in DOMAIN t : t[i].number = Last(t).number}) <= MaxRetries

\* Mutant: numbers start from zero.
NextNumberFromZero(t) ==
    IF t = << >> THEN 0
    ELSE IF MayRetry(t) THEN Last(t).number ELSE Last(t).number + 1

NextNumber(t) ==
    IF t = << >> THEN 1
    ELSE IF MayRetry(t) THEN Last(t).number ELSE Last(t).number + 1

\* issue_next_challenge: an active challenge is issued again, or found expired.
IssueAfter(s, t) ==
    IF NextNumber(t) > ChallengeCount
    THEN Refused([sessions EXCEPT ![s].challenges = t, ![s].status = "CHALLENGES_COMPLETED"])
    ELSE Ok([sessions EXCEPT
               ![s].challenges = Append(t, [number |-> NextNumber(t), status |-> "ISSUED"]),
               ![s].status = "CHALLENGES_IN_PROGRESS"], s, Len(t) + 1)

IssueNext(s) ==
    LET d == sessions[s]
        t == d.challenges
    IN  IF d.overdue \/ d.status \notin {"CAPTURING", "CHALLENGES_IN_PROGRESS"}
        THEN {Refused(sessions)}
        ELSE IF t # << >> /\ Last(t).status \in ActiveChallengeStates
        THEN {Ok(sessions, s, Len(t)),
              IssueAfter(s, [t EXCEPT ![Len(t)].status = "EXPIRED"])}
        ELSE {IssueAfter(s, t)}

StartChallenge(s, c) ==
    LET d == sessions[s] IN
    IF d.status # "CHALLENGES_IN_PROGRESS" \/ d.challenges[c].status \notin ActiveChallengeStates
    THEN {Refused(sessions)}
    ELSE {Refused([sessions EXCEPT ![s].challenges[c].status = "EXPIRED"]),
          IF d.challenges[c].status = "ISSUED"
          THEN Ok([sessions EXCEPT ![s].challenges[c].status = "STARTED"], s, c)
          ELSE Refused(sessions)}

\* _result_response
Result(t, s, c) ==
    Outcome(t, IF t[s].status = "CHALLENGES_COMPLETED" THEN "over"
               ELSE IF t[s].challenges[c].status # "PASSED" /\ MayRetry(t[s].challenges)
               THEN "retry" ELSE "next",
            s, c, t[s].challenges[c].status)

\* submit_challenge.  A replay gets the stored result; evidence may be refused.
Judged(s, c, status) ==
    LET t == [sessions[s].challenges EXCEPT ![c].status = status]
    IN  [sessions EXCEPT
           ![s].challenges = t,
           ![s].status = IF NextNumber(t) > ChallengeCount
                         THEN "CHALLENGES_COMPLETED" ELSE @]

SubmitChallenge(s, c) ==
    LET d == sessions[s] IN
    IF d.overdue \/ s \notin ActiveSessions THEN {Refused(sessions)}
    ELSE IF d.challenges[c].status \in Submitted THEN {Result(sessions, s, c)}
    ELSE IF d.status # "CHALLENGES_IN_PROGRESS" \/ d.challenges[c].status # "STARTED"
    THEN {Refused(sessions)}
    ELSE {Result(Judged(s, c, status), s, c) : status \in Submitted} \cup {Refused(sessions)}

\* complete_capture may find the summary wanting, or that the capture ended after
\* expires_at.
CompleteCapture(s) ==
    IF sessions[s].status = "CHALLENGES_COMPLETED"
    THEN {Ok(SetStatus(sessions, s, "CAPTURE_COMPLETED"), s, None),
          Refused(sessions), Refused(Expire(sessions, s))}
    ELSE {Refused(IF Expirable(sessions[s]) THEN Expire(sessions, s) ELSE sessions)}

AbortSession(s) ==
    {IF s \in ActiveSessions THEN Ok(End(sessions, s, "ABORTED"), s, None)
     ELSE Refused(sessions)}

Outcomes(m) ==
    CASE m.op = "inspection" -> Inspection
      [] m.op = "create" -> Create
      [] m.op = "start-capture" -> StartCapture(m.s)
      [] m.op = "next" -> IssueNext(m.s)
      [] m.op = "start-challenge" -> StartChallenge(m.s, m.c)
      [] m.op = "submit" -> SubmitChallenge(m.s, m.c)
      [] m.op = "capture-complete" -> CompleteCapture(m.s)
      [] m.op = "abort" -> AbortSession(m.s)

\* expires_at passes, and somebody looks at the session (get_session,
\* latest_session_for_inspection).
Overrun(s) ==
    /\ s \in DOMAIN sessions /\ ~sessions[s].overdue
    /\ sessions[s].status \in LiveExpiringStates \cup {"CHALLENGES_COMPLETED"}
    /\ sessions' = [sessions EXCEPT ![s].overdue = TRUE]
    /\ UNCHANGED <<calls, replies, app, disk, bounds>>

Poll(s) ==
    /\ s \in DOMAIN sessions /\ Expirable(sessions[s])
    /\ sessions' = Expire(sessions, s)
    /\ UNCHANGED <<calls, replies, app, disk, bounds>>

-----------------------------------------------------------------------------
(* The network.  by: who waits for the answer: the flow, the coroutine of an *)
(* interruption, the guard; nobody, if it was cancelled.                     *)

Reply(m, answer, o) ==
    [op |-> m.op, by |-> m.by, answer |-> answer, of |-> m.s,
     s |-> o.s, c |-> o.c, status |-> o.status]

Serve(m) ==
    \E o \in Outcomes(m) :
        /\ sessions' = o.table
        /\ calls' = calls \ {m}
        /\ \/ /\ replies' = IF m.by = "nobody" THEN replies
                            ELSE replies \cup {Reply(m, o.answer, o)}
              /\ UNCHANGED losses
           \/ /\ m.by # "nobody" /\ losses < MaxLosses
              /\ replies' = replies \cup {Reply(m, "lost", o)}
              /\ losses' = losses + 1
        /\ UNCHANGED <<app, disk, breaks>>

\* The request never arrives.
Lose(m) ==
    /\ calls' = calls \ {m}
    /\ \/ m.by = "nobody" /\ UNCHANGED <<replies, losses>>
       \/ /\ m.by # "nobody" /\ losses < MaxLosses
          /\ replies' = replies \cup {Reply(m, "lost", Refused(sessions))}
          /\ losses' = losses + 1
    /\ UNCHANGED <<sessions, app, disk, breaks>>

-----------------------------------------------------------------------------
(* The flow.  a is the app's state as an operator finds it.                  *)

Request(op, s, c, by) == [op |-> op, s |-> s, c |-> c, by |-> by]

Suspend(a, op, c) ==
    /\ app' = [a EXCEPT !.at = op]
    /\ calls' = calls \cup {Request(op, a.prepared, c, "flow")}

Abort(a, at) ==
    /\ app' = [a EXCEPT !.at = at]
    /\ calls' = calls \cup {Request("abort", a.prepared, None, "flow")}

Rest(a) == app' = [a EXCEPT !.at = "idle", !.job = "none"] /\ UNCHANGED calls

\* Mutant: where nothing is recorded the screen stays what it was.
FailedQuietly(a) ==
    [a EXCEPT !.ui = IF a.recording = None THEN @ ELSE "ERROR", !.told = None,
              !.last = "none"]

Failed(a) == [a EXCEPT !.ui = "ERROR", !.told = None, !.last = "none"]

\* What coordinator.abort and cleanupCapture let go of.
Released(a) == [a EXCEPT !.recording = None, !.challenge = None, !.film = "rolling"]

\* coordinator.abort returns at once if nothing is recorded.
FailChallengeProtocol(a) ==
    LET stopped == [a EXCEPT !.guard = FALSE] IN
    IF a.recording = None THEN Rest(Failed(stopped))
    ELSE Abort(Released(stopped), "abort")

\* issueNextChallenge
BeginNext(a) ==
    LET loading == [a EXCEPT !.ui = "LOADING", !.last = "none"] IN
    IF a.recording = None \/ a.challenge # None THEN FailChallengeProtocol(loading)
    ELSE Suspend(loading, "next", None)

\* Mutant: the timeline of an earlier session is not cleared.
CaptureBegunOnOldTimeline(a) ==
    [a EXCEPT !.recording = a.prepared, !.challenge = None, !.guard = TRUE,
              !.film = "rolling"]

CaptureBegun(a) ==
    [a EXCEPT !.recording = a.prepared, !.challenge = None, !.timeline = << >>,
              !.guard = TRUE, !.film = "rolling"]

\* The camera finalizes the recording with an error.  Nobody awaits what it completes,
\* and the duration of the video no longer grows.
RecorderFails ==
    /\ app.recording # None /\ app.film = "rolling"
    /\ app.at \notin Stopping \cup Saving
    /\ breaks < MaxBreaks /\ breaks' = breaks + 1
    /\ \E film \in {"short", "long"} : app' = [app EXCEPT !.film = film]
    /\ UNCHANGED <<sessions, calls, replies, disk, losses>>

\* GPS and storage, in prepare and again in start; the sensors and the camera.
Locate ==
    /\ app.at = "locate"
    /\ \/ Rest([app EXCEPT !.ui = "READY"])
       \/ Abort(app, "abort")
    /\ UNCHANGED <<sessions, replies, disk, bounds>>

Relocate ==
    /\ app.at = "relocate"
    /\ \/ Suspend(app, "start-capture", None)
       \/ Abort(app, "abort")
    /\ UNCHANGED <<sessions, replies, disk, bounds>>

Record ==
    /\ app.at = "record"
    /\ \/ BeginNext(CaptureBegun(app))
       \/ Abort(app, "abort twice")
    /\ UNCHANGED <<sessions, replies, disk, bounds>>

\* runChallengeWindow ends; no sensor samples is an error.
Window ==
    LET checking == [app EXCEPT !.ui = "CHECKING"] IN
    /\ app.at = "window"
    /\ \/ FailChallengeProtocol(checking)
       \/ /\ app.recording # None /\ app.challenge # None
          /\ Suspend(checking, "submit", app.challenge)
    /\ UNCHANGED <<sessions, replies, disk, bounds>>

\* handleChallengeResult after its delay.
ShowResult ==
    /\ app.at = "result"
    /\ IF app.last = "over"
       THEN /\ app' = [app EXCEPT !.ui = "FINISHING", !.last = "none", !.guard = FALSE, !.at = "finish"]
            /\ UNCHANGED calls
       ELSE BeginNext(app)
    /\ UNCHANGED <<sessions, replies, disk, bounds>>

\* The guard is cancelled already.  Once the video is long enough: coordinator.stop.
Finish ==
    /\ app.at = "finish" /\ app.film # "short"
    /\ app' = [app EXCEPT !.at = "stop"]
    /\ UNCHANGED <<sessions, calls, replies, disk, bounds>>

\* stopRecording throws if the recorder failed, or fails now.
Package ==
    /\ app.at = "stop"
    /\ \/ /\ app.film = "rolling"
          /\ packaged' = [packaged EXCEPT ![app.recording] = {app.timeline}]
          /\ Suspend(app, "capture-complete", None)
       \/ Abort(app, "abort stop") /\ UNCHANGED packaged
    /\ UNCHANGED <<sessions, replies, pending, work, bounds>>

SavePending ==
    /\ app.at = "save"
    /\ pending' = pending \cup {app.recording}
    /\ app' = [app EXCEPT !.at = "enqueue"]
    /\ UNCHANGED <<sessions, calls, replies, packaged, work, bounds>>

Enqueue ==
    /\ app.at = "enqueue"
    /\ work' = work \cup {app.recording}
    /\ Rest([app EXCEPT !.recording = None, !.ui = "CAPTURED"])
    /\ UNCHANGED <<sessions, replies, packaged, pending, bounds>>

FlowStep ==
    \/ Locate \/ Relocate \/ Record \/ Window \/ ShowResult
    \/ Finish \/ Package \/ SavePending \/ Enqueue

-----------------------------------------------------------------------------
(* Answers to the flow.                                                      *)

\* prepare: whatever fails after the session exists aborts it.
Prepared(r) ==
    \/ /\ r.op = "inspection"
       /\ IF r.answer = "ok" THEN Suspend(app, "create", None) ELSE Rest(Failed(app))
    \/ /\ r.op = "create"
       /\ IF r.answer = "ok"
          THEN /\ app' = [app EXCEPT !.prepared = r.s, !.at = "locate"]
               /\ UNCHANGED calls
          ELSE Rest(Failed(app))

\* start: a refusal ends in startCapture's catch block, which abandons the session.
Started(r) ==
    /\ r.op = "start-capture"
    /\ IF r.answer = "ok" THEN app' = [app EXCEPT !.at = "record"] /\ UNCHANGED calls
       ELSE Abort(app, "abort")

TimelineWith(a, r) == Append(a.timeline, [challenge |-> r.c, status |-> r.status])

\* Challenge calls: an IOException waits for the user, any other error aborts.
Challenged(r) ==
    /\ r.op \in {"next", "start-challenge", "submit"}
    /\ \/ r.answer = "lost" /\ Rest([app EXCEPT !.ui = "NETWORK_WAIT"])
       \/ r.answer = "refused" /\ FailChallengeProtocol(app)
       \/ r.answer = "ok" /\ r.op = "next" /\ Suspend(app, "start-challenge", r.c)
       \/ /\ r.answer = "ok" /\ r.op = "start-challenge"
          /\ app' = [app EXCEPT !.challenge = r.c, !.ui = "ACTIVE", !.at = "window",
                                !.job = "challenge"]
          /\ UNCHANGED calls
       \/ /\ r.op = "submit" /\ r.answer \in {"next", "retry", "over"}
          /\ app' = [app EXCEPT !.timeline = TimelineWith(app, r), !.challenge = None,
                                !.ui = "RESULT", !.last = r.answer,
                                !.at = IF r.answer = "retry" THEN "idle" ELSE "result"]
          /\ UNCHANGED calls

\* stop: any error aborts.
Completed(r) ==
    /\ r.op = "capture-complete"
    /\ IF r.answer = "ok" THEN app' = [app EXCEPT !.at = "save"] /\ UNCHANGED calls
       ELSE Abort(app, "abort stop")

\* repository.abort ignores the answer.
Aborted(r) ==
    /\ r.op = "abort"
    /\ \/ app.at = "abort" /\ Rest(Failed(app))
       \/ app.at = "abort twice" /\ Abort(app, "abort")
       \/ app.at = "abort stop" /\ Rest(Failed([app EXCEPT !.recording = None]))
       \/ app.at = "abort leave" /\ app' = NewApp /\ UNCHANGED calls

Receive(r) ==
    /\ r.by = "flow"
    /\ replies' = replies \ {r}
    /\ Prepared(r) \/ Started(r) \/ Challenged(r) \/ Completed(r) \/ Aborted(r)
    /\ UNCHANGED <<sessions, disk, bounds>>

\* The abort of an interruption or of the guard is over.
AbortReturns(r) ==
    /\ r.by \in {"interruption", "guard"}
    /\ replies' = replies \ {r}
    /\ app' = [Failed(app) EXCEPT
                  !.told = IF r.by = "interruption" THEN r.of ELSE None]
    /\ UNCHANGED <<sessions, calls, disk, bounds>>

-----------------------------------------------------------------------------
(* Cancelling the flow.                                                      *)

Orphaned(C) == {[m EXCEPT !.by = IF @ = "flow" THEN "nobody" ELSE @] : m \in C}
FlowReplies == {r \in replies : r.by = "flow"}

\* The catch blocks a cancelled flow runs.  Those of a challenge call or result, and
\* of stop, let go of the capture, and their abort is not sent.
Cancelled(a) ==
    LET b == CASE a.at \in Challenging -> Released(a)
               [] a.at \in Stopping -> [a EXCEPT !.recording = None]
               [] OTHER -> a
    IN  [b EXCEPT !.at = "idle", !.job = "none", !.guard = FALSE,
                  !.ui = IF a.ui = "STARTING" \/ a.at \in Stopping \cup Saving
                         THEN "ERROR" ELSE @]

\* coordinator.abort by a coroutine of its own, for which the flow became a.
AbortBeside(a, by) ==
    IF a.recording = None
    THEN /\ app' = [Failed(a) EXCEPT !.told = IF by = "interruption" THEN a.prepared ELSE None]
         /\ calls' = Orphaned(calls)
         /\ UNCHANGED packaged
    ELSE /\ app' = Released(a)
         /\ calls' = Orphaned(calls) \cup {Request("abort", a.recording, None, by)}
         /\ packaged' = [packaged EXCEPT ![a.recording] = {}]

\* abortForInterruption, abortByUser.  The row being saved is saved or not.
Interrupt ==
    /\ app.ui \in LiveStates
    /\ breaks < MaxBreaks /\ breaks' = breaks + 1
    /\ IF app.ui = "STARTING"
       THEN /\ app' = Cancelled(app)
            /\ calls' = Orphaned(calls)
                        \cup {Request("abort", app.prepared, None, "interruption")}
            /\ UNCHANGED packaged
       ELSE AbortBeside(Cancelled(app), "interruption")
    /\ replies' = replies \ FlowReplies
    /\ \/ UNCHANGED pending
       \/ app.at = "save" /\ pending' = pending \cup {app.recording}
    /\ UNCHANGED <<sessions, work, losses>>

\* Mutant: the guard is not looked at while the phone is offline.
GuardWatchesOnline(a) == a.guard /\ a.recording # None /\ a.ui # "NETWORK_WAIT"

GuardWatches(a) == a.guard /\ a.recording # None

\* startCaptureLimitGuard: the capture exceeds its limit.  The guard cancels
\* challengeJob only: the first challenge is issued by startJob.
Timeout ==
    /\ GuardWatches(app)
    /\ IF app.job = "start"
       THEN /\ app' = [Released(app) EXCEPT !.guard = FALSE]
            /\ calls' = calls \cup {Request("abort", app.recording, None, "guard")}
            /\ UNCHANGED <<replies, packaged>>
       ELSE /\ AbortBeside(Cancelled(app), "guard")
            /\ replies' = replies \ FlowReplies
    /\ UNCHANGED <<sessions, pending, work, bounds>>

\* The process dies, or the screen is left for good (onCleared).
Die ==
    /\ app # NewApp
    /\ breaks < MaxBreaks /\ breaks' = breaks + 1
    /\ app' = NewApp
    /\ calls' = {[m EXCEPT !.by = "nobody"] : m \in calls}
    /\ replies' = {}
    /\ UNCHANGED <<sessions, disk, losses>>

-----------------------------------------------------------------------------
(* The user.                                                                 *)

MayCreate ==
    Len(sessions) + Cardinality({m \in calls : m.op \in {"create", "inspection"}}) < MaxSessions

PermissionsGranted ==
    /\ app.ui = "INTRO" /\ app.at = "idle" /\ MayCreate
    /\ Suspend([app EXCEPT !.ui = "PREPARING"], "inspection", None)
    /\ UNCHANGED <<sessions, replies, disk, bounds>>

\* retryVerification.  Bounds: not while a prepare is under way, nor where a late
\* AbortReturns put the error over a running capture.
RetryVerification ==
    /\ app.ui = "ERROR" /\ app.at \notin Preparing \cup {"abort leave"}
    /\ app.recording = None
    /\ MayCreate
    /\ app' = [Cancelled(app) EXCEPT !.ui = "PREPARING", !.at = "inspection", !.told = None]
    /\ calls' = Orphaned(calls) \cup {Request("inspection", None, None, "flow")}
    /\ replies' = replies \ FlowReplies
    /\ UNCHANGED <<sessions, disk, bounds>>

CancelPrepared ==
    /\ app.ui = "READY" /\ app.at = "idle"
    /\ Abort([app EXCEPT !.ui = "PREPARING"], "abort leave")
    /\ UNCHANGED <<sessions, replies, disk, bounds>>

Start ==
    /\ app.ui = "READY" /\ app.at = "idle"
    /\ app' = [app EXCEPT !.ui = "STARTING", !.at = "relocate", !.job = "start"]
    /\ UNCHANGED <<sessions, calls, replies, disk, bounds>>

\* Without a challenge of its own the screen waits for the next one.
RetryConnection ==
    /\ app.ui = "NETWORK_WAIT" /\ app.at = "idle"
    /\ LET a == [app EXCEPT !.job = "challenge"] IN
       IF a.challenge = None THEN BeginNext(a)
       ELSE IF a.recording = None THEN FailChallengeProtocol([a EXCEPT !.ui = "CHECKING"])
       ELSE Suspend([a EXCEPT !.ui = "CHECKING"], "submit", a.challenge)
    /\ UNCHANGED <<sessions, replies, disk, bounds>>

RetryChallenge ==
    /\ app.ui = "RESULT" /\ app.last = "retry" /\ app.at = "idle"
    /\ BeginNext([app EXCEPT !.job = "challenge"])
    /\ UNCHANGED <<sessions, replies, disk, bounds>>

-----------------------------------------------------------------------------

Answering == \E m \in calls : Serve(m) \/ Lose(m)
Returning == \E r \in replies : Receive(r) \/ AbortReturns(r)

Next ==
    \/ Answering \/ Returning
    \/ FlowStep \/ Timeout \/ RecorderFails
    \/ PermissionsGranted \/ RetryVerification \/ CancelPrepared
    \/ Start \/ RetryConnection \/ RetryChallenge
    \/ Interrupt \/ Die
    \/ \E s \in DOMAIN sessions : Overrun(s) \/ Poll(s)

Spec == Init /\ [][Next]_vars

\* Calls end (callTimeout), suspended work goes on, the guard looks every 250 ms, and a
\* recorder that has not failed encodes until the video is long enough (Finish).
\* Nobody need press a button, and nothing need be interrupted or fail.
FairSpec ==
    /\ Spec
    /\ WF_vars(Answering) /\ WF_vars(Returning)
    /\ WF_vars(FlowStep) /\ WF_vars(Timeout)

-----------------------------------------------------------------------------

\* Timeline tl tells the challenges of session s that the server has a result for: each
\* entry as it was judged, in their order, and none left out.
Tells(tl, s) ==
    LET t == sessions[s].challenges IN
    /\ \A i, j \in DOMAIN tl : i < j => tl[i].challenge < tl[j].challenge
    /\ \A i \in DOMAIN tl :
          tl[i].challenge \in DOMAIN t /\ t[tl[i].challenge].status = tl[i].status
    /\ \A c \in DOMAIN t :
          t[c].status \in Submitted => \E i \in DOMAIN tl : tl[i].challenge = c

\* What the upload worker is given (EvidenceUploadWorker.enqueue) is a session the
\* server knows as captured, that the database will show after a restart, and whose
\* manifest tells the challenges as the server judged them: none missing after a lost
\* reply, none twice after a replay, none left over from an aborted session.
HandedOverIsComplete ==
    \A s \in work :
        /\ s \in pending
        /\ sessions[s].status = "CAPTURE_COMPLETED"
        /\ packaged[s] # {} /\ \A tl \in packaged[s] : Tells(tl, s)

\* finishAfterChallenges has cancelled the guard and waits for the rest of a video that
\* no longer grows: only the user, an interruption or death ends it.
FinishStalls == app.at = "finish" /\ app.film = "short"

\* The camera, the microphone and the sensors are let go of, whatever is lost, refused
\* or interrupted, if the recorder fails before the sequence is complete, and also if
\* the user never touches the phone again; but for a finish that stalls.
RecordingEnds == app.recording # None ~> app.recording = None \/ FinishStalls

\* A screen that only shows progress, and has no button to go on, is left by itself,
\* but for that of a finish that stalls.
Progress == {"PREPARING", "STARTING", "LOADING", "CHECKING", "FINISHING"}
ProgressEnds == app.ui \in Progress ~> app.ui \notin Progress \/ FinishStalls

\* A session of which the screen says that it was aborted (abortForInterruption,
\* abortByUser) is no longer active at the server, once no abort of it is on its way.
\* docs/session-lifecycle.md:151: "User cancellation, app backgrounding/locking or
\* capture failure aborts the session".
ToldIsAborted ==
    app.ui = "ERROR" /\ app.told # None
    /\ (\A m \in calls : m.op = "abort" => m.s # app.told)
        => app.told \notin ActiveSessions
=============================================================================
