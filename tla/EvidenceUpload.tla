--------------------------- MODULE EvidenceUpload ---------------------------
(***************************************************************************)
(* The transport of one capture's evidence from the phone to the server:   *)
(* the Android worker (EvidenceUploadWorker), the evidence endpoints       *)
(* (evidence_service.py, evidence_upload_service.py, complete_capture),    *)
(* the object store (LocalObjectStorage) and the first stage of processing *)
(* (analyze_session_visual_motion).                                        *)
(*                                                                         *)
(* Requests and replies get lost, the phone's process and the server die   *)
(* at any moment.  An upload handler awaits the request's body, so it      *)
(* works on rows it loaded long before, and it outlives a phone that gave  *)
(* up waiting and started over.  The other handlers are atomic here; their *)
(* overlap is the subject of InspectionLifecycle.                          *)
(*                                                                         *)
(* One phone, one package: idempotency key, descriptors and manifest hash  *)
(* never differ.  Aborting and expiry are left out, and so is a login that *)
(* runs out.                                                               *)
(***************************************************************************)
EXTENDS FiniteSets

CONSTANTS
    Files,     \* evidence types of the package, all required
    Video,     \* the one whose content completion does not read
    Handlers,  \* uploads the server may be receiving at once
    Idle       \* no upload

ASSUME UploadAssumption ==
    /\ Video \in Files
    /\ Idle \notin Handlers

VARIABLES
    session,   \* verification_sessions.status
    job,       \* verification_processing_jobs.status: a queued job is due or running
    record,    \* evidence_files.upload_status, NONE before the row exists
    verified,  \* evidence_files.hash_verified
    object,    \* the stored object: absent, torn or whole
    upload,    \* per handler: the upload it serves
    analyzing, \* a worker analyses the session
    phone,     \* the phone's worker: the call it is at and what it waits for
    local      \* the evidence directory is still on the phone

server == <<session, job, record, verified, object>>
vars == <<server, upload, analyzing, phone, local>>

Accepted == {"UPLOADED", "PROCESSING"}
AcceptsUploads == {"UPLOADING", "UPLOAD_FAILED"}
SessionStatus == {"CHALLENGES_COMPLETED", "CAPTURE_COMPLETED"} \cup AcceptsUploads \cup Accepted
JobStatus == {"none", "queued", "failed", "succeeded"}
RecordStatus == {"NONE", "PENDING", "UPLOADING", "UPLOADED", "FAILED"}

\* loadedSession, loadedVerified: the columns as the handler loaded them.
Upload ==
    [file : Files, loadedSession : AcceptsUploads, loadedVerified : BOOLEAN,
     phase : {"streaming", "storing"}]

Calls == {"capture-complete", "initiate", "put", "complete"}
Phone ==
    [at : Calls \cup {"cleanup", "done", "failed"},
     todo : SUBSET Files, waitsFor : Handlers \cup {Idle}]

At(call) == [at |-> call, todo |-> {}, waitsFor |-> Idle]

\* doWork from the top: a new attempt of WorkManager.
NewAttempt == At("capture-complete")

TypeOK ==
    /\ session \in SessionStatus
    /\ job \in JobStatus
    /\ record \in [Files -> RecordStatus]
    /\ verified \in [Files -> BOOLEAN]
    /\ object \in [Files -> {"absent", "torn", "whole"}]
    /\ upload \in [Handlers -> Upload \cup {Idle}]
    /\ analyzing \in BOOLEAN
    /\ phone \in Phone
    /\ local \in BOOLEAN

Init ==
    /\ session = "CHALLENGES_COMPLETED"
    /\ job = "none"
    /\ record = [f \in Files |-> "NONE"]
    /\ verified = [f \in Files |-> FALSE]
    /\ object = [f \in Files |-> "absent"]
    /\ upload = [h \in Handlers |-> Idle]
    /\ analyzing = FALSE
    /\ phone = NewAttempt
    /\ local = TRUE

-----------------------------------------------------------------------------
(* The phone and its calls. *)

\* A reply of success, or one that is lost (IOException: Result.retry).
Replied(next) == phone' \in {next, NewAttempt}

\* A 4xx reply makes the worker fail for good (UploadRetryPolicy); it may be lost.
Refused == phone' \in {At("failed"), NewAttempt}

\* The server's answer to an upload reaches a phone that still waits for it.
AnswerTo(h, answer) == phone' = IF phone.waitsFor = h THEN answer ELSE phone

\* complete_capture, with the summaries that were recorded before if any were.
\* Mind PROCESSING: it is not among the completed states.
CaptureComplete ==
    /\ phone.at = "capture-complete" /\ local
    /\ IF session = "PROCESSING"
       THEN Refused /\ UNCHANGED session
       ELSE /\ Replied(At("initiate"))
            /\ session' = IF session = "CHALLENGES_COMPLETED"
                          THEN "CAPTURE_COMPLETED" ELSE session
    /\ UNCHANGED <<job, record, verified, object, upload, analyzing, local>>

Uploaded(f) == record[f] = "UPLOADED" /\ verified[f]

\* initiate_evidence_upload
Initiate ==
    /\ phone.at = "initiate"
    /\ IF session \in AcceptsUploads \cup {"CAPTURE_COMPLETED", "UPLOADED"}
       THEN /\ record' = [f \in Files |-> IF record[f] = "NONE" THEN "PENDING" ELSE record[f]]
            /\ session' = IF session = "UPLOADED" THEN session ELSE "UPLOADING"
            /\ Replied([At("put") EXCEPT !.todo = {f \in Files : ~Uploaded(f)}])
       ELSE Refused /\ UNCHANGED <<session, record>>
    /\ UNCHANGED <<job, verified, object, upload, analyzing, local>>

\* accept_evidence_upload up to its first await, for a file still to be sent.
PutBegin(h, f) ==
    /\ phone.at = "put" /\ phone.waitsFor = Idle /\ f \in phone.todo
    /\ upload[h] = Idle
    /\ session \in AcceptsUploads /\ ~Uploaded(f)
    /\ record' = [record EXCEPT ![f] = "UPLOADING"]
    /\ upload' = [upload EXCEPT ![h] =
            [file |-> f, loadedSession |-> session, loadedVerified |-> verified[f],
             phase |-> "streaming"]]
    /\ phone' = [phone EXCEPT !.waitsFor = h]
    /\ UNCHANGED <<session, job, verified, object, analyzing, local>>

\* accept_evidence_upload returns at once.
PutAgain(f) ==
    /\ phone.at = "put" /\ phone.waitsFor = Idle /\ f \in phone.todo
    /\ IF session \in AcceptsUploads
       THEN Uploaded(f) /\ Replied([phone EXCEPT !.todo = @ \ {f}])
       ELSE Refused
    /\ UNCHANGED <<server, upload, analyzing, local>>

AllSent ==
    /\ phone.at = "put" /\ phone.todo = {}
    /\ phone' = At("complete")
    /\ UNCHANGED <<server, upload, analyzing, local>>

\* What completion checks: every record, and the content of all but the video.
Complete ==
    /\ \A f \in Files : Uploaded(f)
    /\ \A f \in Files \ {Video} : object[f] = "whole"

\* Mutant: only a job that exists is looked after.
EnqueuedBefore == job

\* enqueue_processing_job: a job that failed has no attempts left.
Enqueued == IF job = "none" THEN "queued" ELSE job

\* Mutant: a completion is accepted once.
CompleteUploadOnce ==
    /\ phone.at = "complete"
    /\ IF session \in AcceptsUploads /\ Complete
       THEN session' = "UPLOADED" /\ job' = Enqueued /\ Replied(At("cleanup"))
       ELSE Refused /\ UNCHANGED <<session, job>>
    /\ UNCHANGED <<record, verified, object, upload, analyzing, local>>

\* complete_evidence_upload
CompleteUpload ==
    /\ phone.at = "complete"
    /\ IF session \in Accepted \/ (session \in AcceptsUploads /\ Complete)
       THEN /\ session' = IF session \in Accepted THEN session ELSE "UPLOADED"
            /\ job' = Enqueued
            /\ Replied(At("cleanup"))
       ELSE Refused /\ UNCHANGED <<session, job>>
    /\ UNCHANGED <<record, verified, object, upload, analyzing, local>>

\* The directory is deleted after uploadStatus says UPLOADED.
CleanUp ==
    /\ phone.at = "cleanup"
    /\ phone' = At("done")
    /\ local' = FALSE
    /\ UNCHANGED <<server, upload, analyzing>>

\* A request or reply is lost, times out or meets a 5xx, or the phone's process
\* dies: WorkManager starts another attempt.
StartOver ==
    /\ phone.at \in Calls
    /\ phone' = NewAttempt
    /\ UNCHANGED <<server, upload, analyzing, local>>

\* The process dies before it deletes: the next attempt finds UPLOADED.
SkipCleanUp ==
    /\ phone.at = "cleanup"
    /\ phone' = At("done")
    /\ UNCHANGED <<server, upload, analyzing, local>>

\* The inspector presses retry (VerificationViewModel.retryUpload).
RetryUpload ==
    /\ phone.at = "failed"
    /\ phone' = NewAttempt
    /\ UNCHANGED <<server, upload, analyzing, local>>

-----------------------------------------------------------------------------
(* The server's upload handlers after the await. *)

EndUpload(h) == upload' = [upload EXCEPT ![h] = Idle]

\* Mutant: the record is committed before the object is stored.
PutStoreAfterCommit(h) ==
    /\ upload[h] # Idle /\ upload[h].phase = "streaming"
    /\ upload' = [upload EXCEPT ![h].phase = "storing"]
    /\ object' = [object EXCEPT ![upload[h].file] = "torn"]
    /\ record' = [record EXCEPT ![upload[h].file] = "UPLOADED"]
    /\ verified' = [verified EXCEPT ![upload[h].file] = TRUE]
    /\ UNCHANGED <<session, job, analyzing, phone, local>>

\* Size and hash match; put_file opens the object for writing.
PutStore(h) ==
    /\ upload[h] # Idle /\ upload[h].phase = "streaming"
    /\ upload' = [upload EXCEPT ![h].phase = "storing"]
    /\ object' = [object EXCEPT ![upload[h].file] = "torn"]
    /\ UNCHANGED <<session, job, record, verified, analyzing, phone, local>>

\* put_file returns and the handler commits what differs from what it loaded.
PutEnd(h) ==
    LET u == upload[h] IN
    /\ u # Idle /\ u.phase = "storing"
    /\ object' = [object EXCEPT ![u.file] = "whole"]
    /\ record' = [record EXCEPT ![u.file] = "UPLOADED"]
    /\ verified' = [verified EXCEPT ![u.file] = TRUE]
    /\ session' = IF u.loadedSession = "UPLOADING" THEN session ELSE "UPLOADING"
    /\ EndUpload(h)
    /\ AnswerTo(h, [phone EXCEPT !.todo = @ \ {u.file}, !.waitsFor = Idle])
    /\ UNCHANGED <<job, analyzing, local>>

\* Mutant: the session's status stored in the record.
PutFailWithSessionStatus(h) ==
    LET u == upload[h] IN
    /\ u # Idle
    /\ record' = [record EXCEPT ![u.file] = "UPLOAD_FAILED"]
    /\ session' = "UPLOAD_FAILED"
    /\ EndUpload(h)
    /\ AnswerTo(h, NewAttempt)
    /\ UNCHANGED <<job, verified, object, analyzing, local>>

\* mark_upload_failed: a size or hash mismatch (422), a client that disconnected
\* or a storage error (503).  hash_verified is written only if it was loaded TRUE.
PutFail(h) ==
    LET u == upload[h] IN
    /\ u # Idle
    /\ record' = [record EXCEPT ![u.file] = "FAILED"]
    /\ verified' = [verified EXCEPT ![u.file] = @ /\ ~u.loadedVerified]
    /\ session' = IF u.loadedSession = "UPLOAD_FAILED" THEN session ELSE "UPLOAD_FAILED"
    /\ EndUpload(h)
    /\ \E answer \in {At("failed"), NewAttempt} : AnswerTo(h, answer)
    /\ UNCHANGED <<job, object, analyzing, local>>

\* A body longer than declared (413) is refused without a trace in the rows.
PutTooLong(h) ==
    /\ upload[h] # Idle /\ upload[h].phase = "streaming"
    /\ EndUpload(h)
    /\ AnswerTo(h, At("failed"))
    /\ UNCHANGED <<server, analyzing, local>>

\* The server's process dies with its handlers; what was committed stays.
Crash ==
    /\ \E h \in Handlers : upload[h] # Idle
    /\ upload' = [h \in Handlers |-> Idle]
    /\ phone' = IF phone.waitsFor = Idle THEN phone ELSE NewAttempt
    /\ UNCHANGED <<server, analyzing, local>>

-----------------------------------------------------------------------------
(* The processing worker, as far as it touches the session. *)

\* analyze_session_visual_motion commits PROCESSING.
BeginAnalysis ==
    /\ job = "queued" /\ ~analyzing
    /\ session \in Accepted
    /\ session' = "PROCESSING"
    /\ analyzing' = TRUE
    /\ UNCHANGED <<job, record, verified, object, upload, phone, local>>

\* _restore_uploaded_state, on success and on failure alike.  A failure may be
\* the last attempt's (ProcessingQueue counts them).
EndAnalysis ==
    /\ analyzing
    /\ session' = "UPLOADED"
    /\ analyzing' = FALSE
    /\ job' \in {"queued", "failed", "succeeded"}
    /\ UNCHANGED <<record, verified, object, upload, phone, local>>

\* The worker dies: the queue retries the job, or gives it up, and then nobody
\* restores the session.
CrashAnalysis ==
    /\ analyzing
    /\ analyzing' = FALSE
    /\ job' \in {"queued", "failed"}
    /\ UNCHANGED <<session, record, verified, object, upload, phone, local>>

-----------------------------------------------------------------------------
PhoneStep ==
    \/ CaptureComplete
    \/ Initiate
    \/ \E f \in Files : PutAgain(f) \/ \E h \in Handlers : PutBegin(h, f)
    \/ AllSent
    \/ CompleteUpload
    \/ CleanUp

Disturbance ==
    \/ StartOver
    \/ SkipCleanUp
    \/ Crash
    \/ CrashAnalysis
    \/ \E h \in Handlers : PutFail(h) \/ PutTooLong(h)

Next ==
    \/ PhoneStep
    \/ Disturbance
    \/ RetryUpload
    \/ \E h \in Handlers : PutStore(h) \/ PutEnd(h)
    \/ BeginAnalysis
    \/ EndAnalysis

Spec == Init /\ [][Next]_vars

Succeeds(A) == A /\ phone' # NewAttempt /\ phone'.at # "failed"

\* The worker is restarted and the inspector retries for as long as it takes; a
\* call that is tried again and again gets through in the end, also to a
\* session that is not being analysed; the server's handlers run to an end, and
\* so does the job (EveryJobEnds of ProcessingQueue).  Nothing else has to happen.
Fairness ==
    /\ SF_vars(Succeeds(CaptureComplete))
    /\ SF_vars(Succeeds(Initiate))
    /\ SF_vars(AllSent)
    /\ SF_vars(Succeeds(CompleteUpload))
    /\ WF_vars(CleanUp)
    /\ WF_vars(RetryUpload)
    /\ \A f \in Files :
         /\ SF_vars(Succeeds(PutAgain(f)))
         /\ SF_vars(\E h \in Handlers : PutBegin(h, f))
    /\ \A h \in Handlers : SF_vars(PutStore(h)) /\ SF_vars(PutEnd(h))
    /\ WF_vars(BeginAnalysis)
    /\ SF_vars(EndAnalysis /\ job' # "queued")

FairSpec == Spec /\ Fairness

-----------------------------------------------------------------------------
(* Properties. *)

\* The only copy on the phone is deleted only when the server holds the whole
\* package, verified, and a job has been queued that processes it: no loss, crash or
\* retry on the way loses evidence (EvidenceUploadWorker, complete_evidence_upload).
EvidenceSurvives ==
    ~local => /\ session \in Accepted /\ job # "none"
              /\ \A f \in Files : Uploaded(f) /\ object[f] = "whole"

\* A record that says UPLOADED and verified stands for a whole stored object,
\* whatever died while it was being written (accept_evidence_upload).
VerifiedIsStored == \A f \in Files : Uploaded(f) => object[f] = "whole"

\* The package arrives in the end, and the phone learns it, or the job was given
\* up with a dead worker: then the session stays PROCESSING, which complete_capture
\* refuses.
Delivered == <>(phone.at = "done" \/ (session = "PROCESSING" /\ job = "failed"))
=============================================================================
