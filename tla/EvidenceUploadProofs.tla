------------------------ MODULE EvidenceUploadProofs ------------------------
(***************************************************************************)
(* Proofs about the transport of evidence for every package of files.      *)
(***************************************************************************)
EXTENDS EvidenceUpload, TLAPS

-----------------------------------------------------------------------------
(* Types, for any number of uploads at once.                               *)

LEMMA PhoneTypes ==
    /\ \A call \in Calls \cup {"cleanup", "done", "failed"} :
         At(call) \in Phone /\ At(call).at = call /\ At(call).waitsFor = Idle
    /\ NewAttempt \in Phone /\ NewAttempt.at = "capture-complete" /\ NewAttempt.waitsFor = Idle
BY DEF At, Phone, NewAttempt, Calls

(* Of the uploads, each step of a handler changes one file of the package. *)
LEMMA UploadsTyped ==
    ASSUME TypeOK, NEW h \in Handlers, upload[h] # Idle
    PROVE  upload[h] \in Upload /\ upload[h].file \in Files
BY DEF TypeOK, Upload

LEMMA PhoneStepTyped ==
    ASSUME TypeOK, PhoneStep
    PROVE  TypeOK'
<1>1. CASE CaptureComplete
  <2>1. phone' \in {At("initiate"), At("failed"), NewAttempt}
    BY <1>1 DEF CaptureComplete, Replied, Refused
  <2>2. phone' \in Phone /\ session' \in SessionStatus
    BY <1>1, <2>1, PhoneTypes DEF CaptureComplete, TypeOK, SessionStatus, Calls
  <2> QED BY <1>1, <2>2 DEF CaptureComplete, TypeOK
<1>2. CASE Initiate
  <2> DEFINE todo == {f \in Files : ~Uploaded(f)}
             next == [At("put") EXCEPT !.todo = todo]
  <2>1. At("put") \in Phone
    BY PhoneTypes DEF Calls
  <2>2. todo \in SUBSET Files
    OBVIOUS
  <2>3. next \in Phone
    <3> HIDE DEF todo
    <3> QED BY <2>1, <2>2 DEF Phone
  <2>4. phone' \in {next, At("failed"), NewAttempt}
    BY <1>2 DEF Initiate, Replied, Refused
  <2> HIDE DEF next
  <2>5. phone' \in Phone
    BY <2>3, <2>4, PhoneTypes
  <2>6. record' \in [Files -> RecordStatus] /\ session' \in SessionStatus
    BY <1>2 DEF Initiate, TypeOK, RecordStatus, SessionStatus, AcceptsUploads
  <2>7. UNCHANGED <<job, verified, object, upload, analyzing, local>>
    BY <1>2 DEF Initiate
  <2> QED BY <2>5, <2>6, <2>7 DEF TypeOK
<1>3. ASSUME NEW h \in Handlers, NEW f \in Files, PutBegin(h, f) PROVE TypeOK'
  <2>1. PICK known \in BOOLEAN : known = verified[f]
    BY DEF TypeOK
  <2> DEFINE u == [file |-> f, loadedSession |-> session, loadedVerified |-> known,
                   phase |-> "streaming"]
  <2>2. u \in Upload /\ upload' = [upload EXCEPT ![h] = u]
    BY <1>3, <2>1 DEF PutBegin, Upload
  <2> HIDE DEF u
  <2>3. upload' \in [Handlers -> Upload \cup {Idle}]
    BY <2>2 DEF TypeOK
  <2>4. record' \in [Files -> RecordStatus] /\ phone' \in Phone
    BY <1>3 DEF PutBegin, TypeOK, RecordStatus, Phone
  <2>5. UNCHANGED <<session, job, verified, object, analyzing, local>>
    BY <1>3 DEF PutBegin
  <2> QED BY <2>3, <2>4, <2>5 DEF TypeOK
<1>4. ASSUME NEW f \in Files, PutAgain(f) PROVE TypeOK'
  <2>1. phone' \in {[phone EXCEPT !.todo = @ \ {f}], At("failed"), NewAttempt}
    BY <1>4 DEF PutAgain, Replied, Refused
  <2>2. phone' \in Phone
    BY <2>1, PhoneTypes DEF TypeOK, Phone
  <2> QED BY <1>4, <2>2 DEF PutAgain, TypeOK, server
<1>5. CASE AllSent
  BY <1>5, PhoneTypes DEF AllSent, TypeOK, server, Calls
<1>6. CASE CompleteUpload
  <2>1. phone' \in {At("cleanup"), At("failed"), NewAttempt}
    BY <1>6 DEF CompleteUpload, Replied, Refused
  <2>2. phone' \in Phone /\ session' \in SessionStatus /\ job' \in JobStatus
    BY <1>6, <2>1, PhoneTypes
       DEF CompleteUpload, TypeOK, SessionStatus, Accepted, Enqueued, JobStatus
  <2> QED BY <1>6, <2>2 DEF CompleteUpload, TypeOK
<1>7. CASE CleanUp
  BY <1>7, PhoneTypes DEF CleanUp, TypeOK, server
<1> QED BY <1>1, <1>2, <1>3, <1>4, <1>5, <1>6, <1>7 DEF PhoneStep

LEMMA HandlerStepTyped ==
    ASSUME TypeOK, NEW h \in Handlers,
           PutStore(h) \/ PutEnd(h) \/ PutFail(h) \/ PutTooLong(h)
    PROVE  TypeOK'
<1> DEFINE u == upload[h]
<1>1. u \in Upload /\ u.file \in Files /\ u # Idle
  BY UploadsTyped DEF PutStore, PutEnd, PutFail, PutTooLong
<1>2. EndUpload(h) => upload' \in [Handlers -> Upload \cup {Idle}]
  BY DEF EndUpload, TypeOK
<1>3. CASE PutStore(h)
  <2> DEFINE v == [u EXCEPT !.phase = "storing"]
  <2>1. v \in Upload
    BY <1>1 DEF Upload
  <2>2. upload' = [upload EXCEPT ![h] = v]
    BY <1>3 DEF PutStore, TypeOK
  <2> HIDE DEF v
  <2>3. upload' \in [Handlers -> Upload \cup {Idle}]
    BY <2>1, <2>2 DEF TypeOK
  <2> QED BY <1>1, <1>3, <2>3 DEF PutStore, TypeOK
<1>4. CASE PutEnd(h)
  <2>1. phone' \in Phone
    BY <1>4 DEF PutEnd, AnswerTo, TypeOK, Phone
  <2>2. session' \in SessionStatus
    BY <1>4 DEF PutEnd, TypeOK, SessionStatus, AcceptsUploads
  <2>3. object' \in [Files -> {"absent", "torn", "whole"}] /\ record' \in [Files -> RecordStatus]
    BY <1>1, <1>4 DEF PutEnd, TypeOK, RecordStatus
  <2>4. verified' \in [Files -> BOOLEAN]
    BY <1>1, <1>4 DEF PutEnd, TypeOK
  <2> QED BY <1>2, <1>4, <2>1, <2>2, <2>3, <2>4 DEF PutEnd, TypeOK
<1>5. CASE PutFail(h)
  <2>1. phone' \in {phone, At("failed"), NewAttempt}
    BY <1>5 DEF PutFail, AnswerTo
  <2>2. phone' \in Phone
    BY <2>1, PhoneTypes DEF TypeOK
  <2>3. session' \in SessionStatus
    BY <1>5 DEF PutFail, TypeOK, SessionStatus, AcceptsUploads
  <2>4. record' \in [Files -> RecordStatus]
    BY <1>1, <1>5 DEF PutFail, TypeOK, RecordStatus
  <2>5. verified' \in [Files -> BOOLEAN]
    BY <1>1, <1>5 DEF PutFail, TypeOK
  <2> QED BY <1>2, <1>5, <2>2, <2>3, <2>4, <2>5 DEF PutFail, TypeOK
<1>6. CASE PutTooLong(h)
  <2>1. phone' \in Phone
    BY <1>6, PhoneTypes DEF PutTooLong, AnswerTo, TypeOK
  <2> QED BY <1>2, <1>6, <2>1 DEF PutTooLong, TypeOK, server
<1> QED BY <1>3, <1>4, <1>5, <1>6

LEMMA OtherStepTyped ==
    ASSUME TypeOK,
           \/ StartOver \/ SkipCleanUp \/ RetryUpload
           \/ Crash \/ CrashAnalysis \/ BeginAnalysis \/ EndAnalysis
    PROVE  TypeOK'
<1>1. CASE StartOver \/ SkipCleanUp \/ RetryUpload
  BY <1>1, PhoneTypes DEF StartOver, SkipCleanUp, RetryUpload, TypeOK, server
<1>2. CASE Crash
  BY <1>2, PhoneTypes DEF Crash, TypeOK, server
<1>3. CASE CrashAnalysis \/ BeginAnalysis \/ EndAnalysis
  BY <1>3 DEF CrashAnalysis, BeginAnalysis, EndAnalysis, TypeOK, SessionStatus, Accepted, JobStatus
<1> QED BY <1>1, <1>2, <1>3

LEMMA Steps ==
    ASSUME Next
    PROVE  \/ PhoneStep
           \/ \E h \in Handlers : PutStore(h) \/ PutEnd(h) \/ PutFail(h) \/ PutTooLong(h)
           \/ StartOver \/ SkipCleanUp \/ RetryUpload
           \/ Crash \/ CrashAnalysis \/ BeginAnalysis \/ EndAnalysis
BY Zenon DEF Next, Disturbance

(* The session, the records, the objects and the phone are of their types, *)
(* however many uploads the server receives at once.                       *)
THEOREM TypeCorrect == Spec => []TypeOK
<1>1. Init => TypeOK
  <2>1. "CHALLENGES_COMPLETED" \in SessionStatus /\ "none" \in JobStatus /\ "NONE" \in RecordStatus
    BY DEF SessionStatus, JobStatus, RecordStatus
  <2>2. NewAttempt \in Phone
    BY PhoneTypes
  <2> QED BY <2>1, <2>2 DEF Init, TypeOK
<1>2. TypeOK /\ [Next]_vars => TypeOK'
  <2> SUFFICES ASSUME TypeOK, [Next]_vars PROVE TypeOK'
    OBVIOUS
  <2>1. CASE UNCHANGED vars
    BY <2>1 DEF vars, server, TypeOK
  <2>2. CASE Next
    BY <2>2, Steps, PhoneStepTyped, HandlerStepTyped, OtherStepTyped
  <2> QED BY <2>1, <2>2
<1> QED BY <1>1, <1>2, PTL DEF Spec

-----------------------------------------------------------------------------
(* While the server receives one upload at a time.  A slow upload that     *)
(* outlives its client is then over before the phone sends another, and    *)
(* nothing is written behind a session that was accepted.                  *)

OneUpload == \A g, h \in Handlers : g = h

(* An upload works on a file that is marked so, and before completion.     *)
ReceivingIsMarked ==
    \A h \in Handlers : upload[h] # Idle =>
        record[upload[h].file] = "UPLOADING" /\ session \in AcceptsUploads

(* An accepted session has a job and the whole package; analysis knows     *)
(* only such sessions, and the phone cleans up only after one.             *)
AcceptedIsComplete ==
    /\ session \in Accepted => job # "none" /\ \A f \in Files : Uploaded(f)
    /\ analyzing => session = "PROCESSING"
    /\ phone.at = "cleanup" \/ ~local => session \in Accepted

TransportInv == TypeOK /\ VerifiedIsStored /\ ReceivingIsMarked /\ AcceptedIsComplete

LEMMA Statuses ==
    /\ AcceptsUploads \cap Accepted = {}
    /\ "UPLOADING" \in AcceptsUploads /\ "UPLOAD_FAILED" \in AcceptsUploads
    /\ "UPLOADED" \in Accepted /\ "PROCESSING" \in Accepted
    /\ \A x \in Accepted : x = "UPLOADED" \/ x = "PROCESSING"
BY DEF AcceptsUploads, Accepted

(* The reply to a call other than the completion leads to no clean-up.     *)
LEMMA PhoneCalls ==
    ASSUME TransportInv, phone'.at # "cleanup", UNCHANGED <<session, job, record, verified, analyzing, local>>
    PROVE  AcceptedIsComplete'
BY DEF TransportInv, AcceptedIsComplete, Uploaded

LEMMA CallsKeep ==
    ASSUME TransportInv,
           CaptureComplete \/ Initiate \/ AllSent \/ CleanUp \/ \E f \in Files : PutAgain(f)
    PROVE  VerifiedIsStored' /\ ReceivingIsMarked' /\ AcceptedIsComplete'
<1> USE DEF TransportInv
<1>1. CASE CaptureComplete
  <2>1. phone'.at # "cleanup"
    BY <1>1, PhoneTypes DEF CaptureComplete, Replied, Refused, Calls
  <2>2. /\ UNCHANGED <<job, record, verified, object, upload, analyzing, local>>
        /\ session' = session
           \/ (session = "CHALLENGES_COMPLETED" /\ session' = "CAPTURE_COMPLETED")
    <3>1. CASE session = "PROCESSING"
      BY <1>1, <3>1 DEF CaptureComplete
    <3>2. CASE session # "PROCESSING"
      BY <1>1, <3>2 DEF CaptureComplete
    <3> QED BY <3>1, <3>2
  <2>3. \/ session' = session
        \/ /\ session \notin AcceptsUploads \cup Accepted
           /\ session' \notin AcceptsUploads \cup Accepted
    BY <2>2 DEF AcceptsUploads, Accepted
  <2> QED BY <2>1, <2>2, <2>3, Statuses
          DEF VerifiedIsStored, ReceivingIsMarked, AcceptedIsComplete, Uploaded
<1>2. CASE Initiate
  <2>1. phone'.at # "cleanup"
    <3>1. phone' \in {[At("put") EXCEPT !.todo = {f \in Files : ~Uploaded(f)}], At("failed"), NewAttempt}
      BY <1>2 DEF Initiate, Replied, Refused
    <3>2. [At("put") EXCEPT !.todo = {f \in Files : ~Uploaded(f)}].at = "put"
      BY DEF At
    <3> QED BY <3>1, <3>2, PhoneTypes DEF Calls
  <2>2. UNCHANGED <<job, verified, object, upload, analyzing, local>>
    BY <1>2 DEF Initiate
  <2>3. /\ \A f \in Files : record'[f] = "UPLOADED" <=> record[f] = "UPLOADED"
        /\ \A f \in Files : record[f] = "UPLOADING" => record'[f] = "UPLOADING"
    BY <1>2 DEF Initiate
  <2>4. /\ session \in AcceptsUploads => session' \in AcceptsUploads
        /\ session' = session \/ (session \notin Accepted /\ session' = "UPLOADING")
    <3>1. CASE session \in AcceptsUploads \cup {"CAPTURE_COMPLETED", "UPLOADED"}
      <4>1. session' = IF session = "UPLOADED" THEN session ELSE "UPLOADING"
        BY <1>2, <3>1 DEF Initiate
      <4> QED BY <3>1, <4>1 DEF AcceptsUploads, Accepted
    <3>2. CASE session \notin AcceptsUploads \cup {"CAPTURE_COMPLETED", "UPLOADED"}
      BY <1>2, <3>2 DEF Initiate
    <3> QED BY <3>1, <3>2
  <2>5. \A f \in Files : Uploaded(f)' <=> Uploaded(f)
    BY <2>2, <2>3 DEF Uploaded
  <2>6. VerifiedIsStored' /\ ReceivingIsMarked'
    BY <2>2, <2>3, <2>4, <2>5, UploadsTyped DEF VerifiedIsStored, ReceivingIsMarked
  <2>7. AcceptedIsComplete'
    BY <2>1, <2>2, <2>4, <2>5, Statuses DEF AcceptedIsComplete
  <2> QED BY <2>6, <2>7
<1>3. CASE AllSent
  BY <1>3, PhoneTypes, PhoneCalls
     DEF AllSent, server, Calls, VerifiedIsStored, ReceivingIsMarked, Uploaded
<1>4. CASE CleanUp
  BY <1>4, PhoneTypes
     DEF CleanUp, server, VerifiedIsStored, ReceivingIsMarked, AcceptedIsComplete, Uploaded
<1>5. ASSUME NEW f \in Files, PutAgain(f)
      PROVE  VerifiedIsStored' /\ ReceivingIsMarked' /\ AcceptedIsComplete'
  <2>1. phone' \in {[phone EXCEPT !.todo = @ \ {f}], At("failed"), NewAttempt}
        /\ UNCHANGED <<server, upload, analyzing, local>> /\ phone.at = "put"
    BY <1>5 DEF PutAgain, Replied, Refused
  <2>2. phone'.at # "cleanup"
    BY <2>1, PhoneTypes DEF TypeOK, Phone, Calls
  <2> QED BY <2>1, <2>2, PhoneCalls DEF server, VerifiedIsStored, ReceivingIsMarked, Uploaded
<1> QED BY <1>1, <1>2, <1>3, <1>4, <1>5

(* The completion is accepted only with the whole package.                 *)
LEMMA CompletionKeeps ==
    ASSUME TransportInv, CompleteUpload
    PROVE  VerifiedIsStored' /\ ReceivingIsMarked' /\ AcceptedIsComplete'
<1> USE DEF TransportInv
<1>1. UNCHANGED <<record, verified, object, upload, analyzing, local>>
      /\ phone.at = "complete"
  BY DEF CompleteUpload
<1>2. CASE session \in Accepted \/ (session \in AcceptsUploads /\ Complete)
  <2>1. /\ session' = IF session \in Accepted THEN session ELSE "UPLOADED"
        /\ job' = Enqueued
    BY <1>2 DEF CompleteUpload
  <2>2. job' # "none" /\ session' \in Accepted
    BY <2>1, Statuses DEF Enqueued
  <2>3. \A f \in Files : Uploaded(f)
    BY <1>2 DEF Complete, AcceptedIsComplete
  <2>4. \A h \in Handlers : upload[h] = Idle
    BY <2>3, UploadsTyped DEF ReceivingIsMarked, Uploaded
  <2>5. analyzing => session' = "PROCESSING"
    BY <2>1, Statuses DEF AcceptedIsComplete
  <2> QED BY <1>1, <2>2, <2>3, <2>4, <2>5
          DEF VerifiedIsStored, ReceivingIsMarked, AcceptedIsComplete, Uploaded
<1>3. CASE ~(session \in Accepted \/ (session \in AcceptsUploads /\ Complete))
  <2>1. UNCHANGED <<session, job>> /\ phone'.at # "cleanup"
    BY <1>3, PhoneTypes DEF CompleteUpload, Refused
  <2> QED BY <1>1, <2>1, PhoneCalls DEF VerifiedIsStored, ReceivingIsMarked, Uploaded
<1> QED BY <1>2, <1>3

(* The upload that begins is the only one.                                 *)
LEMMA BeginKeeps ==
    ASSUME OneUpload, TransportInv, NEW h \in Handlers, NEW f \in Files, PutBegin(h, f)
    PROVE  VerifiedIsStored' /\ ReceivingIsMarked' /\ AcceptedIsComplete'
<1> USE DEF TransportInv
<1>1. /\ UNCHANGED <<session, job, verified, object, analyzing, local>>
      /\ session \in AcceptsUploads /\ record' = [record EXCEPT ![f] = "UPLOADING"]
      /\ phone.at = "put" /\ phone' = [phone EXCEPT !.waitsFor = h]
  BY DEF PutBegin
<1>2. upload'[h].file = f
  BY DEF PutBegin, TypeOK
<1>3. record'[f] = "UPLOADING" /\ \A g \in Files : record'[g] = "UPLOADED" => record[g] = "UPLOADED"
  BY <1>1 DEF TypeOK
<1>4. VerifiedIsStored'
  BY <1>1, <1>3 DEF VerifiedIsStored, Uploaded
<1>5. ReceivingIsMarked'
  BY <1>1, <1>2, <1>3 DEF ReceivingIsMarked, OneUpload
<1>6. phone'.at # "cleanup"
  BY <1>1 DEF TypeOK, Phone
<1>7. AcceptedIsComplete'
  BY <1>1, <1>6, Statuses DEF AcceptedIsComplete
<1> QED BY <1>4, <1>5, <1>7

(* The handler, the only one, works on a file that is not verified in a    *)
(* session that is not accepted.                                           *)
LEMMA HandlerKeeps ==
    ASSUME OneUpload, TransportInv, NEW h \in Handlers,
           PutStore(h) \/ PutEnd(h) \/ PutFail(h) \/ PutTooLong(h)
    PROVE  VerifiedIsStored' /\ ReceivingIsMarked' /\ AcceptedIsComplete'
<1> USE DEF TransportInv
<1> DEFINE f == upload[h].file
<1>1. /\ upload[h] # Idle /\ upload[h] \in Upload /\ f \in Files
      /\ record[f] = "UPLOADING" /\ session \in AcceptsUploads
  BY UploadsTyped DEF PutStore, PutEnd, PutFail, PutTooLong, ReceivingIsMarked
<1>2. session \notin Accepted /\ ~analyzing /\ local /\ phone.at # "cleanup"
  BY <1>1, Statuses DEF AcceptedIsComplete
<1>3. analyzing' = analyzing /\ local' = local
  BY DEF PutStore, PutEnd, PutFail, PutTooLong, server
<1>4. session' \in AcceptsUploads
  BY <1>1, Statuses DEF PutStore, PutEnd, PutFail, PutTooLong, server
<1>5. phone'.at # "cleanup"
  <2>1. phone' \in {phone, [phone EXCEPT !.todo = @ \ {f}, !.waitsFor = Idle],
                   At("failed"), NewAttempt}
    BY DEF PutStore, PutEnd, PutFail, PutTooLong, AnswerTo
  <2> QED BY <1>2, <2>1, PhoneTypes DEF TypeOK, Phone
<1>6. AcceptedIsComplete'
  BY <1>2, <1>3, <1>4, <1>5, Statuses DEF AcceptedIsComplete
<1>7. CASE PutStore(h)
  <2>1. /\ object' = [object EXCEPT ![f] = "torn"] /\ UNCHANGED <<record, verified>>
        /\ upload' = [upload EXCEPT ![h].phase = "storing"]
    BY <1>7 DEF PutStore
  <2>2. upload'[h].file = f
    BY <1>1, <2>1 DEF TypeOK, Upload
  <2>3. VerifiedIsStored'
    BY <1>1, <2>1 DEF VerifiedIsStored, Uploaded, TypeOK
  <2>4. ReceivingIsMarked'
    BY <1>1, <1>4, <2>1, <2>2 DEF ReceivingIsMarked, OneUpload
  <2> QED BY <1>6, <2>3, <2>4
<1>8. CASE PutEnd(h) \/ PutFail(h) \/ PutTooLong(h)
  <2>1. \A g \in Handlers : upload'[g] = Idle
    BY <1>8 DEF PutEnd, PutFail, PutTooLong, EndUpload, OneUpload, TypeOK
  <2>2. CASE PutEnd(h)
    <3>1. object' = [object EXCEPT ![f] = "whole"]
          /\ \A g \in Files : g # f => record'[g] = record[g] /\ verified'[g] = verified[g]
      BY <2>2 DEF PutEnd, TypeOK
    <3> QED BY <1>6, <2>1, <3>1 DEF VerifiedIsStored, Uploaded, TypeOK, ReceivingIsMarked
  <2>3. CASE PutFail(h)
    <3>1. object' = object /\ record'[f] = "FAILED"
          /\ \A g \in Files : g # f => record'[g] = record[g] /\ verified'[g] = verified[g]
      BY <1>1, <2>3 DEF PutFail, TypeOK
    <3> QED BY <1>6, <2>1, <3>1 DEF VerifiedIsStored, Uploaded, ReceivingIsMarked
  <2>4. CASE PutTooLong(h)
    BY <1>6, <2>1, <2>4 DEF PutTooLong, server, VerifiedIsStored, Uploaded, ReceivingIsMarked
  <2> QED BY <1>8, <2>2, <2>3, <2>4
<1> QED BY <1>7, <1>8

LEMMA OthersKeep ==
    ASSUME TransportInv,
           \/ StartOver \/ SkipCleanUp \/ RetryUpload
           \/ Crash \/ CrashAnalysis \/ BeginAnalysis \/ EndAnalysis
    PROVE  VerifiedIsStored' /\ ReceivingIsMarked' /\ AcceptedIsComplete'
<1> USE DEF TransportInv
<1>1. CASE StartOver \/ SkipCleanUp \/ RetryUpload
  <2>1. phone'.at # "cleanup" /\ UNCHANGED <<server, upload, analyzing, local>>
    BY <1>1, PhoneTypes DEF StartOver, SkipCleanUp, RetryUpload
  <2> QED BY <2>1, PhoneCalls DEF server, VerifiedIsStored, ReceivingIsMarked, Uploaded
<1>2. CASE Crash
  <2>1. /\ \A h \in Handlers : upload'[h] = Idle
        /\ UNCHANGED <<server, analyzing, local>>
        /\ phone' = phone \/ phone'.at # "cleanup"
    BY <1>2, PhoneTypes DEF Crash
  <2> QED BY <2>1 DEF server, VerifiedIsStored, ReceivingIsMarked, AcceptedIsComplete, Uploaded
<1>3. CASE CrashAnalysis \/ BeginAnalysis \/ EndAnalysis
  <2>1. /\ UNCHANGED <<record, verified, object, upload, phone, local>>
        /\ session \in Accepted /\ session' \in Accepted /\ job' # "none"
        /\ analyzing' => session' = "PROCESSING"
    BY <1>3, Statuses DEF CrashAnalysis, BeginAnalysis, EndAnalysis, AcceptedIsComplete
  <2> QED BY <2>1, Statuses
          DEF VerifiedIsStored, ReceivingIsMarked, AcceptedIsComplete, Uploaded
<1> QED BY <1>1, <1>2, <1>3

LEMMA TransportHolds == ASSUME OneUpload PROVE Spec => []TransportInv
<1>1. Init => VerifiedIsStored /\ ReceivingIsMarked /\ AcceptedIsComplete
  BY PhoneTypes DEF Init, VerifiedIsStored, ReceivingIsMarked, AcceptedIsComplete, Uploaded, Accepted
<1>2. TransportInv /\ [Next]_vars => (VerifiedIsStored /\ ReceivingIsMarked /\ AcceptedIsComplete)'
  <2> SUFFICES ASSUME TransportInv, [Next]_vars
               PROVE  VerifiedIsStored' /\ ReceivingIsMarked' /\ AcceptedIsComplete'
    OBVIOUS
  <2>1. CASE UNCHANGED vars
    BY <2>1 DEF vars, server, TransportInv, VerifiedIsStored, ReceivingIsMarked,
                AcceptedIsComplete, Uploaded
  <2>2. CASE PhoneStep
    BY <2>2, CallsKeep, CompletionKeeps, BeginKeeps DEF PhoneStep
  <2>3. CASE Next /\ ~PhoneStep
    BY <2>3, Steps, HandlerKeeps, OthersKeep
  <2> QED BY <2>1, <2>2, <2>3
<1> QED BY <1>1, <1>2, TypeCorrect, PTL DEF Spec, TransportInv

(* A record that says UPLOADED and verified stands for a whole stored      *)
(* object, whatever dies while it is written: accept_evidence_upload.      *)
THEOREM VerifiedIsAlwaysStored == ASSUME OneUpload PROVE Spec => []VerifiedIsStored
<1>1. TransportInv => VerifiedIsStored
  BY DEF TransportInv
<1> QED BY <1>1, TransportHolds, PTL

(* The phone's only copy goes when the server has the whole package and a  *)
(* job for it: EvidenceUploadWorker and complete_evidence_upload.          *)
THEOREM EvidenceAlwaysSurvives == ASSUME OneUpload PROVE Spec => []EvidenceSurvives
<1>1. TransportInv => EvidenceSurvives
  BY DEF TransportInv, AcceptedIsComplete, VerifiedIsStored, EvidenceSurvives
<1> QED BY <1>1, TransportHolds, PTL
=============================================================================
