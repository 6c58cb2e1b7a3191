------------------------------ MODULE Verdict ------------------------------
(***************************************************************************)
(* How the evidence of one capture becomes a verdict.                      *)
(*                                                                         *)
(* The visual analysis stores a row for one take after the other, the      *)
(* fusion compares them with the sensors, the security and signal analyses *)
(* store one row each. Each may fail and be tried again, and a job or an   *)
(* administrator may run each once more, in any order and by force, which  *)
(* writes rows anew that a decision was made on; calculate_verification()  *)
(* decides for the engine that it finds ready, and once for each.          *)
(* Each step here is one transaction: how jobs interleave within them is   *)
(* the subject of VerificationPipeline.                                    *)
(***************************************************************************)
EXTENDS Scoring

CONSTANT Cases  \* [capture, stream, failures]: the last bounds the analyses that break off

(* What the app records of a session, and what the analyses measure in it. *)
TakeInput ==
    [kind : ChallengeType, asked : AnglesAsked, began : Int, ended : Int, gyro : GyroSamples,
     rotation : Maybe(Int), film : Footage, correlation : Maybe(Int)]
LocationOf == [distance : Nat, radius : Nat \ {0}, accuracy : Nat]
ASSUME NoPlaceAssumption == NoMeasure \notin LocationOf
CaptureInput ==
    [location : Maybe(LocationOf),
     time : Maybe([start : Int, end : Int, deadline : Int, offset : Int]),
     takes : Seq(TakeInput)]
StreamInput(attestation, wifi) ==
    [fixes : Seq(LocationFix), still : Maybe(BOOLEAN), sensors : SensorCounts, reused : SUBSET {"VIDEO", "SENSOR_DATA"},
     device : DeviceMetadata, frames : FrameScores, replacedDuplicate : Score,
     attestation : {attestation}, wifi : {wifi}]
WifiInput(w) ==
    IsFiniteSet(DOMAIN w.points) /\ \A p \in DOMAIN w.points : w.points[p] \in Int
ASSUME CasesAssumption ==
    \A c \in Cases :
        /\ c.capture \in CaptureInput
        /\ c.stream \in StreamInput(c.stream.attestation, c.stream.wifi)
        /\ Known(c.stream.wifi) =>
            Len(c.stream.wifi) \in Nat /\ \A i \in 1..Len(c.stream.wifi) : WifiInput(c.stream.wifi[i])

VARIABLES
    case,      \* the evidence of the session, which never changes
    takes,     \* its takes, with the outcome of their validation
    visual,    \* for each take its visual row, or NoMeasure
    fusion,    \* for each take its fused row, or NoMeasure
    security,  \* the row of the security analysis, or NoMeasure
    advanced,  \* the row of the advanced signals, or NoMeasure
    result,    \* for each engine, its verification result
    failures   \* how many analyses broke off

vars == <<case, takes, visual, fusion, security, advanced, result, failures>>

Legacy == "verification-engine-v1.1"
Security == "verification-engine-v2.0"
Engines == {Legacy, Security}

NoResult == [status |-> "none"]
Waiting == [status |-> "WAITING_FOR_SIGNALS"]

Take(t) == [kind |-> t.kind, asked |-> t.asked, began |-> t.began, ended |-> t.ended, gyro |-> t.gyro,
            rotation |-> t.rotation, film |-> t.film, correlation |-> t.correlation, outcome |-> Validated(t)]
capture == [location |-> case.capture.location, time |-> case.capture.time, takes |-> takes]
Stored(rows) == Restrict(rows, {i \in DOMAIN rows : Known(rows[i])})
Evidence == SignalsOf(capture, Stored(visual), Stored(fusion))

Init ==
    /\ case \in Cases
    /\ takes = [i \in DOMAIN case.capture.takes |-> Take(case.capture.takes[i])]
    /\ visual = [i \in DOMAIN takes |-> NoMeasure]
    /\ fusion = visual
    /\ security = NoMeasure /\ advanced = NoMeasure
    /\ result = [e \in Engines |-> NoResult]
    /\ failures = 0

(***************************************************************************)
(* The visual analysis: every take without a final row is marked, or every *)
(* take when a job forces it (visual_analysis_tasks.py); then the marked   *)
(* ones are done in order.                                                 *)
(***************************************************************************)
Status(i) == IF Known(visual[i]) THEN visual[i].status ELSE "none"
Final == {"SUCCESS", "INCONCLUSIVE"}
Unfinished == {i \in DOMAIN takes : Status(i) \notin Final}
InProgress == {i \in DOMAIN takes : Status(i) = "PROCESSING"}
Marked(rows, set, row) == [i \in DOMAIN rows |-> IF i \in set THEN row ELSE rows[i]]

BeginVisual ==
    /\ InProgress = {}
    /\ \E set \in {Unfinished, DOMAIN takes} \ {{}} :
        visual' = Marked(visual, set, BlankRow("PROCESSING"))
    /\ UNCHANGED <<case, takes, fusion, security, advanced, result, failures>>

AnalyseTake ==
    /\ InProgress # {}
    /\ LET i == Min(InProgress) IN
        /\ Decodable(takes[i], takes[i].outcome)
        /\ visual' = [visual EXCEPT ![i] = VideoRow(takes[i], takes[i].outcome)]
    /\ UNCHANGED <<case, takes, fusion, security, advanced, result, failures>>

(* A timeout, a lost file, or a take that the video does not show.         *)
FailVisual ==
    /\ InProgress # {} /\ failures < case.failures
    /\ visual' = Marked(visual, InProgress, BlankRow("FAILED"))
    /\ failures' = failures + 1
    /\ UNCHANGED <<case, takes, fusion, security, advanced, result>>

(***************************************************************************)
(* The fusion, which every caller forces. One that comes too early leaves  *)
(* rows that are PENDING, one that fails leaves the complete rows that     *)
(* there are.                                                              *)
(***************************************************************************)
NoFusedRow(stage) ==
    [stage |-> stage, status |-> "INCONCLUSIVE", effective |-> NoMeasure, confidence |-> 0,
     reasons |-> {}, sameDirection |-> FALSE, angleError |-> NoMeasure, offsets |-> {}]
Broken(row) ==
    IF Known(row) THEN [row EXCEPT !.stage = "FAILED", !.status = "INCONCLUSIVE", !.reasons = {}]
    ELSE NoFusedRow("FAILED")
NotReady == {i \in DOMAIN takes : Status(i) \in {"none", "PROCESSING"}}
Complete(i) == Known(fusion[i]) /\ fusion[i].stage = "COMPLETE"

FuseTooEarly ==
    /\ NotReady # {}
    /\ fusion' = Marked(fusion, NotReady, NoFusedRow("PENDING"))
    /\ UNCHANGED <<case, takes, visual, security, advanced, result, failures>>

Fuse ==
    /\ NotReady = {}
    /\ fusion' = [i \in DOMAIN takes |-> FusedTake(takes[i], visual[i])]
    /\ UNCHANGED <<case, takes, visual, security, advanced, result, failures>>

(* It breaks off before the first take or within take k.                   *)
FailFusion ==
    /\ NotReady = {} /\ failures < case.failures
    /\ \E k \in 0..Len(takes) :
        fusion' = [i \in DOMAIN takes |->
            IF i < k THEN FusedTake(takes[i], visual[i])
            ELSE IF Complete(i) /\ i # k THEN fusion[i] ELSE Broken(fusion[i])]
    /\ failures' = failures + 1
    /\ UNCHANGED <<case, takes, visual, security, advanced, result>>

(***************************************************************************)
(* The two analyses of the whole session, which every caller forces: each  *)
(* run writes its row anew. The visual row of every attempt counts as      *)
(* repeated frames, the replaced ones too.                                 *)
(***************************************************************************)
DuplicateRatio ==
    Max({case.stream.replacedDuplicate} \cup {Stored(visual)[i].duplicate : i \in DOMAIN Stored(visual)})

Assess ==
    /\ security' = Assessed(case.stream, Stored(fusion), DuplicateRatio)
    /\ UNCHANGED <<case, takes, visual, fusion, advanced, result, failures>>

StoreSignals ==
    /\ advanced' = SupportingSignals(case.stream.wifi, security, DuplicateRatio, Stored(fusion))
    /\ UNCHANGED <<case, takes, visual, fusion, security, result, failures>>

(***************************************************************************)
(* calculate_verification().                                               *)
(***************************************************************************)
Engine == IF Known(security) /\ Known(advanced) THEN Security ELSE Legacy
Upstream == InProgress # {} \/ \E i \in DOMAIN takes : Known(fusion[i]) /\ fusion[i].stage = "PENDING"
RequiredNotReady(signals) == {s \in Policy.required : ~signals[s].available}

Gated(base, engine) == IF engine = Legacy THEN base ELSE Constrained(base, GateRules(security))
Decision(signals, engine) ==
    [status |-> "COMPLETED", score |-> RawScoreOf(signals),
     base |-> Resolved(signals), verdict |-> Gated(Resolved(signals), engine),
     rules |-> {r.code : r \in HardRules(signals)}]

Wait ==
    /\ result[Engine] = NoResult
    /\ Upstream \/ RequiredNotReady(Evidence) # {}
    /\ result' = [result EXCEPT ![Engine] = Waiting]
    /\ UNCHANGED <<case, takes, visual, fusion, security, advanced, failures>>

Decide ==
    /\ result[Engine].status # "COMPLETED"
    /\ ~Upstream
    /\ LET signals == Evidence IN
        /\ RequiredNotReady(signals) = {}
        /\ result' = [result EXCEPT ![Engine] = Decision(signals, Engine)]
    /\ UNCHANGED <<case, takes, visual, fusion, security, advanced, failures>>

Next ==
    \/ BeginVisual \/ AnalyseTake \/ FailVisual
    \/ FuseTooEarly \/ Fuse \/ FailFusion
    \/ Assess \/ StoreSignals
    \/ Wait \/ Decide

Spec == Init /\ [][Next]_vars

-----------------------------------------------------------------------------
Row(risk) == risk.level \in RiskLevel /\ risk.score \in Score /\ risk.confidence \in Score
Completed(e) == result[e].status = "COMPLETED"

(* Scores and confidences stay between 0 and 1 through every formula, as   *)
(* VerificationSignal.__post_init__ and the columns require.               *)
TypeOK ==
    /\ \A i \in DOMAIN takes :
        /\ takes[i].outcome.score \in Score /\ takes[i].outcome.sensorScore \in Score
        /\ Known(visual[i]) =>
            /\ visual[i].status \in VisualStatus
            /\ visual[i].confidence \in Score /\ visual[i].continuity \in Score /\ visual[i].duplicate \in Score
        /\ Known(fusion[i]) =>
            /\ fusion[i].status \in ConsistencyStatus
            /\ Known(fusion[i].effective) => fusion[i].effective \in Score
            /\ fusion[i].confidence \in Score
    /\ Known(security) =>
        /\ Row(security.location) /\ Row(security.sensor) /\ Row(security.replay)
        /\ security.overall \in RiskLevel /\ security.confidence \in Score
        /\ security.device.score \in Score /\ security.device.confidence \in Score
    /\ Known(advanced) => advanced.score \in Score /\ advanced.confidence \in Score
    /\ \A e \in Engines : Completed(e) => result[e].verdict \in Verdicts /\ result[e].score \in Score
    /\ LET signals == Evidence IN \A s \in SignalType :
        /\ signals[s].status \in SignalStatus
        /\ signals[s].score \in Score /\ signals[s].confidence \in Score

(* However a policy weighs the signals, its required signals and its hard  *)
(* rules stand between the evidence and VERIFIED: nobody off the site, with*)
(* a fix that says nothing or with two challenges clearly failed is        *)
(* verified (hard_rules in policy.py, resolve_verdict).                    *)
Obeyed ==
    /\ "LOCATION" \in Policy.required =>
        Known(capture.location) /\ ~UnusableAccuracy(capture.location)
    /\ "CLEAR_WRONG_LOCATION" \in Policy.rules /\ Known(capture.location) =>
        UnusableAccuracy(capture.location) \/ ~ClearlyOutside(capture.location)
    /\ "MULTIPLE_HIGH_CONFIDENCE_CHALLENGE_FAILURES" \in Policy.rules =>
        Count(takes, StronglyFailed) < 2
VerifiedObeysThePolicy ==
    \A e \in Engines : Completed(e) /\ result[e].verdict = "VERIFIED" => Obeyed

(* An automatic VERIFIED is earned: the policy is obeyed, no challenge      *)
(* failed and at most one is undecided, and the video of at least one take *)
(* shows the camera's motion - whichever optional signals were missing, in *)
(* whichever order the analyses ran, failed and ran again, and however the *)
(* weights were renormalised without them.                                 *)
VerifiedIsEarned ==
    /\ VerifiedObeysThePolicy
    /\ \A e \in Engines : Completed(e) /\ result[e].verdict = "VERIFIED" =>
        /\ \A i \in DOMAIN takes : ~FailedTake(takes[i])
        /\ Count(takes, UndecidedTake) <= 1
        /\ \E i \in DOMAIN takes : VideoRow(takes[i], takes[i].outcome).status = "SUCCESS"
(* What it asks of a policy, and the default one gives: the motion of the   *)
(* camera is required, and the challenges weigh more than a score that     *)
(* verifies may lack for each of them.                                     *)
PolicyAsksMotion == "VISUAL_MOTION" \in Policy.required
ChallengesWeigh ==
    \A c \in Cases : Len(c.capture.takes) * (100 - Policy.verified) < Policy.weights["CHALLENGE_COMPLETION"]

(* Whatever the score: a video that another session holds too, a fix that  *)
(* Android marked as mocked or a device that its provider refuted is       *)
(* FLAGGED by the security engine (security_gate.py:51-52).                *)
DeterministicFact(stream) ==
    \/ "VIDEO" \in stream.reused
    \/ Mocked(Usable(stream.fixes))
    \/ Refuted(stream.attestation)
DeterministicFactsFlag ==
    Completed(Security) /\ DeterministicFact(case.stream) => result[Security].verdict = "FLAGGED"

(* Heuristic risks only cap: without such a fact the gate takes a verdict  *)
(* as it is, or VERIFIED down to REVIEW_REQUIRED (security_gate.py:52-54). *)
HeuristicsOnlyCap ==
    \A e \in Engines : Completed(e) /\ ~DeterministicFact(case.stream) =>
        \/ result[e].verdict = result[e].base
        \/ result[e].base = "VERIFIED" /\ result[e].verdict = "REVIEW_REQUIRED"

(* No weaker evidence would have made a capture VERIFIED that was not: a   *)
(* challenge judged worse, the fix farther away, a video not understood.   *)
(* What is compared differs from what was decided on in that alone.        *)
Worse == [PASS |-> {"INCONCLUSIVE", "FAIL"}, INCONCLUSIVE |-> {"FAIL"}, FAIL |-> {}]
JudgedWorse(c, i) == {[c EXCEPT !.takes[i].outcome.result = r] : r \in Worse[c.takes[i].outcome.result]}
FartherAway(c) == IF Known(c.location) THEN {[c EXCEPT !.location.distance = @ + d] : d \in {20, 80}} ELSE {}
Weaker(c) == FartherAway(c) \cup UNION {JudgedWorse(c, i) : i \in DOMAIN c.takes}
WeakerRows(rows) == {[rows EXCEPT ![i].status = "INCONCLUSIVE"] : i \in DOMAIN rows}
WeakerVerdicts ==
    {Resolved(SignalsOf(c, Stored(visual), Stored(fusion))) : c \in Weaker(capture)}
    \cup {Resolved(SignalsOf(capture, rows, Stored(fusion))) : rows \in WeakerRows(Stored(visual))}
WeakerEvidenceNeverVerifies ==
    [][\A e \in Engines : ~Completed(e) /\ Completed(e)' /\ result'[e].base # "VERIFIED" =>
            "VERIFIED" \notin WeakerVerdicts]_vars

(* When the camera saw every take move the way the phone did, what is left *)
(* - size, timing, low quality - never accuses: no fusion hard rule, and   *)
(* no replay that is called a motion mismatch                              *)
(* (advanced_security_service.py:90-95). A tilt of the phone's top edge    *)
(* is the opposite tilt of the camera's axis (normalizer.py:39-42).        *)
FilmedAsMoved(t) ==
    LET moved == SensorDirection(t)
        filmed == VideoRow(t, t.outcome).direction
    IN  moved # "NONE" /\ filmed = IF t.kind \in Tilts THEN OppositeDirection[moved] ELSE moved
MotionAccused ==
    \/ \E e \in Engines : Completed(e) /\ "HIGH_CONFIDENCE_FUSION_MISMATCH" \in result[e].rules
    \/ Known(security) /\ security.replay.mismatch >= Pct(65)
SameDirectionNotAccused ==
    MotionAccused => \E i \in DOMAIN takes : ~FilmedAsMoved(takes[i])

(* A high replay risk caps VERIFIED (security_gate.py:52), in the decision *)
(* that is made while the row says so.                                     *)
ReplayCaps ==
    [][~Completed(Security) /\ Completed(Security)' /\ HighReplay(security.replay) =>
            result'[Security].verdict # "VERIFIED"]_vars
=============================================================================
