------------------------------ MODULE Scoring ------------------------------
(***************************************************************************)
(* From signals to a verdict: the policy, the weighted score, the hard     *)
(* rules and the security gate (services/verification/policy.py,           *)
(* scoring.py and security_gate.py).                                       *)
(***************************************************************************)
EXTENDS Signals

CONSTANT Policy  \* the organisation's row of verification_policies

Verdicts == {"VERIFIED", "REVIEW_REQUIRED", "FLAGGED", "INCONCLUSIVE"}

DefaultPolicy ==
    [verified |-> 90, review |-> 65, minimum |-> Pct(70),
     weights |-> [LOCATION |-> 20, SESSION_TIME |-> 3, CHALLENGE_COMPLETION |-> 45, SENSOR_QUALITY |-> 1,
                  VISUAL_MOTION |-> 20, SCENE_CONTINUITY |-> 10, VISUAL_INERTIAL_CONSISTENCY |-> 1],
     required |-> {"LOCATION", "CHALLENGE_COMPLETION", "VISUAL_MOTION"},
     rules |-> {"HIGH_CONFIDENCE_FUSION_MISMATCH", "CLEAR_WRONG_LOCATION",
                "MULTIPLE_HIGH_CONFIDENCE_CHALLENGE_FAILURES", "MAJOR_SCENE_DISCONTINUITY"}]

(* What validate_policy() accepts. *)
ASSUME PolicyAssumption ==
    /\ Policy.review \in 0..100 /\ Policy.verified \in 0..100
    /\ Policy.review < Policy.verified
    /\ Policy.minimum \in Score
    /\ Policy.weights \in [SignalType -> 0..100]
    /\ SumFunction(Policy.weights) = 100
    /\ Policy.required \subseteq SignalType

(***************************************************************************)
(* The score is the weighted mean of the signals there are; 'worth' is     *)
(* that mean times their weight, which is never divided here.              *)
(***************************************************************************)
Available(signals) == {s \in SignalType : signals[s].available}
AvailableWeight(signals) == SumFunctionOnSet(Policy.weights, Available(signals))
Weighted(signals, Field(_)) ==
    SumFunctionOnSet([s \in SignalType |-> Policy.weights[s] * Field(signals[s])], Available(signals))
Worth(signals) == Weighted(signals, LAMBDA s : s.score)
Reaches(signals, threshold) ==
    /\ AvailableWeight(signals) > 0 \/ threshold = 0
    /\ Worth(signals) * 100 >= threshold * AvailableWeight(signals) * One
OverallConfidence(signals) ==
    IF AvailableWeight(signals) = 0 THEN 0
    ELSE Weighted(signals, LAMBDA s : s.confidence) \div AvailableWeight(signals)
RawScoreOf(signals) ==
    IF AvailableWeight(signals) = 0 THEN 0 ELSE Worth(signals) \div AvailableWeight(signals)

(***************************************************************************)
(* Hard rules, as pairs of a code and the best verdict it leaves.          *)
(***************************************************************************)
Rule(code, maximum) == [code |-> code, maximum |-> maximum]
RuleIf(condition, code, maximum) == IF condition THEN {Rule(code, maximum)} ELSE {}

SomeContradiction(s) == s.metrics.mismatchReasons \cap StrongContradictions # {}
StrongFusionMismatch(s) ==
    /\ s.status = "FAIL" /\ s.confidence >= Pct(80)
    /\ s.metrics.consistencyStatus = "MISMATCH"
    /\ SomeContradiction(s)
ClearWrongLocation(s) == s.status = "FAIL" /\ s.confidence >= Pct(80) /\ s.metrics.clearlyOutside
MultipleChallengeFailures(s) == s.available /\ s.metrics.highConfidenceFailures >= 2
MajorSceneDiscontinuity(s) == s.status = "FAIL" /\ s.confidence >= Pct(80) /\ s.metrics.majorDiscontinuity

HardRules(signals) ==
    {r \in UNION {
        RuleIf(StrongFusionMismatch(signals["VISUAL_INERTIAL_CONSISTENCY"]),
               "HIGH_CONFIDENCE_FUSION_MISMATCH", "FLAGGED"),
        RuleIf(ClearWrongLocation(signals["LOCATION"]), "CLEAR_WRONG_LOCATION", "FLAGGED"),
        RuleIf(MultipleChallengeFailures(signals["CHALLENGE_COMPLETION"]),
               "MULTIPLE_HIGH_CONFIDENCE_CHALLENGE_FAILURES", "FLAGGED"),
        RuleIf(MajorSceneDiscontinuity(signals["SCENE_CONTINUITY"]),
               "MAJOR_SCENE_DISCONTINUITY", "REVIEW_REQUIRED")} : r.code \in Policy.rules}

MissingRequired(signals) ==
    {s \in Policy.required : signals[s].status \in {"UNAVAILABLE", "INCONCLUSIVE"}}

(***************************************************************************)
(* The decision, and the constraint that a set of rules puts on a verdict. *)
(***************************************************************************)
Flags(rules) == \E r \in rules : r.maximum = "FLAGGED"
Constrained(verdict, rules) ==
    IF Flags(rules) THEN "FLAGGED"
    ELSE IF rules # {} /\ verdict = "VERIFIED" THEN "REVIEW_REQUIRED" ELSE verdict
BaseVerdict(signals) ==
    IF Reaches(signals, Policy.verified)
    THEN IF OverallConfidence(signals) < Policy.minimum THEN "REVIEW_REQUIRED" ELSE "VERIFIED"
    ELSE IF Reaches(signals, Policy.review) THEN "REVIEW_REQUIRED" ELSE "FLAGGED"
Resolved(signals) ==
    IF MissingRequired(signals) # {} THEN "INCONCLUSIVE"
    ELSE Constrained(BaseVerdict(signals), HardRules(signals))

(***************************************************************************)
(* The security gate. The replay row is looked up as "replay-risk-v1",     *)
(* while the analysis stores it under its own version, "replay-risk-v1.1". *)
(***************************************************************************)
ReplayRiskVersion == "replay-risk-v1.1"
ReplayRowFor(security, version) == IF version = ReplayRiskVersion THEN security.replay ELSE NoMeasure
HighReplay(replay) ==
    Known(replay) /\ replay.level = "HIGH" /\ replay.score >= Pct(90) /\ replay.confidence >= Pct(90)

ReuseRulesOnlyWhole(s) ==
    RuleIf("EXACT_EVIDENCE_REUSE" \in s.codes \/ s.reuse >= Pct(99), "SECURITY_EXACT_EVIDENCE_REUSE", "FLAGGED")
ReuseRules(s) ==
    IF "EXACT_EVIDENCE_REUSE" \in s.codes \/ s.reuse >= Pct(99)
    THEN {Rule("SECURITY_EXACT_EVIDENCE_REUSE", "FLAGGED")}
    ELSE RuleIf("EXACT_VIDEO_REUSE" \in s.codes /\ s.reuse >= Pct(80), "SECURITY_EXACT_VIDEO_REUSE", "FLAGGED")
LocationRulesFlagging(l) ==
    RuleIf(l.level = "HIGH" /\ l.confidence >= Pct(90), "SECURITY_HIGH_LOCATION_RISK", "FLAGGED")
LocationRules(l) ==
    IF l.mock /\ l.confidence >= Pct(95) THEN {Rule("SECURITY_MOCK_LOCATION_DETECTED", "FLAGGED")}
    ELSE RuleIf(l.level = "HIGH" /\ l.confidence >= Pct(90), "SECURITY_HIGH_LOCATION_RISK", "REVIEW_REQUIRED")
IntegrityRules(s) ==
    RuleIf("PROVIDER_DEVICE_INTEGRITY_FAILED" \in s.codes /\ s.device.status = "FAIL" /\ s.device.score >= Pct(95),
           "SECURITY_PROVIDER_INTEGRITY_FAILED", "FLAGGED")
ReplayRules(s) ==
    RuleIf(HighReplay(ReplayRowFor(s, "replay-risk-v1")), "SECURITY_HIGH_REPLAY_RISK", "REVIEW_REQUIRED")
CompositeRules(s, others) ==
    RuleIf(/\ s.overall = "HIGH" /\ s.confidence >= Pct(90)
           /\ ~Flags(others)
           /\ {r.code : r \in others} \cap {"SECURITY_HIGH_REPLAY_RISK", "SECURITY_HIGH_LOCATION_RISK"} = {},
           "SECURITY_HIGH_COMPOSITE_RISK", "REVIEW_REQUIRED")
GateRules(s) ==
    LET single == UNION {ReuseRules(s), LocationRules(s.location), IntegrityRules(s), ReplayRules(s)}
    IN  single \cup CompositeRules(s, single)
=============================================================================
