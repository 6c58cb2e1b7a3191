--------------------------- MODULE VerdictProofs ---------------------------
(***************************************************************************)
(* What the security gate may do to a verdict, for every policy, every     *)
(* evidence and every order of the analyses.                               *)
(***************************************************************************)
EXTENDS ScoreProofs

(* What the gate's flagging rules ask of a security row.                   *)
NothingFlags(s) ==
    /\ s.location.mock = FALSE
    /\ "EXACT_EVIDENCE_REUSE" \notin s.codes /\ "EXACT_VIDEO_REUSE" \notin s.codes
    /\ ~(s.reuse >= Pct(99))
    /\ "PROVIDER_DEVICE_INTEGRITY_FAILED" \notin s.codes

(* A security row that found a fact was written from evidence with one.    *)
RowSpeaksOfEvidence == Known(security) => DeterministicFact(case.stream) \/ NothingFlags(security)

(* A row written from evidence with a fact makes the gate flag.            *)
FactsReachTheGate == Known(security) /\ DeterministicFact(case.stream) => Flags(GateRules(security))

(* The row is written again by every later analysis of the same evidence,  *)
(* and says the same of it each time: so a decision, made once on the row  *)
(* that there was, is what the two properties say.                         *)
IInv ==
    /\ result = [e \in Engines |-> result[e]]
    /\ case \in Cases
    /\ RowSpeaksOfEvidence
    /\ FactsReachTheGate
    /\ DeterministicFactsFlag
    /\ HeuristicsOnlyCap

-----------------------------------------------------------------------------
(* What the cases are, component by component.                             *)
LEMMA CaseFacts ==
    ASSUME NEW c \in Cases
    PROVE  /\ c.capture.location \in Maybe(LocationOf)
           /\ c.capture.takes \in Seq(TakeInput)
           /\ StreamType(c.stream) /\ c.stream.reused \subseteq {"VIDEO", "SENSOR_DATA"}
           /\ Known(c.stream.wifi) =>
                Len(c.stream.wifi) \in Nat /\ \A i \in 1 .. Len(c.stream.wifi) : WifiInput(c.stream.wifi[i])
<1>1. /\ c.capture \in CaptureInput
      /\ c.stream \in StreamInput(c.stream.attestation, c.stream.wifi)
      /\ Known(c.stream.wifi) =>
            Len(c.stream.wifi) \in Nat /\ \A i \in 1 .. Len(c.stream.wifi) : WifiInput(c.stream.wifi[i])
  BY CasesAssumption
<1>2. c.capture.location \in Maybe(LocationOf) /\ c.capture.takes \in Seq(TakeInput)
  BY <1>1 DEF CaptureInput, LocationOf
<1>3. /\ c.stream.fixes \in Seq(LocationFix) /\ c.stream.sensors \in SensorCounts
      /\ c.stream.frames \in FrameScores /\ c.stream.replacedDuplicate \in Score
      /\ c.stream.reused \in SUBSET {"VIDEO", "SENSOR_DATA"}
  BY <1>1 DEF StreamInput
<1>4. QED
  BY <1>1, <1>2, <1>3 DEF StreamType

(* The codes of the location and device analyses are their own.            *)
LEMMA LocationFacts ==
    ASSUME NEW fixes, NEW still, ~Mocked(Usable(fixes))
    PROVE  /\ LocationRisk(fixes, still).mock = FALSE
           /\ LocationRisk(fixes, still).codes \cap
                {"EXACT_EVIDENCE_REUSE", "EXACT_VIDEO_REUSE", "PROVIDER_DEVICE_INTEGRITY_FAILED"} = {}
<1> DEFINE foreign == {"EXACT_EVIDENCE_REUSE", "EXACT_VIDEO_REUSE", "PROVIDER_DEVICE_INTEGRITY_FAILED"}
<1> DEFINE found == LocationIndicators(Usable(fixes), still)
<1>1. Codes(found) \cap foreign = {}
  BY DEF Codes, LocationIndicators, When, Indicator
<1>2. CASE Usable(fixes) = <<>>
  BY <1>2 DEF LocationRisk, NoLocation
<1>3. CASE Usable(fixes) # <<>>
  BY <1>1, <1>3 DEF LocationRisk
<1>4. QED
  BY <1>2, <1>3

LEMMA DeviceFacts ==
    ASSUME NEW d, NEW a, ~Refuted(a)
    PROVE  DeviceRisk(d, a).codes \cap
                {"EXACT_EVIDENCE_REUSE", "EXACT_VIDEO_REUSE", "PROVIDER_DEVICE_INTEGRITY_FAILED"} = {}
<1>1. Codes(DeviceIndicators(d)) \cap
          {"EXACT_EVIDENCE_REUSE", "EXACT_VIDEO_REUSE", "PROVIDER_DEVICE_INTEGRITY_FAILED"} = {}
  BY DEF Codes, DeviceIndicators, When, Indicator
<1>2. QED
  BY <1>1 DEF DeviceRisk

LEMMA ReuseFacts ==
    ASSUME NEW kinds, "VIDEO" \notin kinds
    PROVE  /\ Reuse(kinds).code \in {"EXACT_SENSOR_REUSE", "NONE"}
           /\ ~(Reuse(kinds).score >= Pct(99))
BY DEF Reuse, Pct

(* Evidence without a deterministic fact gives a row that flags nothing.   *)
LEMMA AssessedFacts ==
    ASSUME NEW stream, NEW rows, NEW duplicate, ~DeterministicFact(stream)
    PROVE  NothingFlags(Assessed(stream, rows, duplicate))
<1> DEFINE row == Assessed(stream, rows, duplicate)
<1>1. /\ row.location = LocationRisk(stream.fixes, stream.still)
      /\ row.reuse = Reuse(stream.reused).score
      /\ row.codes = LocationRisk(stream.fixes, stream.still).codes
                     \cup DeviceRisk(stream.device, stream.attestation).codes
                     \cup {Reuse(stream.reused).code}
  BY DEF Assessed
<1>2. "VIDEO" \notin stream.reused /\ ~Mocked(Usable(stream.fixes)) /\ ~Refuted(stream.attestation)
  BY DEF DeterministicFact
<1> HIDE DEF row
<1>3. NothingFlags(row)
  <2>1. row.location.mock = FALSE /\ ~(row.reuse >= Pct(99))
    <3>1. LocationRisk(stream.fixes, stream.still).mock = FALSE
      BY <1>2, LocationFacts
    <3>2. ~(Reuse(stream.reused).score >= Pct(99))
      BY <1>2, ReuseFacts
    <3> QED
      BY <1>1, <3>1, <3>2
  <2>2. row.codes \cap {"EXACT_EVIDENCE_REUSE", "EXACT_VIDEO_REUSE",
                        "PROVIDER_DEVICE_INTEGRITY_FAILED"} = {}
    BY <1>1, <1>2, LocationFacts, DeviceFacts, ReuseFacts
  <2> QED
    BY <2>1, <2>2 DEF NothingFlags
<1>4. QED
  BY <1>3 DEF row

(* A row that flags nothing leaves no rule that flags.                     *)
LEMMA GateOnlyCaps ==
    ASSUME NEW s, NothingFlags(s)
    PROVE  ~Flags(GateRules(s))
<1>1. ~Flags(ReuseRules(s))
  BY DEF NothingFlags, Flags, ReuseRules, RuleIf, Rule
<1>2. ~Flags(LocationRules(s.location))
  BY DEF NothingFlags, Flags, LocationRules, RuleIf, Rule
<1>3. ~Flags(IntegrityRules(s))
  BY DEF NothingFlags, Flags, IntegrityRules, RuleIf, Rule
<1>4. ~Flags(ReplayRules(s))
  BY DEF Flags, ReplayRules, RuleIf, Rule
<1>5. \A others : ~Flags(CompositeRules(s, others))
  BY DEF Flags, CompositeRules, RuleIf, Rule
<1>6. QED
  BY <1>1, <1>2, <1>3, <1>4, <1>5 DEF Flags, GateRules

(* What an analysis of several indicators reports as its worst or surest.  *)
LEMMA MaxIs ==
    ASSUME NEW S \in SUBSET Int, NEW m \in S, \A y \in S : m >= y
    PROVE  Max(S) = m
<1>1. \E x \in S : \A y \in S : x >= y
  OBVIOUS
<1>2. Max(S) \in S /\ \A y \in S : Max(S) >= y
  BY <1>1 DEF Max
<1> DEFINE top == Max(S)
<1>3. /\ top \in Int /\ m \in Int
      /\ top >= m /\ m >= top
  BY <1>2
<1> HIDE DEF top
<1>4. top = m
  BY <1>3
<1>5. QED
  BY <1>4 DEF top

(* A mocked fix makes the location's risk certain enough for its rule.     *)
LEMMA MockFlags ==
    ASSUME NEW fixes, NEW still, Mocked(Usable(fixes))
    PROVE  Flags(LocationRules(LocationRisk(fixes, still)))
<1> DEFINE s == Usable(fixes)
<1> DEFINE found == LocationIndicators(s, still)
<1> DEFINE S == {Pct(65)} \cup {i.confidence : i \in found}
<1>1. Flagged(s) # {} /\ s # <<>>
  BY DEF Mocked, Flagged
<1>2. S \subseteq {Pct(98), Pct(90), Pct(78), Pct(72), Pct(65), 0}
  BY DEF LocationIndicators, When, Indicator
<1>3. Indicator("MOCK_LOCATION_DETECTED", One, Pct(98)) \in found
  BY DEF LocationIndicators, When
<1>4. Pct(98) \in S
  BY <1>3 DEF Indicator
<1>5. Max(S) = Pct(98)
  <2>1. S \in SUBSET Int /\ \A y \in S : Pct(98) >= y
    BY <1>2 DEF Pct
  <2>2. QED
    BY <1>4, <2>1, MaxIs
<1>6. Surest(found, Pct(65)) = Pct(98)
  BY <1>5 DEF Surest
<1> HIDE DEF found, S
<1>7. /\ LocationRisk(fixes, still).mock
      /\ LocationRisk(fixes, still).confidence = Pct(98)
  BY <1>1, <1>6 DEF LocationRisk, found
<1>8. Pct(98) >= Pct(95)
  BY DEF Pct
<1>9. QED
  BY <1>7, <1>8 DEF LocationRules, Flags, Rule

(* A refuted device scores at least what its rule asks.                    *)
LEMMA RefutedFlags ==
    ASSUME NEW d, NEW a, Refuted(a)
    PROVE  /\ DeviceRisk(d, a).status = "FAIL"
           /\ "PROVIDER_DEVICE_INTEGRITY_FAILED" \in DeviceRisk(d, a).codes
           /\ DeviceRisk(d, a).score >= Pct(95)
<1> DEFINE S == {0} \cup {i.score : i \in DeviceIndicators(d)}
<1>1. S \subseteq {Pct(92), Pct(72), Pct(55), Pct(35), 0}
  BY DEF DeviceIndicators, When, Indicator
<1>2. S \in SUBSET Int /\ 0 \in S
  BY <1>1 DEF Pct
<1>3. Max(S) \in Int
  <2>1. PICK m \in S : \A y \in S : m >= y
    BY <1>1, <1>2 DEF Pct
  <2>2. QED
    BY <1>2, <2>1, MaxIs
<1>4. Worst(DeviceIndicators(d), 0) \in Int
  BY <1>3 DEF Worst
<1>5. ~Attested(a, "PASS")
  BY DEF Attested, Refuted
<1>6. DeviceRisk(d, a).score = AtLeast(Worst(DeviceIndicators(d), 0), Pct(98))
  BY <1>5 DEF DeviceRisk
<1>7. AtLeast(Worst(DeviceIndicators(d), 0), Pct(98)) >= Pct(95)
  BY <1>4 DEF AtLeast, Pct
<1>8. QED
  BY <1>5, <1>6, <1>7 DEF DeviceRisk

(* Evidence with a deterministic fact gives a row that the gate flags.     *)
LEMMA AssessedFlags ==
    ASSUME NEW stream, NEW rows, NEW duplicate, DeterministicFact(stream),
           stream.reused \subseteq {"VIDEO", "SENSOR_DATA"}
    PROVE  Flags(GateRules(Assessed(stream, rows, duplicate)))
<1> DEFINE row == Assessed(stream, rows, duplicate)
<1>1. /\ row.location = LocationRisk(stream.fixes, stream.still)
      /\ row.device = DeviceRisk(stream.device, stream.attestation)
      /\ row.reuse = Reuse(stream.reused).score
      /\ row.codes = LocationRisk(stream.fixes, stream.still).codes
                     \cup DeviceRisk(stream.device, stream.attestation).codes
                     \cup {Reuse(stream.reused).code}
  BY DEF Assessed
<1> HIDE DEF row
<1>2. ASSUME "VIDEO" \in stream.reused PROVE Flags(GateRules(row))
  <2>1. stream.reused = {"VIDEO"} \/ stream.reused = {"VIDEO", "SENSOR_DATA"}
    BY <1>2
  <2>2. \/ Reuse(stream.reused).code = "EXACT_EVIDENCE_REUSE"
        \/ Reuse(stream.reused).code = "EXACT_VIDEO_REUSE" /\ Reuse(stream.reused).score = Pct(82)
    BY <2>1 DEF Reuse
  <2>3. \/ "EXACT_EVIDENCE_REUSE" \in row.codes
        \/ "EXACT_VIDEO_REUSE" \in row.codes /\ row.reuse >= Pct(80)
    BY <1>1, <2>2 DEF Pct
  <2>4. Flags(ReuseRules(row))
    BY <2>3 DEF ReuseRules, RuleIf, Rule, Flags
  <2>5. QED
    BY <2>4 DEF Flags, GateRules
<1>3. ASSUME Mocked(Usable(stream.fixes)) PROVE Flags(GateRules(row))
  <2>1. Flags(LocationRules(row.location))
    BY <1>1, <1>3, MockFlags
  <2>2. QED
    BY <2>1 DEF Flags, GateRules
<1>4. ASSUME Refuted(stream.attestation) PROVE Flags(GateRules(row))
  <2>1. /\ "PROVIDER_DEVICE_INTEGRITY_FAILED" \in row.codes
        /\ row.device.status = "FAIL"
        /\ row.device.score >= Pct(95)
    BY <1>1, <1>4, RefutedFlags
  <2>2. Flags(IntegrityRules(row))
    BY <2>1 DEF IntegrityRules, RuleIf, Rule, Flags
  <2>3. QED
    BY <2>2 DEF Flags, GateRules
<1>5. Flags(GateRules(row))
  BY <1>2, <1>3, <1>4 DEF DeterministicFact
<1>6. QED
  BY <1>5 DEF row

LEMMA InitInvariant == Init => IInv
BY DEF Init, IInv, RowSpeaksOfEvidence, FactsReachTheGate, DeterministicFactsFlag, HeuristicsOnlyCap,
       Completed, NoResult, Known, Engines, Security

(* What the gate makes of a verdict, under a row of this evidence.         *)
LEMMA GateSpeaks ==
    ASSUME RowSpeaksOfEvidence, FactsReachTheGate, NEW base, NEW e \in Engines,
           e = Security => Known(security)
    PROVE  /\ e = Security /\ DeterministicFact(case.stream) => Gated(base, e) = "FLAGGED"
           /\ ~DeterministicFact(case.stream) =>
                \/ Gated(base, e) = base
                \/ base = "VERIFIED" /\ Gated(base, e) = "REVIEW_REQUIRED"
<1>1. CASE e = Legacy
  BY <1>1 DEF Gated, Legacy, Security
<1>2. CASE e = Security
  <2>1. Gated(base, e) = Constrained(base, GateRules(security))
    BY <1>2 DEF Gated, Legacy, Security
  <2>2. DeterministicFact(case.stream) => Flags(GateRules(security))
    BY <1>2 DEF FactsReachTheGate
  <2>3. ~DeterministicFact(case.stream) => ~Flags(GateRules(security))
    BY <1>2, GateOnlyCaps DEF RowSpeaksOfEvidence
  <2>4. QED
    BY <2>1, <2>2, <2>3 DEF Constrained
<1>3. QED
  BY <1>1, <1>2 DEF Engines

-----------------------------------------------------------------------------
(* Steps that write neither the security row nor a result.                 *)
LEMMA OtherSteps ==
    ASSUME IInv, UNCHANGED <<case, security, result>>
    PROVE  IInv'
BY DEF IInv, RowSpeaksOfEvidence, FactsReachTheGate, DeterministicFactsFlag, HeuristicsOnlyCap, Completed

LEMMA AssessStep ==
    ASSUME IInv, Assess
    PROVE  IInv'
<1>1. /\ security' = Assessed(case.stream, Stored(fusion), DuplicateRatio)
      /\ UNCHANGED <<case, result>>
  BY DEF Assess
<1>2. RowSpeaksOfEvidence'
  BY <1>1, AssessedFacts DEF RowSpeaksOfEvidence
<1>3. FactsReachTheGate'
  BY <1>1, AssessedFlags, CaseFacts DEF IInv, FactsReachTheGate
<1>4. DeterministicFactsFlag' /\ HeuristicsOnlyCap'
  BY <1>1 DEF IInv, DeterministicFactsFlag, HeuristicsOnlyCap, Completed
<1>5. QED
  BY <1>1, <1>2, <1>3, <1>4 DEF IInv

LEMMA WaitStep ==
    ASSUME IInv, Wait
    PROVE  IInv'
<1>1. UNCHANGED <<case, security>> /\ result' = [result EXCEPT ![Engine] = Waiting]
  BY DEF Wait
<1>2. \A e \in Engines : Completed(e)' => Completed(e) /\ result'[e] = result[e]
  BY <1>1 DEF IInv, Completed, Waiting
<1>3. DeterministicFactsFlag' /\ HeuristicsOnlyCap'
  BY <1>1, <1>2 DEF IInv, DeterministicFactsFlag, HeuristicsOnlyCap, Engines
<1>4. QED
  BY <1>1, <1>3 DEF IInv, RowSpeaksOfEvidence, FactsReachTheGate

LEMMA DecideStep ==
    ASSUME IInv, Decide
    PROVE  IInv'
<1> DEFINE made == Decision(Evidence, Engine)
<1>1. UNCHANGED <<case, security>> /\ result' = [result EXCEPT ![Engine] = made]
  BY DEF Decide
<1>2. Engine \in Engines /\ (Engine = Security => Known(security))
  BY DEF Engine, Engines, Legacy, Security
<1>3. made.verdict = Gated(made.base, Engine)
  BY DEF Decision
<1> HIDE DEF made
<1>4. \A e \in Engines : result'[e] = IF e = Engine THEN made ELSE result[e]
  BY <1>1 DEF IInv
<1>5. /\ Engine = Security /\ DeterministicFact(case.stream) => made.verdict = "FLAGGED"
      /\ ~DeterministicFact(case.stream) =>
            \/ made.verdict = made.base
            \/ made.base = "VERIFIED" /\ made.verdict = "REVIEW_REQUIRED"
  BY <1>2, <1>3, GateSpeaks DEF IInv
<1>6. DeterministicFactsFlag'
  BY <1>1, <1>4, <1>5 DEF IInv, DeterministicFactsFlag, Completed, Engines
<1>7. HeuristicsOnlyCap'
  BY <1>1, <1>4, <1>5 DEF IInv, HeuristicsOnlyCap, Completed
<1>8. QED
  BY <1>1, <1>6, <1>7 DEF IInv, RowSpeaksOfEvidence, FactsReachTheGate

LEMMA NextInvariant == IInv /\ [Next]_vars => IInv'
<1> SUFFICES ASSUME IInv, [Next]_vars
             PROVE  IInv'
  OBVIOUS
<1>1. CASE UNCHANGED vars
  BY <1>1, OtherSteps DEF vars
<1>2. CASE BeginVisual \/ AnalyseTake \/ FailVisual
  BY <1>2, OtherSteps DEF BeginVisual, AnalyseTake, FailVisual
<1>3. CASE FuseTooEarly \/ Fuse \/ FailFusion
  BY <1>3, OtherSteps DEF FuseTooEarly, Fuse, FailFusion
<1>4. CASE Assess
  BY <1>4, AssessStep
<1>5. CASE StoreSignals
  BY <1>5, OtherSteps DEF StoreSignals
<1>6. CASE Wait
  BY <1>6, WaitStep
<1>7. CASE Decide
  BY <1>7, DecideStep
<1>8. QED
  BY <1>1, <1>2, <1>3, <1>4, <1>5, <1>6, <1>7 DEF Next

(* Heuristic risks never do more than take VERIFIED down to                *)
(* REVIEW_REQUIRED (security_gate.py:52-54, apply_security_gate).          *)
THEOREM OnlyFactsFlag == Spec => []HeuristicsOnlyCap
<1>1. QED
  BY InitInvariant, NextInvariant, PTL DEF Spec, IInv

(* A reused video, a mocked fix or a refuted device is FLAGGED by the      *)
(* security engine, whatever else was found (security_gate.py:51-52).      *)
THEOREM FactsFlag == Spec => []DeterministicFactsFlag
<1>1. QED
  BY InitInvariant, NextInvariant, PTL DEF Spec, IInv

-----------------------------------------------------------------------------
(* What the policy asks for stands between the evidence and VERIFIED.      *)

(* A fix clearly outside the site is told with the confidence that the hard*)
(* rule wants, whatever its accuracy.                                      *)
LEMMA OutsideIsSure ==
    ASSUME NEW c, NEW l, c.location = l, Known(l), l.accuracy \in Nat, l.radius \in Nat \ {0},
           ~UnusableAccuracy(l), ClearlyOutside(l)
    PROVE  ClearWrongLocation(LocationSignal(c))
<1>1. LocationConfidence(l) \in Int
  <2>1. PICK w \in Nat \ {0} : w = AtLeast(2 * l.radius, 60)
    BY DEF AtLeast
  <2>2. PICK n \in Nat : n = l.accuracy * One
    BY DEF One
  <2>3. n \div w \in Int
    BY <2>1, <2>2
  <2>4. One - (l.accuracy * One) \div AtLeast(2 * l.radius, 60) \in Int
    BY <2>1, <2>2, <2>3 DEF One
  <2>5. \A x \in Int : AtLeast(Pct(15), Clamp(x)) \in Int
    BY DEF AtLeast, AtMost, Clamp, Pct, One
  <2>6. QED
    BY <2>4, <2>5 DEF LocationConfidence
<1>2. AtLeast(Pct(80), LocationConfidence(l)) >= Pct(80)
  BY <1>1 DEF AtLeast, Pct
<1>3. LocationSignal(c) =
        Signal("FAIL", 0, AtLeast(Pct(80), LocationConfidence(l)), [clearlyOutside |-> ClearlyOutside(l)])
  BY DEF LocationSignal
<1>4. QED
  BY <1>2, <1>3 DEF Signal, ClearWrongLocation

LEMMA RuleFlags ==
    ASSUME NEW signals, NEW code \in Policy.rules, Rule(code, "FLAGGED") \in HardRules(signals)
    PROVE  Resolved(signals) # "VERIFIED"
BY DEF Resolved, Constrained, Flags, Rule

LEMMA WrongPlaceFlags ==
    ASSUME NEW signals, "CLEAR_WRONG_LOCATION" \in Policy.rules, ClearWrongLocation(signals["LOCATION"])
    PROVE  Resolved(signals) # "VERIFIED"
<1>1. Rule("CLEAR_WRONG_LOCATION", "FLAGGED") \in HardRules(signals)
  BY DEF HardRules, RuleIf, Rule
<1>2. QED
  BY <1>1, RuleFlags

LEMMA FailuresFlag ==
    ASSUME NEW signals, "MULTIPLE_HIGH_CONFIDENCE_CHALLENGE_FAILURES" \in Policy.rules,
           MultipleChallengeFailures(signals["CHALLENGE_COMPLETION"])
    PROVE  Resolved(signals) # "VERIFIED"
<1>1. Rule("MULTIPLE_HIGH_CONFIDENCE_CHALLENGE_FAILURES", "FLAGGED") \in HardRules(signals)
  BY DEF HardRules, RuleIf, Rule
<1>2. QED
  BY <1>1, RuleFlags

(* A score that would verify does so only where the policy is obeyed.      *)
LEMMA ResolvedObeys ==
    ASSUME case \in Cases, NEW n \in Nat, DOMAIN takes = 1 .. n,
           Resolved(Evidence) = "VERIFIED"
    PROVE  Obeyed
<1> DEFINE l == case.capture.location
<1>1. capture.location = l /\ capture.takes = takes
  BY DEF capture
<1>2. MissingRequired(Evidence) = {}
  BY DEF Resolved
<1>3. /\ Evidence["LOCATION"] = LocationSignal(capture)
      /\ Evidence["CHALLENGE_COMPLETION"] = ChallengeSignal(capture)
  BY DEF Evidence, SignalsOf
<1>4. ASSUME "LOCATION" \in Policy.required
      PROVE  Known(l) /\ ~UnusableAccuracy(l)
  <2>1. LocationSignal(capture).status \notin {"UNAVAILABLE", "INCONCLUSIVE"}
    BY <1>2, <1>3, <1>4 DEF MissingRequired
  <2>2. QED
    BY <1>1, <2>1 DEF LocationSignal, Unavailable, Signal
<1>5. ASSUME "CLEAR_WRONG_LOCATION" \in Policy.rules, Known(l), ~UnusableAccuracy(l)
      PROVE  ~ClearlyOutside(l)
  <2>1. l.accuracy \in Nat /\ l.radius \in Nat \ {0}
    BY <1>5, CaseFacts DEF Maybe, Known, LocationOf
  <2>2. ~ClearWrongLocation(LocationSignal(capture))
    BY <1>3, <1>5, WrongPlaceFlags
  <2>3. QED
    BY <1>1, <1>5, <2>1, <2>2, OutsideIsSure
<1>6. ASSUME "MULTIPLE_HIGH_CONFIDENCE_CHALLENGE_FAILURES" \in Policy.rules
      PROVE  Count(takes, StronglyFailed) < 2
  <2>1. ~MultipleChallengeFailures(ChallengeSignal(capture))
    BY <1>3, <1>6, FailuresFlag
  <2> DEFINE failed == {i \in DOMAIN takes : StronglyFailed(takes[i])}
  <2>2. IsFiniteSet(failed)
    <3>1. IsFiniteSet(1 .. n)
      BY FS_Interval
    <3>2. QED
      BY <3>1, FS_Subset
  <2>3. Cardinality(failed) \in Nat
    BY <2>2, FS_CardinalityType
  <2>4. Count(takes, StronglyFailed) = Cardinality(failed)
    BY DEF Count
  <2>5. CASE takes = <<>>
    <3>1. failed = {}
      BY <2>5
    <3> HIDE DEF failed
    <3>2. Cardinality(failed) = 0
      BY <3>1, FS_EmptySet
    <3>3. QED
      BY <2>4, <3>2
  <2>6. CASE takes # <<>>
    <3>1. /\ ChallengeSignal(capture).available
          /\ ChallengeSignal(capture).metrics.highConfidenceFailures = Cardinality(failed)
      BY <1>1, <2>4, <2>6 DEF ChallengeSignal, Signal
    <3>2. QED
      BY <2>1, <2>3, <2>4, <3>1 DEF MultipleChallengeFailures
  <2>7. QED
    BY <2>5, <2>6
<1>7. QED
  BY <1>1, <1>4, <1>5, <1>6 DEF Obeyed

(* Takes are as many as the capture's, and a decision that verifies was    *)
(* made on a score that did and obeys the policy.                          *)
DecisionObeys ==
    /\ case \in Cases
    /\ \E n \in Nat : DOMAIN takes = 1 .. n
    /\ result = [e \in Engines |-> result[e]]
    /\ \A e \in Engines : Completed(e) /\ result[e].verdict = "VERIFIED" => Obeyed

LEMMA GateNeverRaises ==
    ASSUME NEW base, NEW e, Gated(base, e) = "VERIFIED"
    PROVE  base = "VERIFIED"
BY DEF Gated, Constrained

LEMMA ObeyedStays ==
    ASSUME DecisionObeys, UNCHANGED <<case, takes>>,
           result' = [e \in Engines |-> result'[e]],
           \A e \in Engines :
               /\ result'[e] # result[e]
               /\ result'[e].status = "COMPLETED" /\ result'[e].verdict = "VERIFIED"
               => Obeyed
    PROVE  DecisionObeys'
<1>1. Obeyed' = Obeyed
  BY DEF Obeyed, capture
<1>2. QED
  BY <1>1, Zenon DEF DecisionObeys, Completed

LEMMA ObeyedInit == Init => DecisionObeys
<1> SUFFICES ASSUME Init PROVE DecisionObeys
  OBVIOUS
<1>1. \A e \in Engines : result[e].status = "none"
  BY DEF Init, NoResult
<1>2. PICK n \in Nat : DOMAIN case.capture.takes = 1 .. n
  <2>1. case.capture.takes \in Seq(TakeInput)
    BY CaseFacts DEF Init
  <2>2. QED
    BY <2>1, SequenceOf
<1>3. DOMAIN takes = 1 .. n
  BY <1>2 DEF Init
<1>4. QED
  BY <1>1, <1>3 DEF Init, DecisionObeys, Completed

LEMMA ObeyedNext == DecisionObeys /\ [Next]_vars => DecisionObeys'
<1> SUFFICES ASSUME DecisionObeys, [Next]_vars
             PROVE  DecisionObeys'
  OBVIOUS
<1>1. UNCHANGED <<case, takes>>
  BY DEF Next, vars, BeginVisual, AnalyseTake, FailVisual, FuseTooEarly, Fuse, FailFusion,
         Assess, StoreSignals, Wait, Decide
<1>2. CASE UNCHANGED result
  BY <1>1, <1>2, ObeyedStays DEF DecisionObeys
<1>3. CASE Wait
  <2>1. result' = [result EXCEPT ![Engine] = Waiting]
    BY <1>3 DEF Wait
  <2>2. \A e \in Engines : result'[e] # result[e] => result'[e] = Waiting
    BY <2>1 DEF DecisionObeys
  <2>3. Waiting.status # "COMPLETED"
    BY DEF Waiting
  <2>4. result' = [e \in Engines |-> result'[e]]
    BY <2>1 DEF DecisionObeys
  <2>5. QED
    BY <1>1, <2>2, <2>3, <2>4, ObeyedStays
<1>4. CASE Decide
  <2> DEFINE made == Decision(Evidence, Engine)
  <2>1. result' = [result EXCEPT ![Engine] = made]
    BY <1>4 DEF Decide
  <2>2. made.verdict = Gated(Resolved(Evidence), Engine)
    BY DEF Decision
  <2>3. ASSUME made.verdict = "VERIFIED" PROVE Obeyed
    <3>1. Resolved(Evidence) = "VERIFIED"
      BY <2>2, <2>3, GateNeverRaises
    <3>2. QED
      BY <3>1, ResolvedObeys DEF DecisionObeys
  <2> HIDE DEF made
  <2>4. \A e \in Engines : result'[e] # result[e] => result'[e] = made
    BY <2>1 DEF DecisionObeys
  <2>5. result' = [e \in Engines |-> result'[e]]
    BY <2>1 DEF DecisionObeys
  <2>6. QED
    BY <1>1, <2>3, <2>4, <2>5, ObeyedStays
<1>5. QED
  BY <1>2, <1>3, <1>4
  DEF Next, vars, BeginVisual, AnalyseTake, FailVisual, FuseTooEarly, Fuse, FailFusion,
      Assess, StoreSignals

(* However a policy weighs the signals, VERIFIED needs a usable fix where  *)
(* it requires one, no place clearly off the site and no two clear failures*)
(* where it has those hard rules (resolve_decision, apply_security_gate).  *)
THEOREM VerifiedAlwaysObeys == Spec => []VerifiedObeysThePolicy
<1>1. DecisionObeys => VerifiedObeysThePolicy
  BY DEF DecisionObeys, VerifiedObeysThePolicy
<1>2. QED
  BY <1>1, ObeyedInit, ObeyedNext, PTL DEF Spec

-----------------------------------------------------------------------------
(* Scores and confidences stay in their range.                             *)
FusedFields == {"stage", "status", "effective", "confidence", "reasons", "sameDirection", "angleError", "offsets"}
StoredRow(row) == FusedRowType(row) /\ DOMAIN row = FusedFields

TypeInv ==
    /\ case \in Cases
    /\ takes = [i \in DOMAIN case.capture.takes |-> Take(case.capture.takes[i])]
    /\ DOMAIN visual = DOMAIN takes /\ DOMAIN fusion = DOMAIN takes
    /\ \A i \in DOMAIN takes : /\ Known(visual[i]) => RowType(visual[i])
                               /\ Known(fusion[i]) => StoredRow(fusion[i])
    /\ Known(security) => SecurityType(security)
    /\ Known(advanced) => advanced.score \in Score /\ advanced.confidence \in Score
    /\ result = [e \in Engines |-> result[e]]
    /\ \A e \in Engines : Completed(e) => result[e].verdict \in Verdicts /\ result[e].score \in Score

LEMMA TakenType ==
    ASSUME NEW t \in TakeInput
    PROVE  TakeType(Take(t)) /\ OutcomeType(Take(t).outcome)
<1>1. TakeType(t)
  BY TakeInputType
<1>2. OutcomeType(Validated(t))
  BY <1>1, ValidatedType
<1>3. Take(t).outcome = Validated(t)
  BY DEF Take
<1>4. TakeType(Take(t))
  BY <1>1 DEF TakeType, Take
<1>5. QED
  BY <1>2, <1>3, <1>4

(* The takes of a state are typed and numbered.                            *)
LEMMA TakesOfState ==
    ASSUME case \in Cases, takes = [i \in DOMAIN case.capture.takes |-> Take(case.capture.takes[i])]
    PROVE  /\ TakesType(takes)
           /\ IsFiniteSet(DOMAIN takes) /\ Len(takes) \in Nat /\ DOMAIN takes = 1 .. Len(takes)
           /\ \A i \in DOMAIN takes : TakeType(takes[i]) /\ OutcomeType(takes[i].outcome)
<1> DEFINE given == case.capture.takes
           n == Len(given)
<1>1. n \in Nat /\ DOMAIN given = 1 .. n /\ \A i \in 1 .. n : given[i] \in TakeInput
  <2>1. given \in Seq(TakeInput)
    BY CaseFacts
  <2> HIDE DEF given
  <2>2. QED
    BY <2>1, SequenceOf
<1> HIDE DEF given, n
<1>2. takes = [i \in 1 .. n |-> Take(given[i])]
  BY <1>1 DEF given
<1>3. \A i \in 1 .. n : TakeType(takes[i]) /\ OutcomeType(takes[i].outcome)
  BY <1>1, <1>2, TakenType
<1>4. takes \in Seq(Range(takes))
  <2> DEFINE S == Range(takes)
  <2>1. \A i \in 1 .. n : takes[i] \in S
    BY <1>2 DEF Range
  <2>2. takes = [i \in 1 .. n |-> takes[i]]
    BY <1>2
  <2> HIDE DEF S
  <2>3. takes \in Seq(S)
    BY <1>1, <2>1, <2>2
  <2>4. QED
    BY <2>3 DEF S
<1>5. DOMAIN takes = 1 .. n
  BY <1>2
<1>6. TakesType(takes)
  BY <1>3, <1>4, <1>5 DEF TakesType
<1>7. QED
  BY <1>3, <1>5, <1>6, TakesFacts

LEMMA StoredFacts ==
    ASSUME NEW rows
    PROVE  /\ DOMAIN Stored(rows) = {i \in DOMAIN rows : Known(rows[i])}
           /\ \A i \in DOMAIN Stored(rows) : Known(rows[i]) /\ Stored(rows)[i] = rows[i]
BY DEF Stored, Restrict

LEMMA StoredTypes ==
    ASSUME TypeInv
    PROVE  RowsType(Stored(visual)) /\ FusedRowsType(Stored(fusion))
<1>1. IsFiniteSet(DOMAIN takes)
  BY TakesOfState DEF TypeInv
<1> DEFINE V == DOMAIN Stored(visual)
           F == DOMAIN Stored(fusion)
<1>a. /\ V = {i \in DOMAIN visual : Known(visual[i])} /\ \A i \in V : Stored(visual)[i] = visual[i]
      /\ F = {i \in DOMAIN fusion : Known(fusion[i])} /\ \A i \in F : Stored(fusion)[i] = fusion[i]
  BY StoredFacts
<1> HIDE DEF V, F
<1>b. /\ DOMAIN visual = DOMAIN takes /\ DOMAIN fusion = DOMAIN takes
      /\ \A i \in DOMAIN takes : /\ Known(visual[i]) => RowType(visual[i])
                                 /\ Known(fusion[i]) => StoredRow(fusion[i])
  BY DEF TypeInv
<1>2. V \in SUBSET (DOMAIN takes) /\ F \in SUBSET (DOMAIN takes)
  BY <1>a, <1>b
<1>3. \A i \in V : RowType(Stored(visual)[i])
  BY <1>a, <1>b
<1>4. \A i \in F : FusedRowType(Stored(fusion)[i])
  BY <1>a, <1>b DEF StoredRow
<1>5. IsFiniteSet(V) /\ IsFiniteSet(F)
  BY <1>1, <1>2, FS_Subset
<1>6. QED
  BY <1>3, <1>4, <1>5 DEF RowsType, FusedRowsType, V, F

LEMMA DuplicateType ==
    ASSUME TypeInv
    PROVE  DuplicateRatio \in Score
<1> DEFINE S == {case.stream.replacedDuplicate} \cup {Stored(visual)[i].duplicate : i \in DOMAIN Stored(visual)}
<1>1. S \in SUBSET Score /\ S # {}
  <2>1. case.stream.replacedDuplicate \in Score
    BY CaseFacts DEF TypeInv, StreamType
  <2>2. \A i \in DOMAIN Stored(visual) : Stored(visual)[i].duplicate \in Score
    BY StoredTypes DEF RowsType, RowType
  <2>3. QED
    BY <2>1, <2>2
<1>2. DuplicateRatio = Max(S)
  BY DEF DuplicateRatio
<1> HIDE DEF S
<1>3. QED
  BY <1>1, <1>2, ExtremeScores

LEMMA EvidenceType ==
    ASSUME TypeInv
    PROVE  SignalsOK(Evidence)
<1>1. capture.location \in Maybe(LocationOf) /\ capture.takes = takes
  BY CaseFacts DEF TypeInv, capture
<1>2. TakesType(capture.takes)
  BY <1>1, TakesOfState DEF TypeInv
<1>3. QED
  BY <1>1, <1>2, StoredTypes, SignalsType DEF Evidence

LEMMA TypeInit == Init => TypeInv
<1> SUFFICES ASSUME Init PROVE TypeInv
  OBVIOUS
<1>1. \A e \in Engines : ~Completed(e)
  BY DEF Init, Completed, NoResult
<1>2. /\ DOMAIN visual = DOMAIN takes /\ DOMAIN fusion = DOMAIN takes
      /\ \A i \in DOMAIN takes : ~Known(visual[i]) /\ ~Known(fusion[i])
  BY DEF Init, Known
<1>3. ~Known(security) /\ ~Known(advanced)
  BY DEF Init, Known
<1>4. QED
  BY <1>1, <1>2, <1>3 DEF Init, TypeInv

(* A step of the visual analysis or of the fusion.                         *)
LEMMA RowStep ==
    ASSUME TypeInv, UNCHANGED <<case, takes, security, advanced, result>>,
           DOMAIN visual' = DOMAIN takes, DOMAIN fusion' = DOMAIN takes,
           \A i \in DOMAIN takes : /\ Known(visual'[i]) => RowType(visual'[i])
                                   /\ Known(fusion'[i]) => StoredRow(fusion'[i])
    PROVE  TypeInv'
BY Zenon DEF TypeInv, Completed

LEMMA MarkedFacts ==
    ASSUME NEW rows, NEW set, NEW row
    PROVE  /\ DOMAIN Marked(rows, set, row) = DOMAIN rows
           /\ \A i \in DOMAIN rows : Marked(rows, set, row)[i] = IF i \in set THEN row ELSE rows[i]
BY DEF Marked

LEMMA NoFusedRowType == ASSUME NEW stage PROVE StoredRow(NoFusedRow(stage))
<1>1. IsFiniteSet({})
  BY FS_EmptySet
<1>2. QED
  BY <1>1, ZeroScore DEF StoredRow, FusedRowType, NoFusedRow, FusedFields, ConsistencyStatus, Maybe

LEMMA BrokenType ==
    ASSUME NEW row, Known(row) => StoredRow(row)
    PROVE  StoredRow(Broken(row))
<1>1. CASE ~Known(row)
  BY <1>1, NoFusedRowType DEF Broken
<1>2. CASE Known(row)
  <2> DEFINE b == [row EXCEPT !.stage = "FAILED", !.status = "INCONCLUSIVE", !.reasons = {}]
  <2>1. /\ DOMAIN b = FusedFields /\ b.status = "INCONCLUSIVE" /\ b.effective = row.effective
        /\ b.confidence = row.confidence /\ b.angleError = row.angleError
        /\ b.sameDirection = row.sameDirection /\ b.offsets = row.offsets
    BY <1>2 DEF StoredRow, FusedFields
  <2>2. Broken(row) = b
    BY <1>2 DEF Broken
  <2> HIDE DEF b
  <2>3. QED
    BY <1>2, <2>1, <2>2 DEF StoredRow, FusedRowType, ConsistencyStatus
<1>3. QED
  BY <1>1, <1>2

LEMMA FusedTakeStored ==
    ASSUME TypeInv, NotReady = {}, NEW i \in DOMAIN takes
    PROVE  StoredRow(FusedTake(takes[i], visual[i]))
<1>1. Known(visual[i])
  BY DEF NotReady, Status
<1>2. RowType(visual[i]) /\ TakeType(takes[i]) /\ OutcomeType(takes[i].outcome)
  BY <1>1, TakesOfState DEF TypeInv
<1>3. FusedRowType(FusedTake(takes[i], visual[i]))
  BY <1>2, FusedTakeType
<1>4. \A m : DOMAIN Fused(m) = FusedFields
  BY DEF Fused, FusedFields
<1>5. DOMAIN FusedTake(takes[i], visual[i]) = FusedFields
  BY <1>4 DEF FusedTake
<1>6. QED
  BY <1>3, <1>5 DEF StoredRow

LEMMA VisualSteps ==
    ASSUME TypeInv, BeginVisual \/ AnalyseTake \/ FailVisual
    PROVE  TypeInv'
<1>1. \A i \in DOMAIN takes : Known(fusion[i]) => StoredRow(fusion[i])
  BY DEF TypeInv
<1>2. DOMAIN visual = DOMAIN takes /\ DOMAIN fusion = DOMAIN takes
      /\ \A i \in DOMAIN takes : Known(visual[i]) => RowType(visual[i])
  BY DEF TypeInv
<1>3. RowType(BlankRow("PROCESSING")) /\ RowType(BlankRow("FAILED"))
  BY BlankRowType DEF VisualStatus
<1>4. CASE BeginVisual
  <2>1. /\ \E set : visual' = Marked(visual, set, BlankRow("PROCESSING"))
        /\ UNCHANGED <<case, takes, fusion, security, advanced, result>>
    BY <1>4 DEF BeginVisual
  <2>2. DOMAIN visual' = DOMAIN takes /\ \A i \in DOMAIN takes : Known(visual'[i]) => RowType(visual'[i])
    BY <1>2, <1>3, <2>1, MarkedFacts
  <2>3. QED
    BY <1>1, <1>2, <2>1, <2>2, RowStep
<1>5. CASE FailVisual
  <2>1. /\ visual' = Marked(visual, InProgress, BlankRow("FAILED"))
        /\ UNCHANGED <<case, takes, fusion, security, advanced, result>>
    BY <1>5 DEF FailVisual
  <2>2. DOMAIN visual' = DOMAIN takes /\ \A i \in DOMAIN takes : Known(visual'[i]) => RowType(visual'[i])
    BY <1>2, <1>3, <2>1, MarkedFacts
  <2>3. QED
    BY <1>1, <1>2, <2>1, <2>2, RowStep
<1>6. CASE AnalyseTake
  <2> DEFINE i == Min(InProgress)
             row == VideoRow(takes[i], takes[i].outcome)
  <2>1. visual' = [visual EXCEPT ![i] = row] /\ UNCHANGED <<case, takes, fusion, security, advanced, result>>
        /\ InProgress # {}
    BY <1>6 DEF AnalyseTake
  <2>2. i \in DOMAIN takes
    <3>1. IsFiniteSet(DOMAIN takes) /\ InProgress \in SUBSET (DOMAIN takes) /\ \A x \in DOMAIN takes : x \in Int
      BY TakesOfState DEF TypeInv, InProgress
    <3>2. IsFiniteSet(InProgress) /\ \A x \in InProgress : x \in Int
      BY <3>1, FS_Subset
    <3>3. i \in InProgress
      BY <2>1, <3>2, MinExists
    <3>4. QED
      BY <3>1, <3>3
  <2>3. RowType(row)
    BY <2>2, TakesOfState, VideoRowType DEF TypeInv
  <2> HIDE DEF i, row
  <2>4. DOMAIN visual' = DOMAIN takes /\ \A j \in DOMAIN takes : Known(visual'[j]) => RowType(visual'[j])
    BY <1>2, <2>1, <2>2, <2>3
  <2>5. QED
    BY <1>1, <1>2, <2>1, <2>4, RowStep
<1>7. QED
  BY <1>4, <1>5, <1>6

LEMMA FusionSteps ==
    ASSUME TypeInv, FuseTooEarly \/ Fuse \/ FailFusion
    PROVE  TypeInv'
<1>1. DOMAIN visual = DOMAIN takes /\ DOMAIN fusion = DOMAIN takes
      /\ \A i \in DOMAIN takes : /\ Known(visual[i]) => RowType(visual[i])
                                 /\ Known(fusion[i]) => StoredRow(fusion[i])
  BY DEF TypeInv
<1>2. CASE FuseTooEarly
  <2>1. /\ fusion' = Marked(fusion, NotReady, NoFusedRow("PENDING"))
        /\ UNCHANGED <<case, takes, visual, security, advanced, result>>
    BY <1>2 DEF FuseTooEarly
  <2>2. StoredRow(NoFusedRow("PENDING"))
    BY NoFusedRowType
  <2>3. DOMAIN fusion' = DOMAIN takes /\ \A i \in DOMAIN takes : Known(fusion'[i]) => StoredRow(fusion'[i])
    BY <1>1, <2>1, <2>2, MarkedFacts
  <2>4. QED
    BY <1>1, <2>1, <2>3, RowStep
<1>3. CASE Fuse
  <2>1. /\ fusion' = [i \in DOMAIN takes |-> FusedTake(takes[i], visual[i])] /\ NotReady = {}
        /\ UNCHANGED <<case, takes, visual, security, advanced, result>>
    BY <1>3 DEF Fuse
  <2>2. \A i \in DOMAIN takes : StoredRow(FusedTake(takes[i], visual[i]))
    BY <2>1, FusedTakeStored
  <2>3. DOMAIN fusion' = DOMAIN takes /\ \A i \in DOMAIN takes : Known(fusion'[i]) => StoredRow(fusion'[i])
    BY <2>1, <2>2
  <2>4. QED
    BY <1>1, <2>1, <2>3, RowStep
<1>4. CASE FailFusion
  <2>1. PICK k \in 0 .. Len(takes) :
          fusion' = [i \in DOMAIN takes |->
              IF i < k THEN FusedTake(takes[i], visual[i])
              ELSE IF Complete(i) /\ i # k THEN fusion[i] ELSE Broken(fusion[i])]
    BY <1>4 DEF FailFusion
  <2>2. NotReady = {} /\ UNCHANGED <<case, takes, visual, security, advanced, result>>
    BY <1>4 DEF FailFusion
  <2>3. ASSUME NEW i \in DOMAIN takes PROVE StoredRow(fusion'[i])
    <3>1. StoredRow(FusedTake(takes[i], visual[i]))
      BY <2>2, FusedTakeStored
    <3>2. StoredRow(Broken(fusion[i]))
      BY <1>1, BrokenType
    <3>3. Complete(i) => StoredRow(fusion[i])
      BY <1>1 DEF Complete
    <3>4. fusion'[i] = IF i < k THEN FusedTake(takes[i], visual[i])
                       ELSE IF Complete(i) /\ i # k THEN fusion[i] ELSE Broken(fusion[i])
      BY <2>1
    <3>5. QED
      BY <3>1, <3>2, <3>3, <3>4
  <2>4. DOMAIN fusion' = DOMAIN takes
    BY <2>1
  <2>5. QED
    BY <1>1, <2>2, <2>3, <2>4, RowStep
<1>5. QED
  BY <1>2, <1>3, <1>4

LEMMA StoreSteps ==
    ASSUME TypeInv, Assess \/ StoreSignals
    PROVE  TypeInv'
<1>1. FusedRowsType(Stored(fusion)) /\ DuplicateRatio \in Score /\ StreamType(case.stream)
  BY StoredTypes, DuplicateType, CaseFacts DEF TypeInv
<1>2. CASE Assess
  <2>1. /\ security' = Assessed(case.stream, Stored(fusion), DuplicateRatio)
        /\ UNCHANGED <<case, takes, visual, fusion, advanced, result>>
    BY <1>2 DEF Assess
  <2>2. SecurityType(security')
    BY <1>1, <2>1, AssessedType DEF FusedRowsType
  <2>3. QED
    BY <2>1, <2>2, Zenon DEF TypeInv, Completed
<1>3. CASE StoreSignals
  <2>1. /\ advanced' = SupportingSignals(case.stream.wifi, security, DuplicateRatio, Stored(fusion))
        /\ UNCHANGED <<case, takes, visual, fusion, security, result>>
    BY <1>3 DEF StoreSignals
  <2>2. Known(security) => SecurityType(security)
    BY DEF TypeInv
  <2>3. advanced'.score \in Score /\ advanced'.confidence \in Score
    BY <1>1, <2>1, <2>2, CaseFacts, SupportingType DEF TypeInv, FusedRowsType
  <2>4. QED
    BY <2>1, <2>3, Zenon DEF TypeInv, Completed
<1>4. QED
  BY <1>2, <1>3

LEMMA ResultStep ==
    ASSUME TypeInv, UNCHANGED <<case, takes, visual, fusion, security, advanced>>,
           NEW row, result' = [result EXCEPT ![Engine] = row],
           row.status = "COMPLETED" => row.verdict \in Verdicts /\ row.score \in Score
    PROVE  TypeInv'
<1>1. \A e \in Engines : result'[e] = result[e] \/ result'[e] = row
  BY DEF TypeInv
<1>2. result' = [e \in Engines |-> result'[e]]
  BY DEF TypeInv
<1>3. \A e \in Engines : Completed(e)' => result'[e].verdict \in Verdicts /\ result'[e].score \in Score
  BY <1>1 DEF TypeInv, Completed
<1>4. QED
  BY <1>2, <1>3, Zenon DEF TypeInv

LEMMA ResultSteps ==
    ASSUME TypeInv, Wait \/ Decide
    PROVE  TypeInv'
<1>1. CASE Wait
  <2>1. /\ UNCHANGED <<case, takes, visual, fusion, security, advanced>>
        /\ result' = [result EXCEPT ![Engine] = Waiting]
    BY <1>1 DEF Wait
  <2>2. Waiting.status # "COMPLETED"
    BY DEF Waiting
  <2>3. QED
    BY <2>1, <2>2, ResultStep
<1>2. CASE Decide
  <2> DEFINE row == Decision(Evidence, Engine)
  <2>1. /\ UNCHANGED <<case, takes, visual, fusion, security, advanced>>
        /\ result' = [result EXCEPT ![Engine] = row]
    BY <1>2 DEF Decide
  <2>2. row.verdict \in Verdicts
    <3>1. Resolved(Evidence) \in Verdicts
      BY ResolvedType
    <3>2. Gated(Resolved(Evidence), Engine) \in Verdicts
      BY <3>1, ResolvedType DEF Gated
    <3>3. QED
      BY <3>2 DEF Decision
  <2>3. row.score \in Score
    <3>1. RawScoreOf(Evidence) \in Score
      BY EvidenceType, RawScoreOfType
    <3>2. QED
      BY <3>1 DEF Decision
  <2> HIDE DEF row
  <2>4. QED
    BY <2>1, <2>2, <2>3, ResultStep
<1>3. QED
  BY <1>1, <1>2

LEMMA TypeNext == TypeInv /\ [Next]_vars => TypeInv'
<1> SUFFICES ASSUME TypeInv, [Next]_vars PROVE TypeInv'
  OBVIOUS
<1>1. CASE UNCHANGED vars
  BY <1>1, Zenon DEF TypeInv, vars, Completed
<1>2. QED
  BY <1>1, VisualSteps, FusionSteps, StoreSteps, ResultSteps DEF Next

LEMMA TypeCorrect == TypeInv => TypeOK
<1> SUFFICES ASSUME TypeInv PROVE TypeOK
  OBVIOUS
<1>1. \A i \in DOMAIN takes : takes[i].outcome.score \in Score /\ takes[i].outcome.sensorScore \in Score
  BY TakesOfState DEF TypeInv, OutcomeType
<1>2. \A i \in DOMAIN takes : Known(visual[i]) =>
        /\ visual[i].status \in VisualStatus
        /\ visual[i].confidence \in Score /\ visual[i].continuity \in Score /\ visual[i].duplicate \in Score
  BY DEF TypeInv, RowType
<1>3. \A i \in DOMAIN takes : Known(fusion[i]) =>
        /\ fusion[i].status \in ConsistencyStatus
        /\ Known(fusion[i].effective) => fusion[i].effective \in Score
        /\ fusion[i].confidence \in Score
  BY DEF TypeInv, StoredRow, FusedRowType, Maybe, Known
<1>4. Known(security) => SecurityType(security)
  BY DEF TypeInv
<1>5. /\ Known(advanced) => advanced.score \in Score /\ advanced.confidence \in Score
      /\ \A e \in Engines : Completed(e) => result[e].verdict \in Verdicts /\ result[e].score \in Score
  BY DEF TypeInv
<1>6. \A s \in SignalType :
        Evidence[s].status \in SignalStatus /\ Evidence[s].score \in Score /\ Evidence[s].confidence \in Score
  BY EvidenceType DEF SignalsOK, SignalOK
<1>7. QED
  BY <1>1, <1>2, <1>3, <1>4, <1>5, <1>6 DEF TypeOK, SecurityType

(* Through every formula of the analyses, the signals and the decision, for*)
(* every evidence, a score stays between 0 and 1                           *)
(* (VerificationSignal.__post_init__ would reject it otherwise).           *)
THEOREM ScoresStayInRange == Spec => []TypeOK
<1>1. QED
  BY TypeInit, TypeNext, TypeCorrect, PTL DEF Spec

-----------------------------------------------------------------------------
(* An automatic VERIFIED is earned.                                        *)
LEMMA HalfContribution ==
    ASSUME NEW t, OutcomeType(t.outcome)
    PROVE  /\ FailedTake(t) => Contribution(t) = 0
           /\ UndecidedTake(t) => Contribution(t) <= Pct(45)
<1>1. FailedTake(t) => ~PassedTake(t)
  BY DEF FailedTake, PassedTake
<1>2. \A x \in Int : AtMost(Pct(45), x) <= Pct(45)
  BY PctType DEF AtMost
<1>3. t.outcome.score \div 2 \in Int
  <2>1. t.outcome.score \in Int
    BY ScoreRange DEF OutcomeType
  <2>2. QED
    BY <2>1, DivType
<1>4. QED
  BY <1>1, <1>2, <1>3 DEF Contribution, UndecidedTake

(* Scores of which one is 0, or two are at most a half, lack a whole one.  *)
LEMMA SumScarce ==
    ASSUME NEW f, NEW S, IsFiniteSet(S), \A x \in S : f[x] \in Score, NEW i \in S,
           \/ f[i] = 0
           \/ \E j \in S \ {i} : 2 * f[i] <= One /\ 2 * f[j] <= One
    PROVE  SumFunctionOnSet(f, S) <= One * (Cardinality(S) - 1)
<1>1. One \in Nat
  BY ScoreOps
<1>2. \A x \in S : f[x] \in Int /\ f[x] \in 0 .. One
  BY ScoreRange DEF Score
<1>3. \A T \in SUBSET S :
        /\ IsFiniteSet(T) /\ Cardinality(T) \in Nat
        /\ SumFunctionOnSet(f, T) \in Int /\ SumFunctionOnSet(f, T) <= One * Cardinality(T)
  <2> SUFFICES ASSUME NEW T \in SUBSET S
               PROVE  /\ IsFiniteSet(T) /\ Cardinality(T) \in Nat
                      /\ SumFunctionOnSet(f, T) \in Int /\ SumFunctionOnSet(f, T) <= One * Cardinality(T)
    OBVIOUS
  <2>1. IsFiniteSet(T) /\ Cardinality(T) \in Nat
    BY FS_Subset, FS_CardinalityType
  <2>2. SumFunctionOnSet(f, T) \in (0 * Cardinality(T)) .. (One * Cardinality(T))
    BY <1>1, <1>2, <2>1, SumBound
  <2> DEFINE total == SumFunctionOnSet(f, T)
             bound == One * Cardinality(T)
  <2>3. total \in Int
    BY <1>2, <2>1, SumType
  <2>4. bound \in Int
    BY <1>1, <2>1
  <2> HIDE DEF total, bound
  <2>5. total <= bound
    <3>1. 0 * Cardinality(T) \in Int
      BY <2>1
    <3>2. QED
      BY <2>2, <2>3, <2>4, <3>1 DEF total, bound
  <2>6. QED
    BY <2>1, <2>3, <2>5 DEF total, bound
<1> DEFINE R == S \ {i}
<1>4. /\ IsFiniteSet(R) /\ Cardinality(R) = Cardinality(S) - 1
      /\ SumFunctionOnSet(f, S) = f[i] + SumFunctionOnSet(f, R)
      /\ Cardinality(S) \in Nat
  BY <1>2, <1>3, SumAt, FS_RemoveElement
<1>5. SumFunctionOnSet(f, R) \in Int /\ SumFunctionOnSet(f, R) <= One * Cardinality(R)
  BY <1>3
<1>6. CASE f[i] = 0
  BY <1>4, <1>5, <1>6
<1>7. CASE \E j \in R : 2 * f[i] <= One /\ 2 * f[j] <= One
  <2>1. PICK j \in R : 2 * f[i] <= One /\ 2 * f[j] <= One
    BY <1>7
  <2> DEFINE Q == R \ {j}
  <2>2. /\ SumFunctionOnSet(f, R) = f[j] + SumFunctionOnSet(f, Q)
        /\ Cardinality(Q) = Cardinality(R) - 1
    <3> HIDE DEF R
    <3>1. IsFiniteSet(R) /\ j \in R /\ \A x \in R : f[x] \in Int
      BY <1>2, <1>4, <2>1 DEF R
    <3>2. SumFunctionOnSet(f, R) = f[j] + SumFunctionOnSet(f, Q)
      BY <3>1, SumAt
    <3>3. QED
      BY <3>1, <3>2, FS_RemoveElement
  <2>3. SumFunctionOnSet(f, Q) \in Int /\ SumFunctionOnSet(f, Q) <= One * Cardinality(Q)
    BY <1>3
  <2> DEFINE a == f[i]
             b == f[j]
             rest == SumFunctionOnSet(f, Q)
             n == Cardinality(S)
  <2>4. /\ a \in Int /\ b \in Int /\ rest \in Int /\ n \in Nat
        /\ 2 * a <= One /\ 2 * b <= One /\ rest <= One * (n - 2)
        /\ SumFunctionOnSet(f, S) = a + (b + rest)
    <3>1. Cardinality(Q) = n - 2
      BY <1>4, <2>2
    <3>2. QED
      BY <1>2, <1>4, <2>1, <2>2, <2>3, <3>1
  <2> HIDE DEF a, b, rest, n, Q
  <2>5. One * (n - 1) = One * (n - 2) + One
    BY <1>1, <2>4
  <2>6. a + (b + rest) <= One * (n - 2) + One
    <3> DEFINE k == One * (n - 2)
    <3>1. k \in Int
      BY <1>1, <2>4
    <3>2. rest <= k
      BY <2>4
    <3> HIDE DEF k
    <3>3. a + (b + rest) <= k + One
      BY <1>1, <2>4, <3>1, <3>2
    <3>4. QED
      BY <3>3 DEF k
  <2>7. QED
    BY <2>4, <2>5, <2>6 DEF n
<1>8. QED
  BY <1>6, <1>7

LEMMA CompletionScarce ==
    ASSUME NEW given, TakesType(given),
           (\E i \in DOMAIN given : FailedTake(given[i])) \/ ~(Count(given, UndecidedTake) <= 1)
    PROVE  /\ given # <<>> /\ Len(given) \in Nat \ {0}
           /\ Completion(given) * Len(given) <= One * (Len(given) - 1)
<1> DEFINE S == DOMAIN given
           f == [i \in S |-> Contribution(given[i])]
           undecided == {i \in S : UndecidedTake(given[i])}
<1>1. /\ IsFiniteSet(S) /\ Cardinality(S) = Len(given) /\ Len(given) \in Nat
      /\ given # <<>> => S # {} /\ Len(given) \in Nat \ {0}
      /\ \A i \in S : OutcomeType(given[i].outcome)
  BY TakesFacts
<1>2. \A i \in S : f[i] \in Score
  BY <1>1, ContributionType
<1>3. IsFiniteSet(undecided) /\ Cardinality(undecided) \in Nat
  BY <1>1, FS_Subset, FS_CardinalityType
<1>4. Count(given, UndecidedTake) = Cardinality(undecided)
  BY DEF Count
<1>5. \A i \in undecided : i \in S /\ 2 * f[i] <= One
  <2> SUFFICES ASSUME NEW i \in undecided PROVE i \in S /\ 2 * f[i] <= One
    OBVIOUS
  <2>1. i \in S /\ f[i] <= Pct(45) /\ f[i] \in Int
    BY <1>1, <1>2, HalfContribution, ScoreRange
  <2> DEFINE a == f[i]
  <2>2. a \in Int /\ a <= Pct(45)
    BY <2>1
  <2> HIDE DEF a, f
  <2>3. 2 * a <= One
    BY <2>2 DEF Pct, One
  <2>4. QED
    BY <2>1, <2>3 DEF a
<1>6. \E i \in S : \/ f[i] = 0
                   \/ \E j \in S \ {i} : 2 * f[i] <= One /\ 2 * f[j] <= One
  <2>1. CASE \E i \in S : FailedTake(given[i])
    BY <1>1, <2>1, HalfContribution
  <2>2. CASE ~(Count(given, UndecidedTake) <= 1)
    <3>1. undecided # {}
      BY <1>3, <1>4, <2>2, FS_EmptySet
    <3>2. PICK i \in undecided : TRUE
      BY <3>1
    <3>3. undecided # {i}
      BY <1>3, <1>4, <2>2, FS_Singleton
    <3>4. PICK j \in undecided : j # i
      BY <3>2, <3>3
    <3>5. QED
      BY <1>5, <3>2, <3>4
  <2>3. QED
    BY <2>1, <2>2
<1>7. S # {} /\ given # <<>>
  BY <1>6
<1> DEFINE total == SumFunctionOnSet(f, S)
           n == Len(given)
<1>8. total <= One * (n - 1) /\ total \in Int
  <2>1. PICK i \in S : \/ f[i] = 0
                       \/ \E j \in S \ {i} : 2 * f[i] <= One /\ 2 * f[j] <= One
    BY <1>6
  <2>2. \A i_1 \in S : f[i_1] \in Int
    BY <1>2, ScoreRange
  <2> HIDE DEF S, f
  <2>3. SumFunctionOnSet(f, S) \in Int
    BY <1>1, <2>2, SumType
  <2>4. SumFunctionOnSet(f, S) <= One * (Cardinality(S) - 1)
    BY <1>1, <1>2, <2>1, SumScarce
  <2>5. QED
    BY <1>1, <2>3, <2>4
<1>9. Completion(given) = total \div n
  <2>1. Completion(given) = Mean(f)
    BY DEF Completion, MeanOf
  <2>2. Mean(f) = SumFunctionOnSet(f, DOMAIN f) \div Cardinality(DOMAIN f)
    BY DEF Mean, SumFunction
  <2>3. DOMAIN f = S
    OBVIOUS
  <2>4. QED
    BY <1>1, <2>1, <2>2, <2>3
<1>10. n \in Nat \ {0}
  BY <1>1, <1>7
<1> HIDE DEF total, n, f
<1>11. (total \div n) * n <= total /\ total \div n \in Int
  BY <1>8, <1>10
<1>12. QED
  <2> DEFINE q == (total \div n) * n
             bound == One * (n - 1)
  <2>1. q \in Int /\ bound \in Int
    BY <1>10, <1>11, ScoreOps
  <2>2. q <= total /\ total <= bound
    BY <1>8, <1>11
  <2> HIDE DEF q, bound
  <2>3. q <= bound
    BY <1>8, <2>1, <2>2
  <2>4. QED
    BY <1>7, <1>9, <1>10, <2>3 DEF q, bound, n

(* What a signal is not worth, the whole is not worth either.              *)
LEMMA WorthWithout ==
    ASSUME NEW signals, SignalsOK(signals), NEW s \in SignalType, signals[s].available
    PROVE  Worth(signals) + Policy.weights[s] * One
             <= One * AvailableWeight(signals) + Policy.weights[s] * signals[s].score
<1> DEFINE S == Available(signals)
           w == Policy.weights
           g == [x \in SignalType |-> w[x] * signals[x].score]
<1>1. /\ IsFiniteSet(S) /\ S \subseteq SignalType /\ s \in S
      /\ Worth(signals) = SumFunctionOnSet(g, S) /\ AvailableWeight(signals) = SumFunctionOnSet(w, S)
  BY WorthType DEF Worth, Weighted, AvailableWeight, Available
<1>2. \A x \in SignalType : w[x] \in Nat /\ g[x] \in Nat /\ g[x] <= One * w[x]
  <2> SUFFICES ASSUME NEW x \in SignalType PROVE w[x] \in Nat /\ g[x] \in Nat /\ g[x] <= One * w[x]
    OBVIOUS
  <2> DEFINE a == w[x]
             b == signals[x].score
  <2>1. a \in Nat /\ b \in Score /\ g[x] = a * b
    BY PolicyAssumption DEF SignalsOK, SignalOK
  <2> HIDE DEF a, b, g
  <2>2. g[x] \in Nat /\ g[x] <= One * a
    BY <2>1, ProductScore
  <2>3. QED
    BY <2>1, <2>2 DEF a
<1>3. g[s] = w[s] * signals[s].score
  OBVIOUS
<1> DEFINE R == S \ {s}
<1> HIDE DEF S, g
<1>4. /\ SumFunctionOnSet(g, S) = g[s] + SumFunctionOnSet(g, R)
      /\ SumFunctionOnSet(w, S) = w[s] + SumFunctionOnSet(w, R)
  BY <1>1, <1>2, SumAt
<1>5. IsFiniteSet(R) /\ R \subseteq SignalType
  BY <1>1, FS_Subset
<1>6. /\ SumFunctionOnSet(w, R) \in Nat /\ SumFunctionOnSet(g, R) \in Nat
      /\ SumFunctionOnSet(g, R) <= One * SumFunctionOnSet(w, R)
  BY <1>2, <1>5, WeightedSum
<1> DEFINE a == w[s]
           x == g[s]
           p == SumFunctionOnSet(w, R)
           q == SumFunctionOnSet(g, R)
<1>7. a \in Nat /\ x \in Nat /\ p \in Nat /\ q \in Nat /\ q <= One * p /\ One \in Nat
  BY <1>1, <1>2, <1>6, ScoreOps
<1> HIDE DEF a, x, p, q, w, R
<1>8. (x + q) + a * One <= One * (a + p) + x
  <2>1. One * (a + p) = One * a + One * p /\ a * One = One * a
    BY <1>7
  <2> DEFINE u == One * a
             v == One * p
  <2>2. u \in Nat /\ v \in Nat /\ q <= v
    BY <1>7
  <2> HIDE DEF u, v
  <2>3. (x + q) + u <= (u + v) + x
    BY <1>7, <2>2
  <2>4. QED
    BY <2>1, <2>3 DEF u, v
<1>9. QED
  BY <1>1, <1>3, <1>4, <1>8 DEF a, x, p, q, w

(* A share of 1/n missing from a signal of weight w, of n * (100 - v) at   *)
(* the most, leaves the mean below v hundredths.                           *)
LEMMA Margin ==
    ASSUME NEW n \in Nat \ {0}, NEW w \in Nat, NEW v \in 0 .. 100, NEW aw \in Nat, aw <= 100,
           NEW score \in Nat, NEW worth \in Nat, NEW one \in Nat \ {0},
           score * n <= one * (n - 1),
           worth + w * one <= one * aw + w * score,
           worth * 100 >= (v * aw) * one
    PROVE  w <= n * (100 - v)
<1>1. n * worth <= one * (n * aw - w)
  <2>1. n * (worth + w * one) <= n * (one * aw + w * score)
    OBVIOUS
  <2>2. w * (score * n) <= w * (one * (n - 1))
    OBVIOUS
  <2>3. n * (worth + w * one) = n * worth + n * (w * one)
    OBVIOUS
  <2>4. n * (one * aw + w * score) = one * (n * aw) + w * (score * n)
    OBVIOUS
  <2>5. w * (one * (n - 1)) = n * (w * one) - w * one
    OBVIOUS
  <2>6. one * (n * aw - w) = one * (n * aw) - w * one
    OBVIOUS
  <2> DEFINE A == n * worth
             B == n * (w * one)
             C == one * (n * aw)
             D == w * (score * n)
             E == w * one
  <2>7. A \in Int /\ B \in Int /\ C \in Int /\ D \in Int /\ E \in Int
    OBVIOUS
  <2>8. A + B <= C + D /\ D <= B - E
    BY <2>1, <2>2, <2>3, <2>4, <2>5
  <2> HIDE DEF A, B, C, D, E
  <2>9. A <= C - E
    BY <2>7, <2>8
  <2>10. QED
    BY <2>6, <2>9 DEF A, C, E
<1>2. n * ((v * aw) * one) <= n * (worth * 100)
  OBVIOUS
<1>3. one * (n * (v * aw)) <= one * (100 * (n * aw - w))
  <2>1. n * ((v * aw) * one) = one * (n * (v * aw)) /\ n * (worth * 100) = 100 * (n * worth)
    OBVIOUS
  <2>2. 100 * (n * worth) <= 100 * (one * (n * aw - w))
    BY <1>1
  <2>3. 100 * (one * (n * aw - w)) = one * (100 * (n * aw - w))
    OBVIOUS
  <2> DEFINE A == n * ((v * aw) * one)
             B == 100 * (n * worth)
             C == one * (100 * (n * aw - w))
  <2>4. A \in Int /\ B \in Int /\ C \in Int
    OBVIOUS
  <2>5. A <= B /\ B <= C
    BY <1>2, <2>1, <2>2, <2>3
  <2> HIDE DEF A, B, C
  <2>6. A <= C
    BY <2>4, <2>5
  <2>7. QED
    BY <2>1, <2>6 DEF A, C
<1>4. n * (v * aw) <= 100 * (n * aw - w)
  <2> DEFINE A == n * (v * aw)
             B == 100 * (n * aw - w)
  <2>1. A \in Int /\ B \in Int /\ one * A <= one * B
    BY <1>3
  <2> HIDE DEF A, B
  <2>2. A <= B
    BY <2>1
  <2>3. QED
    BY <2>2 DEF A, B
<1>5. n * (aw * (100 - v)) <= n * (100 * (100 - v))
  OBVIOUS
<1>6. n * (aw * (100 - v)) = 100 * (n * aw) - n * (v * aw) /\ n * (100 * (100 - v)) = 100 * (n * (100 - v))
  OBVIOUS
<1> DEFINE A == n * aw
           B == n * (v * aw)
           C == n * (100 - v)
<1>7. A \in Int /\ B \in Int /\ C \in Int /\ B <= 100 * (A - w) /\ 100 * A - B <= 100 * C
  BY <1>4, <1>5, <1>6
<1> HIDE DEF A, B, C
<1>8. w <= C
  BY <1>7
<1>9. QED
  BY <1>8 DEF C

LEMMA MotionFound ==
    ASSUME NEW c, NEW rows, MotionSignal(c, rows).status \notin {"UNAVAILABLE", "INCONCLUSIVE"}
    PROVE  \E i \in DOMAIN rows : rows[i].status = "SUCCESS"
<1> SUFFICES ASSUME ~\E i \in DOMAIN rows : rows[i].status = "SUCCESS" PROVE FALSE
  OBVIOUS
<1> DEFINE found == {i \in DOMAIN rows : rows[i].status = "SUCCESS"}
<1>1. found = {}
  OBVIOUS
<1>2. Count(rows, LAMBDA r : r.status = "SUCCESS") = Cardinality(found)
  BY DEF Count
<1> HIDE DEF found
<1>3. Count(rows, LAMBDA r : r.status = "SUCCESS") = 0
  BY <1>1, <1>2, FS_EmptySet
<1>4. \A status, score, confidence, metrics : Signal(status, score, confidence, metrics).status = status
  BY DEF Signal
<1>5. QED
  BY <1>3, <1>4 DEF MotionSignal, Unavailable

(* What a visual row is: blank, or what the video shows of the take.       *)
RowOf(i) == {BlankRow("PROCESSING"), BlankRow("FAILED"), VideoRow(takes[i], takes[i].outcome)}
RowsInv ==
    /\ TypeInv
    /\ \A i \in DOMAIN takes : Known(visual[i]) => visual[i] \in RowOf(i)
Earned ==
    /\ \A i \in DOMAIN takes : ~FailedTake(takes[i])
    /\ Count(takes, UndecidedTake) <= 1
    /\ \E i \in DOMAIN takes : VideoRow(takes[i], takes[i].outcome).status = "SUCCESS"

LEMMA ReachesMeans ==
    ASSUME NEW signals, Resolved(signals) = "VERIFIED"
    PROVE  /\ MissingRequired(signals) = {}
           /\ Worth(signals) * 100 >= Policy.verified * AvailableWeight(signals) * One
<1>1. MissingRequired(signals) = {} /\ BaseVerdict(signals) = "VERIFIED"
  BY DEF Resolved, Constrained
<1>2. Reaches(signals, Policy.verified)
  BY <1>1 DEF BaseVerdict
<1>3. QED
  BY <1>1, <1>2 DEF Reaches

LEMMA ResolvedEarned ==
    ASSUME RowsInv, PolicyAsksMotion, ChallengesWeigh, Resolved(Evidence) = "VERIFIED"
    PROVE  Earned
<1>0. TypeInv
  BY DEF RowsInv
<1>1. /\ Evidence["CHALLENGE_COMPLETION"] = ChallengeSignal(capture)
      /\ Evidence["VISUAL_MOTION"] = MotionSignal(capture, Stored(visual))
      /\ capture.takes = takes
  BY DEF Evidence, SignalsOf, capture
<1>2. MissingRequired(Evidence) = {}
  BY ReachesMeans
<1>3. \E i \in DOMAIN takes : VideoRow(takes[i], takes[i].outcome).status = "SUCCESS"
  <2>1. MotionSignal(capture, Stored(visual)).status \notin {"UNAVAILABLE", "INCONCLUSIVE"}
    BY <1>1, <1>2 DEF MissingRequired, PolicyAsksMotion
  <2>2. PICK i \in DOMAIN Stored(visual) : Stored(visual)[i].status = "SUCCESS"
    BY <2>1, MotionFound
  <2>3. i \in DOMAIN visual /\ Known(visual[i]) /\ visual[i].status = "SUCCESS"
    BY <2>2, StoredFacts
  <2>4. DOMAIN visual = DOMAIN takes
    BY <1>0 DEF TypeInv
  <2>5. visual[i] \in RowOf(i)
    BY <2>3, <2>4 DEF RowsInv
  <2>6. BlankRow("PROCESSING").status # "SUCCESS" /\ BlankRow("FAILED").status # "SUCCESS"
    BY DEF BlankRow
  <2>7. QED
    BY <2>3, <2>4, <2>5, <2>6 DEF RowOf
<1>4. TakesType(takes)
  BY <1>0, TakesOfState DEF TypeInv
<1>5. ASSUME (\E i \in DOMAIN takes : FailedTake(takes[i])) \/ ~(Count(takes, UndecidedTake) <= 1)
      PROVE  FALSE
  <2> DEFINE n == Len(takes)
             score == Completion(takes)
             w == Policy.weights["CHALLENGE_COMPLETION"]
             v == Policy.verified
             aw == AvailableWeight(Evidence)
             worth == Worth(Evidence)
  <2>1. takes # <<>> /\ n \in Nat \ {0} /\ score * n <= One * (n - 1)
    BY <1>4, <1>5, CompletionScarce
  <2>2. score \in Score
    BY <1>4, <2>1, ChallengeMeans
  <2>3. /\ Evidence["CHALLENGE_COMPLETION"].score = score
        /\ Evidence["CHALLENGE_COMPLETION"].available
    <3>1. \A status, confidence, metrics :
            /\ Signal(status, score, confidence, metrics).score = score
            /\ Signal(status, score, confidence, metrics).available = (status # "UNAVAILABLE")
      BY DEF Signal
    <3>2. \E status \in {"PASS", "FAIL", "PARTIAL"} : \E confidence, metrics :
            ChallengeSignal(capture) = Signal(status, score, confidence, metrics)
      BY <1>1, <2>1, Zenon DEF ChallengeSignal
    <3>3. QED
      BY <1>1, <3>1, <3>2
  <2>4. SignalsOK(Evidence) /\ "CHALLENGE_COMPLETION" \in SignalType
    BY <1>0, EvidenceType DEF SignalType
  <2>5. worth + w * One <= One * aw + w * score
    BY <2>3, <2>4, WorthWithout
  <2>6. aw \in Nat /\ aw <= 100 /\ worth \in Nat
    BY <2>4, WorthType
  <2>7. w \in Nat /\ v \in 0 .. 100
    BY <2>4, PolicyAssumption
  <2>8. worth * 100 >= (v * aw) * One
    BY ReachesMeans
  <2>9. One \in Nat \ {0} /\ score \in Nat
    BY <2>2, ScoreRange DEF One
  <2>10. n * (100 - v) < w
    <3>1. case \in Cases /\ DOMAIN takes = DOMAIN case.capture.takes
      BY <1>0 DEF TypeInv
    <3>2. case.capture.takes \in Seq(TakeInput)
      BY <3>1, CaseFacts
    <3> DEFINE given == case.capture.takes
    <3>3. Len(given) * (100 - Policy.verified) < Policy.weights["CHALLENGE_COMPLETION"]
      BY <3>1 DEF ChallengesWeigh
    <3> HIDE DEF given
    <3>4. DOMAIN given = 1 .. Len(given) /\ Len(given) \in Nat
      BY <3>2, SequenceOf DEF given
    <3>5. DOMAIN takes = 1 .. Len(takes)
      BY <1>4, TakesFacts
    <3>6. Len(given) = Len(takes)
      BY <2>1, <3>1, <3>4, <3>5 DEF given
    <3>7. QED
      BY <3>3, <3>6
  <2> HIDE DEF n, score, w, v, aw, worth
  <2>11. w <= n * (100 - v)
    BY <2>1, <2>5, <2>6, <2>7, <2>8, <2>9, Margin
  <2>12. n * (100 - v) \in Int
    BY <2>1, <2>7
  <2>13. QED
    BY <2>7, <2>10, <2>11, <2>12
<1>6. QED
  BY <1>3, <1>5 DEF Earned

LEMMA RowsOfStep ==
    ASSUME RowsInv, [Next]_vars
    PROVE  takes' = takes /\ \A i \in DOMAIN takes : Known(visual'[i]) => visual'[i] \in RowOf(i)
<1>1. takes' = takes
  BY DEF Next, vars, BeginVisual, AnalyseTake, FailVisual, FuseTooEarly, Fuse, FailFusion,
         Assess, StoreSignals, Wait, Decide
<1>2. \A i \in DOMAIN takes : i \in DOMAIN visual /\ (Known(visual[i]) => visual[i] \in RowOf(i))
  BY DEF RowsInv, TypeInv
<1>3. \A i \in DOMAIN takes : BlankRow("PROCESSING") \in RowOf(i) /\ BlankRow("FAILED") \in RowOf(i)
  BY DEF RowOf
<1>4. CASE BeginVisual
  BY <1>1, <1>2, <1>3, <1>4, MarkedFacts DEF BeginVisual
<1>5. CASE FailVisual
  BY <1>1, <1>2, <1>3, <1>5, MarkedFacts DEF FailVisual
<1>6. CASE AnalyseTake
  <2> DEFINE j == Min(InProgress)
             row == VideoRow(takes[j], takes[j].outcome)
  <2>1. visual' = [visual EXCEPT ![j] = row]
    BY <1>6 DEF AnalyseTake
  <2>2. row \in RowOf(j)
    BY DEF RowOf
  <2> HIDE DEF j, row
  <2>3. QED
    BY <1>1, <1>2, <2>1, <2>2
<1>7. CASE UNCHANGED visual
  BY <1>1, <1>2, <1>7
<1>8. QED
  BY <1>4, <1>5, <1>6, <1>7
     DEF Next, vars, FuseTooEarly, Fuse, FailFusion, Assess, StoreSignals, Wait, Decide

LEMMA RowsInit == Init => RowsInv
<1> SUFFICES ASSUME Init PROVE RowsInv
  OBVIOUS
<1>1. \A i \in DOMAIN takes : ~Known(visual[i])
  BY DEF Init, Known
<1>2. QED
  BY <1>1, TypeInit DEF RowsInv

LEMMA RowsNext == RowsInv /\ [Next]_vars => RowsInv'
<1> SUFFICES ASSUME RowsInv, [Next]_vars PROVE RowsInv'
  OBVIOUS
<1>1. TypeInv'
  BY TypeNext DEF RowsInv
<1>2. takes' = takes /\ \A i \in DOMAIN takes : Known(visual'[i]) => visual'[i] \in RowOf(i)
  BY RowsOfStep
<1>3. \A i : RowOf(i)' = RowOf(i)
  BY <1>2 DEF RowOf
<1>4. QED
  BY <1>1, <1>2, <1>3 DEF RowsInv

(* Neither takes nor what their videos show ever change.                   *)
LEMMA EarnedKept ==
    ASSUME RowsInv, [Next]_vars, Earned
    PROVE  Earned'
<1>1. takes' = takes
  BY RowsOfStep
<1>2. QED
  BY <1>1 DEF Earned, Count, UndecidedTake, FailedTake, PassedTake

EarnedInv ==
    /\ RowsInv
    /\ \A e \in Engines : Completed(e) /\ result[e].verdict = "VERIFIED" => Earned

LEMMA EarnedNext == PolicyAsksMotion /\ ChallengesWeigh => (EarnedInv /\ [Next]_vars => EarnedInv')
<1> SUFFICES ASSUME PolicyAsksMotion, ChallengesWeigh, EarnedInv, [Next]_vars PROVE EarnedInv'
  OBVIOUS
<1>1. TypeInv /\ RowsInv /\ RowsInv'
  BY RowsNext DEF EarnedInv, RowsInv
<1>2. Earned => Earned'
  BY <1>1, EarnedKept
<1>3. ASSUME NEW e \in Engines, Completed(e)', result'[e].verdict = "VERIFIED" PROVE Earned
  <2>1. CASE result'[e] = result[e]
    BY <1>3, <2>1 DEF EarnedInv, Completed
  <2>2. CASE result'[e] # result[e] /\ Wait
    <3>1. result'[e] = Waiting
      BY <2>2, <1>1 DEF Wait, TypeInv
    <3>2. QED
      BY <1>3, <3>1 DEF Completed, Waiting
  <2>3. CASE result'[e] # result[e] /\ Decide
    <3> DEFINE made == Decision(Evidence, Engine)
    <3>1. result' = [result EXCEPT ![Engine] = made]
      BY <2>3 DEF Decide
    <3>2. made.verdict = Gated(Resolved(Evidence), Engine)
      BY DEF Decision
    <3> HIDE DEF made
    <3>3. result'[e] = made
      BY <2>3, <3>1, <1>1 DEF TypeInv
    <3>4. Resolved(Evidence) = "VERIFIED"
      BY <1>3, <3>2, <3>3, GateNeverRaises
    <3>5. QED
      BY <1>1, <3>4, ResolvedEarned
  <2>4. QED
    BY <2>1, <2>2, <2>3
       DEF Next, vars, BeginVisual, AnalyseTake, FailVisual, FuseTooEarly, Fuse, FailFusion, Assess, StoreSignals
<1>4. QED
  BY <1>1, <1>2, <1>3 DEF EarnedInv

(* Under a policy that asks for the camera's motion and weighs the         *)
(* challenges as the default one does, a VERIFIED capture has no failed and*)
(* at most one undecided challenge, and the motion was seen: renormalising *)
(* the weights cannot make up for them (score_signals in scoring.py).      *)
THEOREM VerifiedWasEarned ==
    ASSUME PolicyAsksMotion, ChallengesWeigh
    PROVE  Spec => []VerifiedIsEarned
<1>1. Init => EarnedInv
  <2>1. Init => \A e \in Engines : ~Completed(e)
    BY DEF Init, Completed, NoResult
  <2>2. QED
    BY <2>1, RowsInit DEF EarnedInv
<1>2. EarnedInv /\ [Next]_vars => EarnedInv'
  BY EarnedNext
<1>3. EarnedInv /\ VerifiedObeysThePolicy => VerifiedIsEarned
  BY DEF EarnedInv, Earned, VerifiedIsEarned
<1>4. QED
  BY <1>1, <1>2, <1>3, VerifiedAlwaysObeys, PTL DEF Spec

-----------------------------------------------------------------------------
(* A camera that saw the phone's motion accuses nobody.                    *)
Harmless(row) ==
    /\ row.reasons \cap StrongContradictions = {}
    /\ row.sameDirection # TRUE => row.status = "INCONCLUSIVE" /\ Disagreement(row) <= Pct(55)

LEMMA HarmlessRisk ==
    ASSUME NEW row, FusedRowType(row), Harmless(row)
    PROVE  RowReplayRisk(row) <= Pct(55)
<1>1. Disagreement(row) \in Int /\ Pct(55) \in Int
  BY DisagreementType, ScoreRange, PctType
<1>2. "OPPOSITE_DIRECTION" \notin row.reasons
  BY DEF Harmless, StrongContradictions
<1>3. AtMost(Disagreement(row), Pct(55)) <= Pct(55)
  BY <1>1 DEF AtMost
<1>4. QED
  BY <1>2, <1>3 DEF Harmless, RowReplayRisk

LEMMA HarmlessMismatch ==
    ASSUME NEW rows, \A i \in DOMAIN rows : FusedRowType(rows[i]) /\ Harmless(rows[i])
    PROVE  ~(MotionMismatch(rows) >= Pct(65))
<1> DEFINE S == {0} \cup {RowReplayRisk(rows[i]) : i \in DOMAIN rows}
<1>1. S \in SUBSET Score /\ S # {}
  BY DisagreementType, ZeroScore
<1>2. MotionMismatch(rows) = Max(S)
  BY DEF MotionMismatch
<1>3. \A x \in S : x <= Pct(55)
  BY HarmlessRisk DEF Pct
<1> HIDE DEF S
<1>4. Max(S) \in S /\ Max(S) \in Int
  <2>1. IsFiniteSet(S) /\ \A x \in S : x \in Int
    BY <1>1, ScoresFinite, ScoreRange
  <2>2. QED
    BY <1>1, <2>1, MaxExists
<1>5. Max(S) <= Pct(55)
  BY <1>3, <1>4
<1> DEFINE top == Max(S)
<1> HIDE DEF top
<1>6. top \in Int /\ top <= Pct(55)
  BY <1>4, <1>5 DEF top
<1>7. ~(top >= Pct(65))
  BY <1>6 DEF Pct
<1>8. QED
  BY <1>2, <1>7 DEF top

LEMMA NoFusedRowHarmless == ASSUME NEW stage PROVE Harmless(NoFusedRow(stage))
<1>1. Disagreement(NoFusedRow(stage)) = Pct(40)
  BY DEF Disagreement, NoFusedRow, Known
<1>2. QED
  BY <1>1 DEF Harmless, NoFusedRow, Pct

LEMMA BrokenHarmless ==
    ASSUME NEW row, Known(row) => StoredRow(row) /\ Harmless(row)
    PROVE  Harmless(Broken(row))
<1>1. CASE ~Known(row)
  BY <1>1, NoFusedRowHarmless DEF Broken
<1>2. CASE Known(row)
  <2> DEFINE b == [row EXCEPT !.stage = "FAILED", !.status = "INCONCLUSIVE", !.reasons = {}]
  <2>1. /\ b.status = "INCONCLUSIVE" /\ b.effective = row.effective /\ b.reasons = {}
        /\ b.sameDirection = row.sameDirection
    BY <1>2 DEF StoredRow, FusedFields
  <2>2. Broken(row) = b
    BY <1>2 DEF Broken
  <2> HIDE DEF b
  <2>3. row.sameDirection # TRUE => Disagreement(b) <= Pct(55)
    <3>1. CASE Known(row.effective)
      BY <1>2, <2>1, <3>1 DEF Disagreement, Harmless
    <3>2. CASE ~Known(row.effective)
      <4>1. Disagreement(b) = Pct(40)
        BY <2>1, <3>2 DEF Disagreement
      <4>2. QED
        BY <4>1 DEF Pct
    <3>3. QED
      BY <3>1, <3>2
  <2>4. QED
    <3>1. row.sameDirection \in BOOLEAN /\ b.reasons \cap StrongContradictions = {}
      BY <1>2, <2>1 DEF StoredRow, FusedRowType
    <3>2. b.sameDirection # TRUE => b.status = "INCONCLUSIVE" /\ Disagreement(b) <= Pct(55)
      BY <2>1, <2>3
    <3>3. QED
      BY <2>2, <3>1, <3>2 DEF Harmless
<1>3. QED
  BY <1>1, <1>2

(* A row without a motion decides nothing and speaks for neither side.     *)
LEMMA BlankHarmless ==
    ASSUME NEW t, TakeType(t), OutcomeType(t.outcome), NEW status \in {"PROCESSING", "FAILED"}
    PROVE  Harmless(FusedTake(t, BlankRow(status)))
<1> DEFINE row == BlankRow(status)
           m == Measurement(t, row)
<1>1. /\ row.direction = "NONE" /\ row.angle = NoMeasure /\ row.start = NoMeasure /\ row.end = NoMeasure
      /\ row.confidence = 0 /\ row.status # "SUCCESS"
  BY DEF BlankRow
<1>2. /\ m.visual.direction = "NONE" /\ m.visual.angle = NoMeasure
      /\ m.visual.start = NoMeasure /\ m.visual.end = NoMeasure /\ m.visual.confidence = 0
      /\ m.correlation = NoMeasure /\ m.visualValid = FALSE
  BY <1>1, Zenon DEF Measurement, VisualEstimate, CameraDirection, HasCurve, Known
<1>3. FusedTake(t, row) = Fused(m)
  BY DEF FusedTake
<1> HIDE DEF row, m
<1>4. Contradictions(m) = {}
  BY <1>2 DEF Contradictions, HighConfidencePair, StrongConfidence, Pct
<1>5. LowVisual(m)
  BY <1>2 DEF LowVisual
<1>6. ~SameDirection(m)
  BY <1>2 DEF SameDirection, Directed, Undirected
<1>7. DirectionScore(m) = Pct(50)
  BY <1>2 DEF DirectionScore, Directed, Undirected
<1>8. Present(m) = {"direction"}
  <2>1. /\ AngleError(m) = NoMeasure /\ \A e \in {"start", "end"} : Offset(m, e) = NoMeasure
        /\ DurationScore(m) = NoMeasure /\ CorrelationScore(m) = NoMeasure
    BY <1>2, Zenon DEF AngleError, Offset, DurationScore, CorrelationScore, Known
  <2>2. MagnitudeScore(m) = NoMeasure /\ TimingScore(m) = NoMeasure
    BY <2>1 DEF MagnitudeScore, TimingScore, Known
  <2>3. Pct(50) # NoMeasure
    BY PctType, NoMeasureAssumption
  <2>4. DOMAIN Weights = {"direction", "magnitude", "timing", "correlation", "duration"}
    BY DEF Weights
  <2>5. /\ Components(m)["direction"] = Pct(50) /\ Components(m)["magnitude"] = NoMeasure
        /\ Components(m)["timing"] = NoMeasure /\ Components(m)["correlation"] = NoMeasure
        /\ Components(m)["duration"] = NoMeasure
    BY <1>7, <2>1, <2>2 DEF Components
  <2>6. QED
    BY <2>3, <2>4, <2>5 DEF Present, Known
<1>9. RawScore(m) = Pct(50)
  <2> DEFINE g == [c \in {"direction"} |-> Weights[c] * Components(m)[c]]
  <2>1. IsFiniteSet({"direction"}) /\ {"direction"} \ {"direction"} = {}
    BY FS_Singleton
  <2>2. Weights["direction"] = 25 /\ Components(m)["direction"] = Pct(50)
    BY <1>7 DEF Weights, Components
  <2>3. \A x \in {"direction"} : Weights[x] \in Int
    BY <2>2
  <2>4. SumFunctionOnSet(Weights, {"direction"}) = 25
    <3>1. SumFunctionOnSet(Weights, {"direction"}) = Weights["direction"] + SumFunctionOnSet(Weights, {})
      BY <2>1, <2>3, SumAt
    <3>2. QED
      BY <2>2, <3>1, SumEmpty
  <2>5. g["direction"] = 25 * Pct(50) /\ 25 * Pct(50) \in Int
    BY <2>2, PctType
  <2> HIDE DEF g
  <2>6. SumFunctionOnSet(g, {"direction"}) = 25 * Pct(50)
    <3>1. SumFunctionOnSet(g, {"direction"}) = g["direction"] + SumFunctionOnSet(g, {})
      BY <2>1, <2>5, SumAt
    <3>2. QED
      BY <2>5, <3>1, SumEmpty
  <2>7. RawScore(m) = (25 * Pct(50)) \div 25
    BY <1>8, <2>4, <2>6 DEF RawScore, Coverage, g
  <2>8. \A x \in Int : (25 * x) \div 25 = x
    OBVIOUS
  <2>9. QED
    BY <2>7, <2>8, PctType
<1>10. EffectiveScore(m) = Pct(50) /\ StatusOf(m) = "INCONCLUSIVE"
  BY <1>5, <1>9 DEF EffectiveScore, StatusOf
<1>11. /\ Fused(m).effective = Pct(50) /\ Fused(m).status = "INCONCLUSIVE"
       /\ Fused(m).reasons = QualityReasons(m) \cup MeasureReasons(m)
  BY <1>4, <1>10 DEF Fused
<1>12. Disagreement(Fused(m)) = Clamp(One - Pct(50))
  BY <1>11, PctType, NoMeasureAssumption DEF Disagreement, Known
<1>13. Clamp(One - Pct(50)) <= Pct(55)
  BY DEF Clamp, AtLeast, AtMost, One, Pct
<1>14. Fused(m).reasons \cap StrongContradictions = {}
  BY <1>11 DEF QualityReasons, MeasureReasons, StrongContradictions
<1>15. QED
  BY <1>3, <1>11, <1>12, <1>13, <1>14 DEF Harmless, row

(* A row of the same direction contradicts nothing, however far off it is. *)
LEMMA SeenHarmless ==
    ASSUME NEW t, TakeType(t), FilmedAsMoved(t)
    PROVE  Harmless(FusedTake(t, VideoRow(t, t.outcome)))
<1> DEFINE row == VideoRow(t, t.outcome)
           m == Measurement(t, row)
           moved == SensorDirection(t)
<1>1. t.kind \in ChallengeType
  BY DEF TakeType
<1>2. moved \in {"NONE", "LEFT", "RIGHT", "UP", "DOWN"} /\ (t.kind \in Tilts => moved \in {"NONE", "UP", "DOWN"})
  BY <1>1 DEF SensorDirection, ExpectedDirection, OppositeDirection, Tilts, ChallengeType
<1>3. moved # "NONE" /\ row.direction = IF t.kind \in Tilts THEN OppositeDirection[moved] ELSE moved
  BY DEF FilmedAsMoved
<1>4. m.sensor.direction = moved /\ m.visual.direction = CameraDirection(t, row)
  BY DEF Measurement, SensorEstimate, VisualEstimate
<1>5. FusedTake(t, row) = Fused(m)
  BY DEF FusedTake
<1> HIDE DEF row, m, moved
<1>6. CameraDirection(t, row) = moved
  BY <1>2, <1>3 DEF CameraDirection, OppositeDirection
<1>7. Contradictions(m) = {}
  BY <1>3, <1>4, <1>6 DEF Contradictions, Opposite, Still, StrongContradictions
<1>8. SameDirection(m)
  BY <1>2, <1>3, <1>4, <1>6 DEF SameDirection, Directed, Undirected
<1>9. Fused(m).sameDirection = TRUE
  BY <1>8 DEF Fused
<1>10. Fused(m).reasons = QualityReasons(m) \cup MeasureReasons(m)
  BY <1>7 DEF Fused
<1>11. Fused(m).reasons \cap StrongContradictions = {}
  BY <1>10 DEF QualityReasons, MeasureReasons, StrongContradictions
<1>12. QED
  BY <1>5, <1>9, <1>11 DEF Harmless, row

(* A fusion signal whose rows name no strong contradiction.                *)
LEMMA NoFusionRule ==
    ASSUME NEW signals, NEW c, NEW rows, \A i \in DOMAIN rows : Harmless(rows[i]),
           signals["VISUAL_INERTIAL_CONSISTENCY"] = FusionSignal(c, rows)
    PROVE  "HIGH_CONFIDENCE_FUSION_MISMATCH" \notin {r.code : r \in HardRules(signals)}
<1> DEFINE reasons == UNION {rows[i].reasons : i \in DOMAIN rows}
           s == FusionSignal(c, rows)
<1>1. reasons \cap StrongContradictions = {}
  BY DEF Harmless
<1>2. s.status = "FAIL" => s.metrics.mismatchReasons = reasons
  BY DEF FusionSignal, Signal, Unavailable
<1> HIDE DEF reasons, s
<1>3. ~StrongFusionMismatch(s)
  BY <1>1, <1>2 DEF StrongFusionMismatch, SomeContradiction
<1>4. ~StrongFusionMismatch(signals["VISUAL_INERTIAL_CONSISTENCY"])
  BY <1>3 DEF s
<1>5. QED
  BY <1>4 DEF HardRules, RuleIf, Rule

(* What rows lead to where the camera saw every take move the way the      *)
(* phone did.                                                              *)
AllSeen == \A i \in DOMAIN takes : FilmedAsMoved(takes[i])
NobodyAccused ==
    /\ \A i \in DOMAIN takes : Known(fusion[i]) => Harmless(fusion[i])
    /\ Known(security) => ~(security.replay.mismatch >= Pct(65))
    /\ \A e \in Engines : Completed(e) => "HIGH_CONFIDENCE_FUSION_MISMATCH" \notin result[e].rules
SeenInv ==
    /\ TypeInv
    /\ \A i \in DOMAIN takes : Known(visual[i]) => visual[i] \in RowOf(i)
    /\ AllSeen => NobodyAccused

LEMMA FusedHarmless ==
    ASSUME SeenInv, AllSeen, NotReady = {}, NEW i \in DOMAIN takes
    PROVE  Harmless(FusedTake(takes[i], visual[i]))
<1>1. Known(visual[i])
  BY DEF NotReady, Status
<1>2. TakeType(takes[i]) /\ OutcomeType(takes[i].outcome)
  BY TakesOfState DEF SeenInv, TypeInv
<1>3. visual[i] \in RowOf(i)
  BY <1>1 DEF SeenInv
<1>4. FilmedAsMoved(takes[i])
  BY DEF AllSeen
<1>5. QED
  BY <1>2, <1>3, <1>4, BlankHarmless, SeenHarmless DEF RowOf

LEMMA FusionHarmless ==
    ASSUME SeenInv, AllSeen, FuseTooEarly \/ Fuse \/ FailFusion
    PROVE  \A i \in DOMAIN takes : Known(fusion'[i]) => Harmless(fusion'[i])
<1>1. \A i \in DOMAIN takes : i \in DOMAIN fusion /\ (Known(fusion[i]) => StoredRow(fusion[i]) /\ Harmless(fusion[i]))
  BY DEF SeenInv, TypeInv, NobodyAccused
<1>2. CASE FuseTooEarly
  <2>1. fusion' = Marked(fusion, NotReady, NoFusedRow("PENDING")) /\ Harmless(NoFusedRow("PENDING"))
    BY <1>2, NoFusedRowHarmless DEF FuseTooEarly
  <2>2. QED
    BY <1>1, <2>1, MarkedFacts
<1>3. CASE Fuse
  BY <1>3, FusedHarmless DEF Fuse
<1>4. CASE FailFusion
  <2>1. PICK k \in 0 .. Len(takes) :
          fusion' = [i \in DOMAIN takes |->
              IF i < k THEN FusedTake(takes[i], visual[i])
              ELSE IF Complete(i) /\ i # k THEN fusion[i] ELSE Broken(fusion[i])]
    BY <1>4 DEF FailFusion
  <2>2. NotReady = {}
    BY <1>4 DEF FailFusion
  <2>3. ASSUME NEW i \in DOMAIN takes PROVE Harmless(fusion'[i])
    <3>1. Harmless(FusedTake(takes[i], visual[i])) /\ Harmless(Broken(fusion[i]))
      BY <1>1, <2>2, FusedHarmless, BrokenHarmless
    <3>2. Complete(i) => Harmless(fusion[i])
      BY <1>1 DEF Complete
    <3>3. fusion'[i] = IF i < k THEN FusedTake(takes[i], visual[i])
                       ELSE IF Complete(i) /\ i # k THEN fusion[i] ELSE Broken(fusion[i])
      BY <2>1
    <3>4. QED
      BY <3>1, <3>2, <3>3
  <2>4. QED
    BY <2>3
<1>5. QED
  BY <1>2, <1>3, <1>4

LEMMA StoredHarmless ==
    ASSUME SeenInv, AllSeen
    PROVE  \A i \in DOMAIN Stored(fusion) : FusedRowType(Stored(fusion)[i]) /\ Harmless(Stored(fusion)[i])
<1>1. \A i \in DOMAIN Stored(fusion) : i \in DOMAIN takes /\ Known(fusion[i]) /\ Stored(fusion)[i] = fusion[i]
  BY StoredFacts, ZenonT(30) DEF SeenInv, TypeInv
<1>2. \A i \in DOMAIN takes : Known(fusion[i]) => FusedRowType(fusion[i]) /\ Harmless(fusion[i])
  BY DEF SeenInv, TypeInv, NobodyAccused, StoredRow
<1>3. QED
  BY <1>1, <1>2

LEMMA NobodyNext ==
    ASSUME SeenInv, AllSeen, [Next]_vars
    PROVE  NobodyAccused'
<1> DEFINE code == "HIGH_CONFIDENCE_FUSION_MISMATCH"
<1>1. takes' = takes
  BY RowsOfStep DEF SeenInv, RowsInv
<1>2. \A i \in DOMAIN takes : Known(fusion'[i]) => Harmless(fusion'[i])
  <2>1. \A i \in DOMAIN takes : Known(fusion[i]) => Harmless(fusion[i])
    BY DEF SeenInv, NobodyAccused
  <2>2. CASE FuseTooEarly \/ Fuse \/ FailFusion
    BY <2>2, FusionHarmless
  <2>3. CASE UNCHANGED fusion
    BY <2>1, <2>3
  <2>4. QED
    BY <2>2, <2>3 DEF Next, vars, BeginVisual, AnalyseTake, FailVisual, Assess, StoreSignals, Wait, Decide
<1>3. Known(security') => ~(security'.replay.mismatch >= Pct(65))
  <2>1. CASE Assess
    <3>1. security'.replay.mismatch = MotionMismatch(Stored(fusion))
      BY <2>1 DEF Assess, Assessed, ReplayRisk
    <3>2. ~(MotionMismatch(Stored(fusion)) >= Pct(65))
      BY StoredHarmless, HarmlessMismatch
    <3>3. QED
      BY <3>1, <3>2
  <2>2. CASE UNCHANGED security
    BY <2>2 DEF SeenInv, NobodyAccused
  <2>3. QED
    BY <2>1, <2>2 DEF Next, vars, BeginVisual, AnalyseTake, FailVisual, FuseTooEarly, Fuse, FailFusion,
                      StoreSignals, Wait, Decide
<1>4. ASSUME NEW e \in Engines, Completed(e)' PROVE code \notin result'[e].rules
  <2>1. CASE result'[e] = result[e]
    BY <1>4, <2>1 DEF SeenInv, NobodyAccused, Completed
  <2>2. CASE result'[e] # result[e] /\ Wait
    <3>1. result'[e] = Waiting
      BY <2>2 DEF Wait, SeenInv, TypeInv
    <3>2. QED
      BY <1>4, <3>1 DEF Completed, Waiting
  <2>3. CASE result'[e] # result[e] /\ Decide
    <3> DEFINE made == Decision(Evidence, Engine)
    <3>1. result' = [result EXCEPT ![Engine] = made]
      BY <2>3 DEF Decide
    <3>2. made.rules = {r.code : r \in HardRules(Evidence)}
      BY DEF Decision
    <3> HIDE DEF made
    <3>3. result'[e] = made
      BY <2>3, <3>1 DEF SeenInv, TypeInv
    <3>4. Evidence["VISUAL_INERTIAL_CONSISTENCY"] = FusionSignal(capture, Stored(fusion))
      BY DEF Evidence, SignalsOf
    <3>5. code \notin {r.code : r \in HardRules(Evidence)}
      BY <3>4, StoredHarmless, NoFusionRule
    <3>6. QED
      BY <3>2, <3>3, <3>5
  <2>4. QED
    BY <2>1, <2>2, <2>3
       DEF Next, vars, BeginVisual, AnalyseTake, FailVisual, FuseTooEarly, Fuse, FailFusion, Assess, StoreSignals
<1>5. QED
  BY <1>1, <1>2, <1>3, <1>4 DEF NobodyAccused

LEMMA SeenInit == Init => SeenInv
<1> SUFFICES ASSUME Init PROVE SeenInv
  OBVIOUS
<1>1. \A i \in DOMAIN takes : ~Known(visual[i]) /\ ~Known(fusion[i])
  BY DEF Init, Known
<1>2. ~Known(security) /\ \A e \in Engines : ~Completed(e)
  BY DEF Init, Known, Completed, NoResult
<1>3. QED
  BY <1>1, <1>2, TypeInit DEF SeenInv, NobodyAccused

LEMMA SeenNext == SeenInv /\ [Next]_vars => SeenInv'
<1> SUFFICES ASSUME SeenInv, [Next]_vars PROVE SeenInv'
  OBVIOUS
<1>1. TypeInv'
  BY TypeNext DEF SeenInv
<1>2. takes' = takes /\ \A i \in DOMAIN takes : Known(visual'[i]) => visual'[i] \in RowOf(i)
  BY RowsOfStep DEF SeenInv, RowsInv
<1>3. AllSeen' => AllSeen /\ NobodyAccused'
  BY <1>2, NobodyNext DEF AllSeen
<1>4. \A i : RowOf(i)' = RowOf(i)
  BY <1>2 DEF RowOf
<1>5. QED
  BY <1>1, <1>2, <1>3, <1>4 DEF SeenInv

(* Nobody whose camera saw every take move the way the phone did is accused*)
(* of a motion mismatch, by the fusion's hard rule or by the replay        *)
(* analysis, in whichever order the rows were written or broke off         *)
(* (advanced_security_service.py:90-95).                                   *)
THEOREM SameDirectionNeverAccused == Spec => []SameDirectionNotAccused
<1>1. SeenInv => SameDirectionNotAccused
  BY DEF SeenInv, AllSeen, NobodyAccused, SameDirectionNotAccused, MotionAccused
<1>2. QED
  BY <1>1, SeenInit, SeenNext, PTL DEF Spec

-----------------------------------------------------------------------------
(* Weaker evidence verifies nothing.                                       *)
NoBetter(x, s) ==
    /\ x.status = "UNAVAILABLE" <=> s.status = "UNAVAILABLE"
    /\ s.status = "INCONCLUSIVE" => x.status = "INCONCLUSIVE"
    /\ x.score <= s.score /\ x.confidence <= s.confidence

LEMMA DivMonotone ==
    ASSUME NEW a \in Int, NEW b \in Int, NEW w \in Nat \ {0}, a <= b
    PROVE  a \div w <= b \div w
<1> DEFINE p == a \div w
           q == b \div w
<1>1. p \in Int /\ q \in Int /\ w * p <= a /\ b < w * (q + 1)
  OBVIOUS
<1> HIDE DEF p, q
<1>2. w * p < w * (q + 1)
  <2> DEFINE x == w * p
             y == w * (q + 1)
  <2>1. x \in Int /\ y \in Int /\ x <= a /\ b < y
    BY <1>1
  <2> HIDE DEF x, y
  <2>2. x < y
    BY <2>1
  <2>3. QED
    BY <2>2 DEF x, y
<1>3. p < q + 1
  BY <1>1, <1>2
<1>4. p <= q
  BY <1>1, <1>3
<1>5. QED
  BY <1>4 DEF p, q

LEMMA ProductMonotone ==
    ASSUME NEW w \in Nat, NEW a \in Int, NEW b \in Int, a <= b
    PROVE  w * a <= w * b /\ w * a \in Int /\ w * b \in Int
OBVIOUS

(* The score and the confidence of signals grow with each of them.         *)
LEMMA WeightedMonotone ==
    ASSUME NEW x, NEW s, NEW S, S \subseteq SignalType,
           \A k \in SignalType : x[k] \in Int /\ s[k] \in Int /\ x[k] <= s[k]
    PROVE  LET f == [k \in SignalType |-> Policy.weights[k] * x[k]]
               g == [k \in SignalType |-> Policy.weights[k] * s[k]]
           IN  /\ SumFunctionOnSet(f, S) \in Int /\ SumFunctionOnSet(g, S) \in Int
               /\ SumFunctionOnSet(f, S) <= SumFunctionOnSet(g, S)
<1> DEFINE f == [k \in SignalType |-> Policy.weights[k] * x[k]]
           g == [k \in SignalType |-> Policy.weights[k] * s[k]]
<1>1. \A k \in S : f[k] \in Int /\ g[k] \in Int /\ f[k] <= g[k]
  <2> SUFFICES ASSUME NEW k \in S PROVE f[k] \in Int /\ g[k] \in Int /\ f[k] <= g[k]
    OBVIOUS
  <2> DEFINE w == Policy.weights[k]
             a == x[k]
             b == s[k]
  <2>1. w \in Nat /\ a \in Int /\ b \in Int /\ a <= b /\ f[k] = w * a /\ g[k] = w * b
    BY PolicyAssumption
  <2> HIDE DEF w, a, b, f, g
  <2>2. QED
    BY <2>1, ProductMonotone
<1>2. IsFiniteSet(S)
  BY SignalTypeFinite, FS_Subset
<1> HIDE DEF f, g
<1>3. /\ SumFunctionOnSet(f, S) \in Int /\ SumFunctionOnSet(g, S) \in Int
      /\ SumFunctionOnSet(f, S) <= SumFunctionOnSet(g, S)
  BY <1>1, <1>2, SumMonotone, SumType
<1>4. QED
  BY <1>3 DEF f, g

LEMMA NoBetterVerdict ==
    ASSUME NEW x, NEW s, SignalsOK(x), SignalsOK(s), \A k \in SignalType : NoBetter(x[k], s[k]),
           HardRules(s) \subseteq HardRules(x), Resolved(x) = "VERIFIED"
    PROVE  Resolved(s) = "VERIFIED"
<1> DEFINE S == Available(s)
           aw == AvailableWeight(s)
           v == Policy.verified
<1>1. Available(x) = S /\ AvailableWeight(x) = aw
  <2>1. \A k \in SignalType : x[k].available <=> s[k].available
    BY DEF NoBetter, SignalsOK, SignalOK
  <2>2. Available(x) = S
    BY <2>1 DEF Available
  <2>3. QED
    BY <2>2 DEF AvailableWeight
<1>2. S \subseteq SignalType
  BY DEF Available
<1>3. \A k \in SignalType : /\ x[k].score \in Int /\ s[k].score \in Int /\ x[k].score <= s[k].score
                            /\ x[k].confidence \in Int /\ s[k].confidence \in Int
                            /\ x[k].confidence <= s[k].confidence
  BY ScoreRange DEF NoBetter, SignalsOK, SignalOK
<1> DEFINE xs == [k \in SignalType |-> x[k].score]
           ss == [k \in SignalType |-> s[k].score]
           xc == [k \in SignalType |-> x[k].confidence]
           sc == [k \in SignalType |-> s[k].confidence]
           Total(f) == SumFunctionOnSet([k \in SignalType |-> Policy.weights[k] * f[k]], S)
<1>4. /\ Worth(x) = Total(xs) /\ Worth(s) = Total(ss)
      /\ Weighted(x, LAMBDA y : y.confidence) = Total(xc)
      /\ Weighted(s, LAMBDA y : y.confidence) = Total(sc)
  <2>1. /\ [k \in SignalType |-> Policy.weights[k] * x[k].score]
             = [k \in SignalType |-> Policy.weights[k] * xs[k]]
        /\ [k \in SignalType |-> Policy.weights[k] * s[k].score]
             = [k \in SignalType |-> Policy.weights[k] * ss[k]]
        /\ [k \in SignalType |-> Policy.weights[k] * x[k].confidence]
             = [k \in SignalType |-> Policy.weights[k] * xc[k]]
        /\ [k \in SignalType |-> Policy.weights[k] * s[k].confidence]
             = [k \in SignalType |-> Policy.weights[k] * sc[k]]
    OBVIOUS
  <2>2. QED
    BY <1>1, <2>1 DEF Worth, Weighted
<1>5. /\ \A k \in SignalType : xs[k] \in Int /\ ss[k] \in Int /\ xs[k] <= ss[k]
      /\ \A k \in SignalType : xc[k] \in Int /\ sc[k] \in Int /\ xc[k] <= sc[k]
  BY <1>3
<1> HIDE DEF xs, ss, xc, sc, S
<1>6. Worth(x) \in Int /\ Worth(s) \in Int /\ Worth(x) <= Worth(s)
  BY <1>2, <1>4, <1>5, WeightedMonotone
<1>7. Total(xc) \in Int /\ Total(sc) \in Int /\ Total(xc) <= Total(sc)
  BY <1>2, <1>5, WeightedMonotone
<1>8. MissingRequired(x) = {} /\ HardRules(x) = {} /\ BaseVerdict(x) = "VERIFIED"
  BY DEF Resolved, Constrained
<1>9. Reaches(x, v) /\ ~(OverallConfidence(x) < Policy.minimum)
  BY <1>8 DEF BaseVerdict
<1>10. aw \in Nat /\ v \in 1 .. 100 /\ aw > 0
  <2>1. aw \in Nat
    BY WorthType
  <2>2. v \in 1 .. 100
    BY PolicyAssumption
  <2>3. QED
    BY <1>1, <1>9, <2>1, <2>2 DEF Reaches
<1>11. Reaches(s, v)
  <2> DEFINE a == Worth(x)
             b == Worth(s)
             bound == v * aw * One
  <2>1. a * 100 >= bound
    BY <1>1, <1>9 DEF Reaches
  <2>2. a \in Int /\ b \in Int /\ a <= b /\ bound \in Int
    <3> HIDE DEF v, aw
    <3>1. v * aw \in Nat
      BY <1>10
    <3>2. \A n \in Nat : n * One \in Int
      BY ScoreOps
    <3>3. QED
      BY <1>6, <3>1, <3>2
  <2> HIDE DEF a, b, bound
  <2>3. b * 100 >= bound
    BY <2>1, <2>2
  <2>4. QED
    BY <1>10, <2>3 DEF Reaches, b, bound
<1>12. ~(OverallConfidence(s) < Policy.minimum)
  <2> DEFINE a == OverallConfidence(x)
             b == OverallConfidence(s)
  <2>1. a = Total(xc) \div aw /\ b = Total(sc) \div aw
    BY <1>1, <1>4, <1>10 DEF OverallConfidence
  <2> HIDE DEF Total, aw, a, b
  <2>2. a <= b /\ a \in Int /\ b \in Int
    BY <1>7, <1>10, <2>1, DivMonotone, DivType
  <2>3. Policy.minimum \in Int
    BY PolicyAssumption, ScoreRange
  <2>4. QED
    BY <1>9, <2>2, <2>3 DEF a, b
<1>13. MissingRequired(s) = {}
  BY <1>8, PolicyAssumption DEF MissingRequired, NoBetter
<1>14. HardRules(s) = {}
  BY <1>8
<1>15. BaseVerdict(s) = "VERIFIED"
  BY <1>11, <1>12 DEF BaseVerdict
<1>16. QED
  BY <1>13, <1>14, <1>15 DEF Resolved, Constrained, Flags

LEMMA SameNoBetter == ASSUME NEW s, SignalOK(s) PROVE NoBetter(s, s)
<1>1. s.score \in Int /\ s.confidence \in Int
  BY ScoreRange DEF SignalOK
<1>2. QED
  BY <1>1 DEF NoBetter

LEMMA RulesGrow ==
    ASSUME NEW x, NEW s,
           StrongFusionMismatch(s["VISUAL_INERTIAL_CONSISTENCY"])
             => StrongFusionMismatch(x["VISUAL_INERTIAL_CONSISTENCY"]),
           ClearWrongLocation(s["LOCATION"]) => ClearWrongLocation(x["LOCATION"]),
           MultipleChallengeFailures(s["CHALLENGE_COMPLETION"])
             => MultipleChallengeFailures(x["CHALLENGE_COMPLETION"]),
           MajorSceneDiscontinuity(s["SCENE_CONTINUITY"]) => MajorSceneDiscontinuity(x["SCENE_CONTINUITY"])
    PROVE  HardRules(s) \subseteq HardRules(x)
BY DEF HardRules, RuleIf

LEMMA PartMonotone ==
    ASSUME NEW p \in Nat, NEW x \in Int, NEW y \in Int, x <= y
    PROVE  Part(p, x) <= Part(p, y)
<1>1. p * x <= p * y /\ p * x \in Int /\ p * y \in Int
  BY ProductMonotone
<1>2. QED
  BY <1>1, DivMonotone DEF Part

LEMMA ClampMonotone == \A x, y \in Int : x <= y => Clamp(x) <= Clamp(y)
<1>1. One \in Nat
  BY ScoreOps
<1>2. QED
  BY <1>1 DEF Clamp, AtLeast, AtMost

(* A row that is not understood keeps everything but its status.           *)
LEMMA RowChanged ==
    ASSUME NEW rows, NEW i \in DOMAIN rows, DOMAIN rows[i] = RowFields,
           NEW changed, changed = [rows EXCEPT ![i].status = "INCONCLUSIVE"]
    PROVE  /\ DOMAIN changed = DOMAIN rows /\ changed[i].status = "INCONCLUSIVE"
           /\ \A j \in DOMAIN rows : j # i => changed[j] = rows[j]
           /\ \A j \in DOMAIN rows :
                /\ changed[j].confidence = rows[j].confidence /\ changed[j].continuity = rows[j].continuity
                /\ changed[j].duplicate = rows[j].duplicate /\ changed[j].invalid = rows[j].invalid
                /\ changed[j].freeze = rows[j].freeze /\ changed[j].angle = rows[j].angle
                /\ changed[j].start = rows[j].start /\ changed[j].end = rows[j].end
<1> DEFINE row == [rows[i] EXCEPT !.status = "INCONCLUSIVE"]
<1>1. /\ row.status = "INCONCLUSIVE"
      /\ row.confidence = rows[i].confidence /\ row.continuity = rows[i].continuity
      /\ row.duplicate = rows[i].duplicate /\ row.invalid = rows[i].invalid
      /\ row.freeze = rows[i].freeze /\ row.angle = rows[i].angle
      /\ row.start = rows[i].start /\ row.end = rows[i].end
  BY DEF RowFields
<1>2. changed = [rows EXCEPT ![i] = row]
  OBVIOUS
<1> HIDE DEF row
<1>3. DOMAIN changed = DOMAIN rows /\ changed[i] = row /\ \A j \in DOMAIN rows : j # i => changed[j] = rows[j]
  BY <1>2
<1>4. QED
  BY <1>1, <1>3

LEMMA RowWeaker ==
    ASSUME NEW c, NEW rows, RowsType(rows), NEW i \in DOMAIN rows, DOMAIN rows[i] = RowFields,
           \A j \in DOMAIN rows : rows[j].status # "PROCESSING",
           NEW changed, changed = [rows EXCEPT ![i].status = "INCONCLUSIVE"]
    PROVE  /\ RowsType(changed) /\ SceneSignal(changed) = SceneSignal(rows)
           /\ NoBetter(MotionSignal(c, changed), MotionSignal(c, rows))
<1>1. /\ DOMAIN changed = DOMAIN rows /\ changed[i].status = "INCONCLUSIVE"
      /\ \A j \in DOMAIN rows : j # i => changed[j] = rows[j]
      /\ \A j \in DOMAIN rows :
            /\ changed[j].confidence = rows[j].confidence /\ changed[j].continuity = rows[j].continuity
            /\ changed[j].duplicate = rows[j].duplicate /\ changed[j].invalid = rows[j].invalid
            /\ changed[j].freeze = rows[j].freeze /\ changed[j].angle = rows[j].angle
            /\ changed[j].start = rows[j].start /\ changed[j].end = rows[j].end
  BY RowChanged
<1>2. RowsType(changed)
  <2>1. \A j \in DOMAIN rows : changed[j].status \in VisualStatus
    BY <1>1 DEF RowsType, RowType, VisualStatus
  <2>2. QED
    BY <1>1, <2>1 DEF RowsType, RowType
<1>3. /\ [j \in DOMAIN changed |-> changed[j].confidence] = [j \in DOMAIN rows |-> rows[j].confidence]
      /\ [j \in DOMAIN changed |-> changed[j].continuity] = [j \in DOMAIN rows |-> rows[j].continuity]
      /\ [j \in DOMAIN changed |-> changed[j].duplicate] = [j \in DOMAIN rows |-> rows[j].duplicate]
      /\ [j \in DOMAIN changed |-> changed[j].invalid] = [j \in DOMAIN rows |-> rows[j].invalid]
      /\ [j \in DOMAIN changed |-> changed[j].freeze] = [j \in DOMAIN rows |-> rows[j].freeze]
  BY <1>1
<1>4. /\ MeanOf(changed, LAMBDA r : r.confidence) = MeanOf(rows, LAMBDA r : r.confidence)
      /\ MeanOf(changed, LAMBDA r : r.continuity) = MeanOf(rows, LAMBDA r : r.continuity)
      /\ MostOf(changed, LAMBDA r : r.duplicate) = MostOf(rows, LAMBDA r : r.duplicate)
      /\ MostOf(changed, LAMBDA r : r.invalid) = MostOf(rows, LAMBDA r : r.invalid)
      /\ MostOf(changed, LAMBDA r : r.freeze) = MostOf(rows, LAMBDA r : r.freeze)
  BY <1>3 DEF MeanOf, MostOf
<1>5. SceneSignal(changed) = SceneSignal(rows)
  <2> DEFINE Scene(continuity, duplicate, invalid, freeze, sure) ==
               LET major == continuity < Pct(40) \/ freeze >= 2000 \/ duplicate >= Pct(50)
                   score == Clamp(Part(70, continuity) + Part(15, One - duplicate) + Part(15, One - invalid))
               IN  Signal(IF major THEN "FAIL" ELSE StatusOfScore(score), score, sure, [majorDiscontinuity |-> major])
             SceneOf(r) == Scene(MeanOf(r, LAMBDA y : y.continuity), MostOf(r, LAMBDA y : y.duplicate),
                                 MostOf(r, LAMBDA y : y.invalid), MostOf(r, LAMBDA y : y.freeze),
                                 MeanOf(r, LAMBDA y : y.confidence))
  <2>1. \A r : SceneSignal(r) = IF DOMAIN r = {} THEN Unavailable ELSE SceneOf(r)
    BY DEF SceneSignal
  <2> HIDE DEF Scene
  <2>2. SceneOf(changed) = SceneOf(rows)
    BY <1>4
  <2> HIDE DEF SceneOf
  <2>3. QED
    BY <1>1, <2>1, <2>2
<1> DEFINE all == DOMAIN rows
           sure == MeanOf(rows, LAMBDA r : r.confidence)
           done == {j \in DOMAIN rows : rows[j].status = "SUCCESS"}
           left == {j \in DOMAIN changed : changed[j].status = "SUCCESS"}
           n == Cardinality(done)
           m == Cardinality(left)
           Score_(k) == Clamp(Part(65, (k * One) \div Cardinality(all)) + Part(35, sure))
           Status_(k) == IF k = 0 THEN "INCONCLUSIVE" ELSE StatusOfScore(Score_(k))
<1>6. ~(all = {} \/ Cardinality(all) < Len(c.takes)) =>
        /\ MotionSignal(c, rows) = Signal(Status_(n), Score_(n), sure, NoMetrics)
        /\ MotionSignal(c, changed) = Signal(Status_(m), Score_(m), sure, NoMetrics)
  <2>1. \A j \in DOMAIN changed : changed[j].status # "PROCESSING"
    BY <1>1
  <2>2. MotionSignal(c, rows) =
          IF DOMAIN rows = {} \/ Cardinality(DOMAIN rows) < Len(c.takes) THEN Unavailable
          ELSE IF \E j \in DOMAIN rows : rows[j].status = "PROCESSING"
          THEN Signal("INCONCLUSIVE", 0, 0, NoMetrics)
          ELSE Signal(Status_(n), Score_(n), sure, NoMetrics)
    BY DEF MotionSignal, Count
  <2>3. MotionSignal(c, changed) =
          IF DOMAIN changed = {} \/ Cardinality(DOMAIN changed) < Len(c.takes) THEN Unavailable
          ELSE IF \E j \in DOMAIN changed : changed[j].status = "PROCESSING"
          THEN Signal("INCONCLUSIVE", 0, 0, NoMetrics)
          ELSE Signal(Status_(m), Score_(m), sure, NoMetrics)
    BY <1>1, <1>4 DEF MotionSignal, Count
  <2> HIDE DEF Status_, Score_, sure, n, m
  <2>4. QED
    BY <1>1, <2>1, <2>2, <2>3
<1>7. all = {} \/ Cardinality(all) < Len(c.takes) =>
        MotionSignal(c, rows) = Unavailable /\ MotionSignal(c, changed) = Unavailable
  BY <1>1 DEF MotionSignal
<1>8. n \in Nat /\ m \in Nat /\ m <= n /\ Cardinality(all) \in Nat \ {0}
  <2>1. IsFiniteSet(all) /\ all # {}
    BY DEF RowsType
  <2>2. done \in SUBSET all /\ left \in SUBSET done
    BY <1>1
  <2> HIDE DEF done, left, all
  <2>3. IsFiniteSet(done) /\ m <= n
    BY <2>1, <2>2, FS_Subset
  <2>4. IsFiniteSet(left)
    BY <2>2, <2>3, FS_Subset
  <2>5. n \in Nat /\ m \in Nat /\ Cardinality(all) \in Nat
    BY <2>1, <2>3, <2>4, FS_CardinalityType
  <2>6. Cardinality(all) # 0
    BY <2>1, FS_EmptySet
  <2>7. QED
    BY <2>3, <2>5, <2>6
<1>9. sure \in Score
  BY RowMeans
<1>10. Score_(m) <= Score_(n)
  <2> DEFINE a == (m * One) \div Cardinality(all)
             b == (n * One) \div Cardinality(all)
             p == 65
             q == 35
  <2>1. a \in Int /\ b \in Int /\ a <= b
    <3> HIDE DEF m, n, all
    <3>1. m * One \in Int /\ n * One \in Int /\ m * One <= n * One
      <4>1. One \in Nat
        BY ScoreOps
      <4>2. One * m <= One * n /\ One * m = m * One /\ One * n = n * One
        BY <1>8, <4>1
      <4>3. QED
        BY <1>8, <4>1, <4>2
    <3>2. QED
      BY <1>8, <3>1, DivMonotone, DivType
  <2>2. p \in Nat /\ q \in Nat /\ sure \in Int
    BY <1>9, ScoreRange
  <2> HIDE DEF a, b, p, q, sure
  <2>3. Part(p, a) <= Part(p, b) /\ Part(p, a) \in Int /\ Part(p, b) \in Int /\ Part(q, sure) \in Int
    BY <2>1, <2>2, PartMonotone, PartType
  <2>4. Clamp(Part(p, a) + Part(q, sure)) <= Clamp(Part(p, b) + Part(q, sure))
    <3> DEFINE x == Part(p, a) + Part(q, sure)
               y == Part(p, b) + Part(q, sure)
    <3>1. x \in Int /\ y \in Int /\ x <= y
      BY <2>3
    <3> HIDE DEF x, y
    <3>2. Clamp(x) <= Clamp(y)
      BY <3>1, ClampMonotone
    <3>3. QED
      BY <3>2 DEF x, y
  <2>5. QED
    BY <2>4 DEF a, b, p, q
<1>11. /\ Status_(m) # "UNAVAILABLE" /\ Status_(n) # "UNAVAILABLE"
       /\ Status_(n) = "INCONCLUSIVE" => Status_(m) = "INCONCLUSIVE"
  <2>1. \A k : StatusOfScore(Score_(k)) \notin {"UNAVAILABLE", "INCONCLUSIVE"}
    BY DEF StatusOfScore
  <2> HIDE DEF Score_, m, n
  <2>2. QED
    BY <1>8, <2>1
<1>12. sure \in Int
  BY <1>9, ScoreRange
<1> HIDE DEF Status_, Score_, sure, m, n, all
<1>13. NoBetter(Signal(Status_(m), Score_(m), sure, NoMetrics), Signal(Status_(n), Score_(n), sure, NoMetrics))
  BY <1>10, <1>11, <1>12 DEF NoBetter, Signal
<1>14. NoBetter(Unavailable, Unavailable)
  BY SameNoBetter, UnavailableType
<1>15. NoBetter(MotionSignal(c, changed), MotionSignal(c, rows))
  BY <1>6, <1>7, <1>13, <1>14
<1>16. QED
  BY <1>2, <1>5, <1>15

(* A fix farther away scores no more, unless it is clearly off the site.   *)
LEMMA FartherWeaker ==
    ASSUME NEW c, NEW d, NEW l \in LocationOf, NEW k \in LocationOf, c.location = l, d.location = k,
           k.accuracy = l.accuracy, k.radius = l.radius, l.distance <= k.distance,
           ~ClearWrongLocation(LocationSignal(d))
    PROVE  /\ NoBetter(LocationSignal(d), LocationSignal(c))
           /\ ~ClearWrongLocation(LocationSignal(c))
<1>1. Known(l) /\ Known(k)
  BY NoPlaceAssumption DEF Known
<1>2. /\ l.distance \in Nat /\ k.distance \in Nat /\ l.accuracy \in Nat /\ l.radius \in Nat \ {0}
      /\ k.accuracy \in Nat /\ k.radius \in Nat \ {0}
  BY DEF LocationOf
<1> DEFINE sure == LocationConfidence(l)
           Near(p) == AtLeast(Pct(85), One - (Pct(15) * p.distance) \div l.radius)
           Out(p) == [clearlyOutside |-> ClearlyOutside(p)]
           Seen(p) ==
               IF UnusableAccuracy(l) THEN Signal("INCONCLUSIVE", Pct(50), AtMost(sure, Pct(35)), Out(p))
               ELSE IF ClearlyOutside(p) THEN Signal("FAIL", 0, AtLeast(Pct(80), sure), Out(p))
               ELSE IF Borderline(p) THEN Signal("PARTIAL", Pct(65), AtLeast(Pct(50), sure), Out(p))
               ELSE Signal("PASS", Near(p), AtLeast(Pct(50), sure), Out(p))
<1>3. LocationSignal(c) = Seen(l) /\ LocationSignal(d) = Seen(k)
  <2>1. LocationConfidence(k) = sure /\ (UnusableAccuracy(k) <=> UnusableAccuracy(l))
    BY DEF LocationConfidence, UnusableAccuracy
  <2>2. LocationSignal(c) = Seen(l)
    BY <1>1 DEF LocationSignal
  <2> HIDE DEF Out
  <2>3. LocationSignal(d) =
          IF UnusableAccuracy(k) THEN Signal("INCONCLUSIVE", Pct(50), AtMost(LocationConfidence(k), Pct(35)), Out(k))
          ELSE IF ClearlyOutside(k) THEN Signal("FAIL", 0, AtLeast(Pct(80), LocationConfidence(k)), Out(k))
          ELSE IF Borderline(k) THEN Signal("PARTIAL", Pct(65), AtLeast(Pct(50), LocationConfidence(k)), Out(k))
          ELSE Signal("PASS", Near(k), AtLeast(Pct(50), LocationConfidence(k)), Out(k))
    BY <1>1 DEF LocationSignal, Out
  <2>4. QED
    BY <2>1, <2>2, <2>3
<1>4. sure \in Score
  BY LocationConfidenceType
<1>5. /\ AtMost(sure, Pct(35)) \in Int /\ AtLeast(Pct(50), sure) \in Int
      /\ Pct(50) \in Int /\ Pct(65) \in Int /\ Pct(65) <= Pct(85) /\ Pct(85) \in Int
  <2>1. sure \in Int /\ Pct(35) \in Int /\ Pct(50) \in Int
    BY <1>4, ScoreRange, PctType
  <2>2. AtMost(sure, Pct(35)) \in Int /\ AtLeast(Pct(50), sure) \in Int
    BY <2>1, ExtremeInt
  <2>3. Pct(65) <= Pct(85) /\ Pct(65) \in Int /\ Pct(85) \in Int
    BY DEF Pct
  <2>4. QED
    BY <2>1, <2>2, <2>3
<1>6. Near(l) \in Int /\ Near(k) \in Int /\ Near(k) <= Near(l) /\ Pct(65) <= Near(l)
  <2> DEFINE r == l.radius
             w == Pct(15)
             a == w * l.distance
             b == w * k.distance
             x == a \div r
             y == b \div r
  <2>1. w \in Nat
    BY DEF Pct
  <2> HIDE DEF w
  <2>2. a \in Int /\ b \in Int /\ a <= b
    BY <1>2, <2>1, ProductMonotone
  <2> HIDE DEF a, b, r
  <2>3. x \in Int /\ y \in Int /\ x <= y
    BY <1>2, <2>2, DivMonotone, DivType DEF r
  <2> HIDE DEF x, y
  <2>4. One - x \in Int /\ One - y \in Int /\ One - y <= One - x
    BY <2>3, ScoreOps
  <2>5. \A p, q, n \in Int : p <= q => AtLeast(n, p) <= AtLeast(n, q) /\ n <= AtLeast(n, q)
                                       /\ AtLeast(n, p) \in Int /\ AtLeast(n, q) \in Int
    BY DEF AtLeast
  <2> DEFINE e == AtLeast(Pct(85), One - y)
             f == AtLeast(Pct(85), One - x)
  <2>6. e \in Int /\ f \in Int /\ e <= f /\ Pct(85) <= f
    BY <1>5, <2>4, <2>5
  <2> HIDE DEF e, f
  <2>7. Pct(65) <= f
    BY <1>5, <2>6
  <2>8. Near(l) = f /\ Near(k) = e
    BY DEF e, f, x, y, a, b, r, w
  <2>9. QED
    BY <2>6, <2>7, <2>8
<1> HIDE DEF sure, Near, Out
<1>7. CASE UnusableAccuracy(l)
  <2>1. LocationSignal(c).status = "INCONCLUSIVE"
    BY <1>3, <1>7 DEF Signal
  <2>2. QED
    BY <1>3, <1>5, <1>7, <2>1 DEF NoBetter, Signal, ClearWrongLocation
<1>8. CASE ~UnusableAccuracy(l)
  <2>1. ~ClearlyOutside(k)
    <3>1. ~UnusableAccuracy(k)
      BY <1>8 DEF UnusableAccuracy
    <3>2. QED
      BY <1>1, <1>2, <3>1, OutsideIsSure
  <2>2. ~ClearlyOutside(l) /\ (Borderline(l) => Borderline(k))
    BY <1>2, <2>1 DEF ClearlyOutside, Borderline
  <2>3. CASE Borderline(l)
    BY <1>3, <1>5, <1>8, <2>1, <2>2, <2>3 DEF NoBetter, Signal, ClearWrongLocation
  <2>4. CASE ~Borderline(l) /\ Borderline(k)
    BY <1>3, <1>5, <1>6, <1>8, <2>1, <2>2, <2>4 DEF NoBetter, Signal, ClearWrongLocation
  <2>5. CASE ~Borderline(l) /\ ~Borderline(k)
    BY <1>3, <1>5, <1>6, <1>8, <2>1, <2>2, <2>5 DEF NoBetter, Signal, ClearWrongLocation
  <2>6. QED
    BY <2>3, <2>4, <2>5
<1>9. QED
  BY <1>7, <1>8

(* A challenge judged worse.                                               *)
LEMMA MeanMonotone ==
    ASSUME NEW f, NEW g, DOMAIN f = DOMAIN g, IsFiniteSet(DOMAIN g), DOMAIN g # {},
           \A i \in DOMAIN g : f[i] \in Int /\ g[i] \in Int /\ f[i] <= g[i]
    PROVE  Mean(f) <= Mean(g)
<1> DEFINE S == DOMAIN g
           a == SumFunctionOnSet(f, S)
           b == SumFunctionOnSet(g, S)
           n == Cardinality(S)
<1>1. Mean(f) = a \div n /\ Mean(g) = b \div n
  BY DEF Mean, SumFunction
<1>2. a \in Int /\ b \in Int /\ a <= b
  BY SumMonotone, SumType
<1>3. n \in Nat \ {0}
  BY FS_CardinalityType, FS_EmptySet
<1> HIDE DEF a, b, n
<1>4. QED
  BY <1>1, <1>2, <1>3, DivMonotone

NoBetterTake(d, t) ==
    /\ d.outcome.score = t.outcome.score /\ d.outcome.sensorScore = t.outcome.sensorScore
    /\ d.outcome.gyroGood = t.outcome.gyroGood
    /\ PassedTake(d) => PassedTake(t)
    /\ FailedTake(t) => FailedTake(d)

LEMMA ContributesLess ==
    ASSUME NEW t, NEW d, OutcomeType(t.outcome), OutcomeType(d.outcome), NoBetterTake(d, t)
    PROVE  Contribution(d) <= Contribution(t)
<1> DEFINE x == t.outcome.score
           h == AtMost(Pct(45), x \div 2)
<1>1. x \in Int /\ 0 <= x
  BY ScoreRange DEF OutcomeType
<1>2. h \in Int /\ 0 <= h /\ h <= x
  BY <1>1 DEF AtMost, Pct
<1>3. /\ Contribution(t) = IF PassedTake(t) THEN x ELSE IF FailedTake(t) THEN 0 ELSE h
      /\ Contribution(d) = IF PassedTake(d) THEN x ELSE IF FailedTake(d) THEN 0 ELSE h
  BY DEF Contribution, NoBetterTake
<1>4. ~(PassedTake(t) /\ FailedTake(t)) /\ ~(PassedTake(d) /\ FailedTake(d))
  BY DEF PassedTake, FailedTake
<1> HIDE DEF x, h
<1>5. QED
  BY <1>1, <1>2, <1>3, <1>4 DEF NoBetterTake

(* The challenges weigh no more, their sensors the same, and no rule about *)
(* them is lost.                                                           *)
LEMMA TakesWeaker ==
    ASSUME NEW c, NEW d, TakesType(c.takes), TakesType(d.takes), c.takes # <<>>, d.takes # <<>>,
           DOMAIN d.takes = DOMAIN c.takes, Len(d.takes) = Len(c.takes),
           \A i \in DOMAIN c.takes : NoBetterTake(d.takes[i], c.takes[i])
    PROVE  /\ NoBetter(ChallengeSignal(d), ChallengeSignal(c))
           /\ SensorSignal(d) = SensorSignal(c)
           /\ MultipleChallengeFailures(ChallengeSignal(c)) => MultipleChallengeFailures(ChallengeSignal(d))
<1> DEFINE all == DOMAIN c.takes
           less == [i \in DOMAIN d.takes |-> Contribution(d.takes[i])]
           more == [i \in DOMAIN c.takes |-> Contribution(c.takes[i])]
           strong == {i \in DOMAIN c.takes : StronglyFailed(c.takes[i])}
           wrong == {i \in DOMAIN d.takes : StronglyFailed(d.takes[i])}
           sensors == MeanOf(c.takes, SensorScoreOf)
           OfChallenges(t) ==
               LET failed == Count(t, FailedTake) IN
               IF failed + Count(t, UndecidedTake) = 0 /\ Completion(t) >= Pct(75) THEN "PASS"
               ELSE IF failed >= 2 THEN "FAIL" ELSE "PARTIAL"
<1>1. /\ IsFiniteSet(all) /\ all # {}
      /\ \A i \in all : OutcomeType(c.takes[i].outcome) /\ OutcomeType(d.takes[i].outcome)
  BY TakesFacts
<1>2. MeanOf(d.takes, SensorScoreOf) = sensors
  <2>1. \A i \in all : SensorScoreOf(d.takes[i]) = SensorScoreOf(c.takes[i])
    BY DEF NoBetterTake, SensorScoreOf
  <2>2. [i \in DOMAIN d.takes |-> SensorScoreOf(d.takes[i])] = [i \in DOMAIN c.takes |-> SensorScoreOf(c.takes[i])]
    BY <2>1
  <2>3. QED
    BY <2>2 DEF MeanOf
<1>3. /\ ChallengeSignal(c) = Signal(OfChallenges(c.takes), Completion(c.takes), sensors,
                                     [highConfidenceFailures |-> Cardinality(strong)])
      /\ ChallengeSignal(d) = Signal(OfChallenges(d.takes), Completion(d.takes), MeanOf(d.takes, SensorScoreOf),
                                     [highConfidenceFailures |-> Cardinality(wrong)])
  BY DEF ChallengeSignal, Count
<1>4. OfChallenges(c.takes) \in {"PASS", "FAIL", "PARTIAL"} /\ OfChallenges(d.takes) \in {"PASS", "FAIL", "PARTIAL"}
  OBVIOUS
<1>5. Completion(d.takes) <= Completion(c.takes)
  <2>1. Completion(d.takes) = Mean(less) /\ Completion(c.takes) = Mean(more)
    BY DEF Completion, MeanOf
  <2>2. \A i \in all : less[i] \in Int /\ more[i] \in Int /\ less[i] <= more[i]
    <3>1. \A i \in all : Contribution(d.takes[i]) <= Contribution(c.takes[i])
      BY <1>1, ContributesLess
    <3>2. \A i \in all : Contribution(d.takes[i]) \in Score /\ Contribution(c.takes[i]) \in Score
      BY <1>1, ContributionType
    <3>3. QED
      BY <3>1, <3>2, ScoreRange
  <2>3. DOMAIN less = all /\ DOMAIN more = all
    OBVIOUS
  <2> HIDE DEF less, more, all
  <2>4. QED
    BY <1>1, <2>1, <2>2, <2>3, MeanMonotone
<1>6. sensors \in Int
  BY ChallengeMeans, ScoreRange
<1>7. /\ Cardinality(strong) \in Nat /\ Cardinality(wrong) \in Nat
      /\ Cardinality(strong) <= Cardinality(wrong)
  <2>1. strong \in SUBSET wrong /\ wrong \in SUBSET all
    BY DEF StronglyFailed, NoBetterTake
  <2> HIDE DEF strong, wrong, all
  <2>2. QED
    BY <1>1, <2>1, FS_Subset, FS_CardinalityType
<1>8. SensorSignal(d) = SensorSignal(c)
  <2> DEFINE good == {i \in DOMAIN c.takes : c.takes[i].outcome.gyroGood}
             fine == {i \in DOMAIN d.takes : d.takes[i].outcome.gyroGood}
             Sensed(score, positions, n) ==
                 Signal(StatusOfScore(score), score,
                        Clamp(Part(75, score) + Part(25, (Cardinality(positions) * One) \div n)), NoMetrics)
  <2>1. fine = good
    <3>1. \A i \in all : d.takes[i].outcome.gyroGood = c.takes[i].outcome.gyroGood
      BY DEF NoBetterTake
    <3>2. QED
      BY <3>1, Zenon
  <2>2. /\ SensorSignal(c) = Sensed(sensors, good, Len(c.takes))
        /\ SensorSignal(d) = Sensed(MeanOf(d.takes, SensorScoreOf), fine, Len(d.takes))
    BY Zenon DEF SensorSignal, Count
  <2> HIDE DEF good, fine, Sensed, sensors
  <2>3. QED
    BY <1>2, <2>1, <2>2
<1> HIDE DEF OfChallenges, sensors, strong, wrong
<1>9. NoBetter(ChallengeSignal(d), ChallengeSignal(c))
  <2> DEFINE s == ChallengeSignal(c)
             x == ChallengeSignal(d)
  <2>1. /\ s.status \in {"PASS", "FAIL", "PARTIAL"} /\ x.status \in {"PASS", "FAIL", "PARTIAL"}
        /\ s.score = Completion(c.takes) /\ x.score = Completion(d.takes)
        /\ s.confidence = sensors /\ x.confidence = sensors
    BY <1>2, <1>3, <1>4 DEF Signal
  <2> HIDE DEF s, x
  <2>2. NoBetter(x, s)
    BY <1>5, <1>6, <2>1 DEF NoBetter
  <2>3. QED
    BY <2>2 DEF s, x
<1>10. MultipleChallengeFailures(ChallengeSignal(c)) => MultipleChallengeFailures(ChallengeSignal(d))
  <2>1. /\ ChallengeSignal(c).metrics.highConfidenceFailures = Cardinality(strong)
        /\ ChallengeSignal(d).metrics.highConfidenceFailures = Cardinality(wrong)
        /\ ChallengeSignal(d).available = (OfChallenges(d.takes) # "UNAVAILABLE")
    BY <1>3 DEF Signal
  <2>2. ChallengeSignal(d).available
    BY <1>4, <2>1
  <2>3. QED
    BY <1>7, <2>1, <2>2 DEF MultipleChallengeFailures
<1>11. QED
  BY <1>8, <1>9, <1>10

(* What a capture is where one of its challenges is judged worse.          *)
OutcomeFields == {"result", "score", "sensorScore", "gyroGood", "angle", "from", "until"}
LEMMA ValidatedFields == \A t : DOMAIN Validated(t) = OutcomeFields
<1>1. ASSUME NEW good PROVE DOMAIN [NotValidated EXCEPT !.gyroGood = good] = OutcomeFields
  BY DEF NotValidated, OutcomeFields
<1>2. ASSUME NEW result_, NEW score, NEW sensors, NEW good, NEW angle, NEW from, NEW until
      PROVE  DOMAIN [result |-> result_, score |-> score, sensorScore |-> sensors, gyroGood |-> good,
                     angle |-> angle, from |-> from, until |-> until] = OutcomeFields
  BY DEF OutcomeFields
<1>3. QED
  BY <1>1, <1>2, Zenon DEF Validated

LEMMA TakeJudged ==
    ASSUME NEW t, NEW r, r \in Worse[t.outcome.result], OutcomeType(t.outcome),
           "outcome" \in DOMAIN t, DOMAIN t.outcome = OutcomeFields,
           NEW d, d = [t EXCEPT !.outcome.result = r]
    PROVE  NoBetterTake(d, t) /\ OutcomeType(d.outcome)
<1> DEFINE o == t.outcome
           p == [o EXCEPT !.result = r]
<1>1. d.outcome = p
  OBVIOUS
<1>2. r \in {"INCONCLUSIVE", "FAIL"} /\ t.outcome.result # "FAIL"
  BY DEF Worse, OutcomeType
<1>3. /\ p.result = r /\ p.score = o.score /\ p.sensorScore = o.sensorScore /\ p.gyroGood = o.gyroGood
      /\ p.angle = o.angle /\ p.from = o.from /\ p.until = o.until
  BY DEF OutcomeFields
<1> HIDE DEF p
<1>4. OutcomeType(d.outcome)
  BY <1>1, <1>2, <1>3 DEF OutcomeType
<1>5. NoBetterTake(d, t)
  BY <1>1, <1>2, <1>3 DEF NoBetterTake, PassedTake, FailedTake
<1>6. QED
  BY <1>4, <1>5

LEMMA CaptureJudged ==
    ASSUME TypeInv, NEW i \in DOMAIN takes, NEW r \in Worse[takes[i].outcome.result],
           NEW d, d = [capture EXCEPT !.takes[i].outcome.result = r]
    PROVE  /\ d.location = capture.location /\ d.time = capture.time
           /\ TakesType(d.takes) /\ DOMAIN d.takes = DOMAIN takes /\ Len(d.takes) = Len(takes)
           /\ takes # <<>> /\ d.takes # <<>>
           /\ \A j \in DOMAIN takes : NoBetterTake(d.takes[j], takes[j])
<1> DEFINE t == [takes[i] EXCEPT !.outcome.result = r]
           changed == [takes EXCEPT ![i] = t]
           n == Len(takes)
<1>1. d.location = capture.location /\ d.time = capture.time /\ d.takes = changed
  BY DEF capture
<1>2. /\ n \in Nat /\ DOMAIN takes = 1 .. n
      /\ \A j \in DOMAIN takes : OutcomeType(takes[j].outcome)
  BY TakesOfState DEF TypeInv
<1>3. "outcome" \in DOMAIN takes[i] /\ DOMAIN takes[i].outcome = OutcomeFields
  <2>1. \E u : takes[i] = Take(u)
    BY DEF TypeInv
  <2>2. \A u : "outcome" \in DOMAIN Take(u) /\ Take(u).outcome = Validated(u)
    BY DEF Take
  <2>3. QED
    BY <2>1, <2>2, ValidatedFields
<1>4. NoBetterTake(t, takes[i]) /\ OutcomeType(t.outcome)
  BY <1>2, <1>3, TakeJudged
<1> HIDE DEF t, n
<1>5. changed[i] = t /\ DOMAIN changed = 1 .. n /\ \A j \in DOMAIN takes : j # i => changed[j] = takes[j]
  BY <1>2
<1> HIDE DEF changed
<1>6. \A j \in DOMAIN takes : NoBetterTake(changed[j], takes[j]) /\ OutcomeType(changed[j].outcome)
  BY <1>2, <1>4, <1>5 DEF NoBetterTake
<1>7. changed = [j \in 1 .. n |-> changed[j]]
  BY <1>5 DEF changed
<1>8. changed \in Seq(Range(changed)) /\ Len(changed) = n
  <2> DEFINE S == Range(changed)
  <2>1. \A j \in 1 .. n : changed[j] \in S
    BY <1>5 DEF Range
  <2> HIDE DEF S
  <2>2. changed \in Seq(S)
    BY <1>2, <1>7, <2>1
  <2>3. Len(changed) = n
    BY <1>2, <1>7
  <2>4. QED
    BY <2>2, <2>3 DEF S
<1>9. TakesType(changed)
  BY <1>2, <1>5, <1>6, <1>8 DEF TakesType
<1>10. takes # <<>> /\ changed # <<>>
  BY <1>2, <1>5
<1>11. QED
  BY <1>1, <1>2, <1>5, <1>6, <1>8, <1>9, <1>10 DEF n

(* What it is where the fix is farther away.                               *)
LEMMA CaptureFarther ==
    ASSUME TypeInv, Known(capture.location), NEW far \in Nat,
           NEW d, d = [capture EXCEPT !.location.distance = @ + far]
    PROVE  /\ d.takes = takes /\ d.time = capture.time
           /\ capture.location \in LocationOf /\ d.location \in LocationOf
           /\ d.location.accuracy = capture.location.accuracy /\ d.location.radius = capture.location.radius
           /\ capture.location.distance <= d.location.distance
<1> DEFINE l == capture.location
           k == [l EXCEPT !.distance = @ + far]
<1>1. l \in LocationOf
  BY CaseFacts DEF TypeInv, capture, Maybe, Known
<1>2. d.takes = takes /\ d.time = capture.time /\ d.location = k
  BY DEF capture
<1> HIDE DEF l
<1>3. /\ k.distance = l.distance + far /\ k.radius = l.radius /\ k.accuracy = l.accuracy
      /\ k = [distance |-> l.distance + far, radius |-> l.radius, accuracy |-> l.accuracy]
  BY <1>1 DEF LocationOf
<1>4. l.distance \in Nat /\ l.distance + far \in Nat /\ l.distance <= l.distance + far
  BY <1>1 DEF LocationOf
<1> HIDE DEF k
<1>5. k \in LocationOf
  BY <1>1, <1>3, <1>4 DEF LocationOf
<1>6. QED
  BY <1>1, <1>2, <1>3, <1>4, <1>5 DEF l

(* What a signal depends on.                                               *)
LEMMA SameSignals ==
    ASSUME NEW c, NEW d, NEW rows
    PROVE  /\ Len(d.takes) = Len(c.takes) =>
                MotionSignal(d, rows) = MotionSignal(c, rows) /\ FusionSignal(d, rows) = FusionSignal(c, rows)
           /\ d.location = c.location => LocationSignal(d) = LocationSignal(c)
           /\ d.time = c.time => TimeSignal(d) = TimeSignal(c)
           /\ d.takes = c.takes =>
                ChallengeSignal(d) = ChallengeSignal(c) /\ SensorSignal(d) = SensorSignal(c)
<1>1. Len(d.takes) = Len(c.takes) =>
        MotionSignal(d, rows) = MotionSignal(c, rows) /\ FusionSignal(d, rows) = FusionSignal(c, rows)
  BY DEF MotionSignal, FusionSignal
<1>2. d.location = c.location => LocationSignal(d) = LocationSignal(c)
  BY DEF LocationSignal
<1>3. d.time = c.time => TimeSignal(d) = TimeSignal(c)
  BY DEF TimeSignal
<1>4. d.takes = c.takes => ChallengeSignal(d) = ChallengeSignal(c) /\ SensorSignal(d) = SensorSignal(c)
  BY DEF ChallengeSignal, SensorSignal
<1>5. QED
  BY <1>1, <1>2, <1>3, <1>4

LEMMA FieldsOfSignals ==
    ASSUME NEW c, NEW rows, NEW fusion_
    PROVE  LET e == SignalsOf(c, rows, fusion_) IN
           /\ e["LOCATION"] = LocationSignal(c) /\ e["SESSION_TIME"] = TimeSignal(c)
           /\ e["CHALLENGE_COMPLETION"] = ChallengeSignal(c) /\ e["SENSOR_QUALITY"] = SensorSignal(c)
           /\ e["VISUAL_MOTION"] = MotionSignal(c, rows) /\ e["SCENE_CONTINUITY"] = SceneSignal(rows)
           /\ e["VISUAL_INERTIAL_CONSISTENCY"] = FusionSignal(c, fusion_)
BY DEF SignalsOf

LEMMA JudgedVerdict ==
    ASSUME TypeInv, NEW i \in DOMAIN takes, NEW r \in Worse[takes[i].outcome.result],
           NEW d, d = [capture EXCEPT !.takes[i].outcome.result = r],
           Resolved(SignalsOf(d, Stored(visual), Stored(fusion))) = "VERIFIED"
    PROVE  Resolved(Evidence) = "VERIFIED"
<1> DEFINE V == Stored(visual)
           F == Stored(fusion)
           x == SignalsOf(d, V, F)
           s == Evidence
<1>1. /\ d.location = capture.location /\ d.time = capture.time
      /\ TakesType(d.takes) /\ DOMAIN d.takes = DOMAIN takes /\ Len(d.takes) = Len(takes)
      /\ takes # <<>> /\ d.takes # <<>>
      /\ \A j \in DOMAIN takes : NoBetterTake(d.takes[j], takes[j])
  BY CaptureJudged, ZenonT(30)
<1>2. capture.takes = takes /\ TakesType(takes) /\ capture.location \in Maybe(LocationOf)
  BY CaseFacts, TakesOfState DEF TypeInv, capture
<1>3. SignalsOK(s) /\ SignalsOK(x)
  BY <1>1, <1>2, EvidenceType, StoredTypes, SignalsType
<1>4. /\ NoBetter(ChallengeSignal(d), ChallengeSignal(capture))
      /\ SensorSignal(d) = SensorSignal(capture)
      /\ MultipleChallengeFailures(ChallengeSignal(capture)) => MultipleChallengeFailures(ChallengeSignal(d))
  BY <1>1, <1>2, TakesWeaker
<1>5. /\ MotionSignal(d, V) = MotionSignal(capture, V) /\ FusionSignal(d, F) = FusionSignal(capture, F)
      /\ LocationSignal(d) = LocationSignal(capture) /\ TimeSignal(d) = TimeSignal(capture)
  BY <1>1, <1>2, SameSignals, ZenonT(30)
<1>6. /\ s["LOCATION"] = LocationSignal(capture) /\ s["SESSION_TIME"] = TimeSignal(capture)
      /\ s["CHALLENGE_COMPLETION"] = ChallengeSignal(capture) /\ s["SENSOR_QUALITY"] = SensorSignal(capture)
      /\ s["VISUAL_MOTION"] = MotionSignal(capture, V) /\ s["SCENE_CONTINUITY"] = SceneSignal(V)
      /\ s["VISUAL_INERTIAL_CONSISTENCY"] = FusionSignal(capture, F)
  BY FieldsOfSignals DEF Evidence
<1>7. /\ x["LOCATION"] = LocationSignal(d) /\ x["SESSION_TIME"] = TimeSignal(d)
      /\ x["CHALLENGE_COMPLETION"] = ChallengeSignal(d) /\ x["SENSOR_QUALITY"] = SensorSignal(d)
      /\ x["VISUAL_MOTION"] = MotionSignal(d, V) /\ x["SCENE_CONTINUITY"] = SceneSignal(V)
      /\ x["VISUAL_INERTIAL_CONSISTENCY"] = FusionSignal(d, F)
  BY FieldsOfSignals
<1> HIDE DEF V, F, x, s
<1>8. \A k \in SignalType : k # "CHALLENGE_COMPLETION" => x[k] = s[k]
  BY <1>4, <1>5, <1>6, <1>7 DEF SignalType
<1>9. \A k \in SignalType : NoBetter(x[k], s[k])
  <2>1. \A k \in SignalType : NoBetter(s[k], s[k])
    BY <1>3, SameNoBetter DEF SignalsOK
  <2>2. NoBetter(x["CHALLENGE_COMPLETION"], s["CHALLENGE_COMPLETION"])
    BY <1>4, <1>6, <1>7
  <2>3. QED
    BY <1>8, <2>1, <2>2
<1>10. HardRules(s) \subseteq HardRules(x)
  BY <1>4, <1>5, <1>6, <1>7, RulesGrow
<1>11. QED
  BY <1>3, <1>9, <1>10, NoBetterVerdict DEF V, F, x, s

LEMMA FartherVerdict ==
    ASSUME TypeInv, Known(capture.location), NEW far \in Nat, "CLEAR_WRONG_LOCATION" \in Policy.rules,
           NEW d, d = [capture EXCEPT !.location.distance = @ + far],
           Resolved(SignalsOf(d, Stored(visual), Stored(fusion))) = "VERIFIED"
    PROVE  Resolved(Evidence) = "VERIFIED"
<1> DEFINE V == Stored(visual)
           F == Stored(fusion)
           x == SignalsOf(d, V, F)
           s == Evidence
<1>1. /\ d.takes = takes /\ d.time = capture.time
      /\ capture.location \in LocationOf /\ d.location \in LocationOf
      /\ d.location.accuracy = capture.location.accuracy /\ d.location.radius = capture.location.radius
      /\ capture.location.distance <= d.location.distance
  BY CaptureFarther
<1>2. capture.takes = takes /\ TakesType(takes) /\ d.location \in Maybe(LocationOf)
  BY <1>1, TakesOfState DEF TypeInv, capture, Maybe
<1>3. SignalsOK(s) /\ SignalsOK(x)
  BY <1>1, <1>2, EvidenceType, StoredTypes, SignalsType
<1>4. /\ MotionSignal(d, V) = MotionSignal(capture, V) /\ FusionSignal(d, F) = FusionSignal(capture, F)
      /\ TimeSignal(d) = TimeSignal(capture)
      /\ ChallengeSignal(d) = ChallengeSignal(capture) /\ SensorSignal(d) = SensorSignal(capture)
  BY <1>1, <1>2, SameSignals
<1>5. /\ s["LOCATION"] = LocationSignal(capture) /\ s["SESSION_TIME"] = TimeSignal(capture)
      /\ s["CHALLENGE_COMPLETION"] = ChallengeSignal(capture) /\ s["SENSOR_QUALITY"] = SensorSignal(capture)
      /\ s["VISUAL_MOTION"] = MotionSignal(capture, V) /\ s["SCENE_CONTINUITY"] = SceneSignal(V)
      /\ s["VISUAL_INERTIAL_CONSISTENCY"] = FusionSignal(capture, F)
  BY FieldsOfSignals DEF Evidence
<1>6. /\ x["LOCATION"] = LocationSignal(d) /\ x["SESSION_TIME"] = TimeSignal(d)
      /\ x["CHALLENGE_COMPLETION"] = ChallengeSignal(d) /\ x["SENSOR_QUALITY"] = SensorSignal(d)
      /\ x["VISUAL_MOTION"] = MotionSignal(d, V) /\ x["SCENE_CONTINUITY"] = SceneSignal(V)
      /\ x["VISUAL_INERTIAL_CONSISTENCY"] = FusionSignal(d, F)
  BY FieldsOfSignals
<1>7. Resolved(x) = "VERIFIED"
  OBVIOUS
<1> HIDE DEF V, F, x, s
<1>8. ~ClearWrongLocation(LocationSignal(d))
  BY <1>6, <1>7, WrongPlaceFlags
<1>9. NoBetter(LocationSignal(d), LocationSignal(capture)) /\ ~ClearWrongLocation(LocationSignal(capture))
  BY <1>1, <1>8, FartherWeaker
<1>10. \A k \in SignalType : k # "LOCATION" => x[k] = s[k]
  BY <1>4, <1>5, <1>6 DEF SignalType
<1>11. \A k \in SignalType : NoBetter(x[k], s[k])
  <2>1. \A k \in SignalType : NoBetter(s[k], s[k])
    BY <1>3, SameNoBetter DEF SignalsOK
  <2>2. NoBetter(x["LOCATION"], s["LOCATION"])
    BY <1>5, <1>6, <1>9
  <2>3. QED
    BY <1>10, <2>1, <2>2
<1>12. HardRules(s) \subseteq HardRules(x)
  BY <1>4, <1>5, <1>6, <1>9, RulesGrow
<1>13. QED
  BY <1>3, <1>7, <1>11, <1>12, NoBetterVerdict DEF s

NotUnderstood(rows, i) == [rows EXCEPT ![i].status = "INCONCLUSIVE"]
LEMMA NotUnderstoodVerdict ==
    ASSUME SeenInv, InProgress = {}, NEW i \in DOMAIN Stored(visual),
           NEW rows, rows = NotUnderstood(Stored(visual), i),
           Resolved(SignalsOf(capture, rows, Stored(fusion))) = "VERIFIED"
    PROVE  Resolved(Evidence) = "VERIFIED"
<1> DEFINE V == Stored(visual)
           F == Stored(fusion)
           x == SignalsOf(capture, rows, F)
           s == Evidence
<1>1. TypeInv /\ RowsType(V) /\ FusedRowsType(F)
  BY StoredTypes DEF SeenInv
<1>2. capture.takes = takes /\ TakesType(takes) /\ capture.location \in Maybe(LocationOf)
  BY <1>1, CaseFacts, TakesOfState DEF TypeInv, capture
<1>3. /\ \A j \in DOMAIN V : DOMAIN V[j] = RowFields
      /\ \A j \in DOMAIN V : V[j].status # "PROCESSING"
  <2>1. \A j \in DOMAIN V : j \in DOMAIN takes /\ Known(visual[j]) /\ V[j] = visual[j]
    BY <1>1, StoredFacts, ZenonT(30) DEF TypeInv
  <2> HIDE DEF V
  <2>2. \A j \in DOMAIN V : V[j] \in RowOf(j)
    BY <2>1 DEF SeenInv
  <2>3. \A j \in DOMAIN V : DOMAIN V[j] = RowFields
    <3>1. \A j \in DOMAIN takes : TakeType(takes[j])
      BY <1>1, TakesOfState DEF TypeInv
    <3>2. \A j \in DOMAIN takes : DOMAIN VideoRow(takes[j], takes[j].outcome) = RowFields
      BY <3>1, VideoRowType
    <3>3. \A status : DOMAIN BlankRow(status) = RowFields
      BY DEF BlankRow, RowFields
    <3>4. QED
      BY <2>1, <2>2, <3>2, <3>3 DEF RowOf
  <2>4. \A j \in DOMAIN V : V[j].status # "PROCESSING"
    BY <2>1 DEF InProgress, Status
  <2>5. QED
    BY <2>3, <2>4
<1>4. /\ RowsType(rows) /\ SceneSignal(rows) = SceneSignal(V)
      /\ NoBetter(MotionSignal(capture, rows), MotionSignal(capture, V))
  BY <1>1, <1>3, RowWeaker DEF NotUnderstood
<1>5. SignalsOK(s) /\ SignalsOK(x)
  BY <1>1, <1>2, <1>4, EvidenceType, SignalsType
<1>6. /\ s["LOCATION"] = LocationSignal(capture) /\ s["SESSION_TIME"] = TimeSignal(capture)
      /\ s["CHALLENGE_COMPLETION"] = ChallengeSignal(capture) /\ s["SENSOR_QUALITY"] = SensorSignal(capture)
      /\ s["VISUAL_MOTION"] = MotionSignal(capture, V) /\ s["SCENE_CONTINUITY"] = SceneSignal(V)
      /\ s["VISUAL_INERTIAL_CONSISTENCY"] = FusionSignal(capture, F)
  BY FieldsOfSignals DEF Evidence
<1>7. /\ x["LOCATION"] = LocationSignal(capture) /\ x["SESSION_TIME"] = TimeSignal(capture)
      /\ x["CHALLENGE_COMPLETION"] = ChallengeSignal(capture) /\ x["SENSOR_QUALITY"] = SensorSignal(capture)
      /\ x["VISUAL_MOTION"] = MotionSignal(capture, rows) /\ x["SCENE_CONTINUITY"] = SceneSignal(rows)
      /\ x["VISUAL_INERTIAL_CONSISTENCY"] = FusionSignal(capture, F)
  BY FieldsOfSignals
<1> HIDE DEF V, F, x, s
<1>8. \A k \in SignalType : k # "VISUAL_MOTION" => x[k] = s[k]
  BY <1>4, <1>6, <1>7 DEF SignalType
<1>9. \A k \in SignalType : NoBetter(x[k], s[k])
  <2>1. \A k \in SignalType : NoBetter(s[k], s[k])
    BY <1>5, SameNoBetter DEF SignalsOK
  <2>2. NoBetter(x["VISUAL_MOTION"], s["VISUAL_MOTION"])
    BY <1>4, <1>6, <1>7
  <2>3. QED
    BY <1>8, <2>1, <2>2
<1>10. HardRules(s) \subseteq HardRules(x)
  BY <1>4, <1>6, <1>7, RulesGrow
<1>11. QED
  BY <1>5, <1>9, <1>10, NoBetterVerdict DEF V, F, x, s

LEMMA WeakerVerifiesLess ==
    ASSUME SeenInv, InProgress = {}, "CLEAR_WRONG_LOCATION" \in Policy.rules, "VERIFIED" \in WeakerVerdicts
    PROVE  Resolved(Evidence) = "VERIFIED"
<1>1. TypeInv /\ capture.takes = takes
  BY DEF SeenInv, capture
<1>2. ASSUME NEW c \in Weaker(capture), Resolved(SignalsOf(c, Stored(visual), Stored(fusion))) = "VERIFIED"
      PROVE  Resolved(Evidence) = "VERIFIED"
  <2>1. \/ \E i \in DOMAIN capture.takes : \E r \in Worse[capture.takes[i].outcome.result] :
             c = [capture EXCEPT !.takes[i].outcome.result = r]
        \/ /\ Known(capture.location)
           /\ \E far \in {20, 80} : c = [capture EXCEPT !.location.distance = @ + far]
    <3>1. \/ \E i \in DOMAIN capture.takes : c \in JudgedWorse(capture, i)
          \/ c \in FartherAway(capture)
      <4>1. c \in UNION {JudgedWorse(capture, i) : i \in DOMAIN capture.takes} \/ c \in FartherAway(capture)
        BY <1>2 DEF Weaker
      <4>2. c \in UNION {JudgedWorse(capture, i) : i \in DOMAIN capture.takes} =>
              \E i \in DOMAIN capture.takes : c \in JudgedWorse(capture, i)
        OBVIOUS
      <4>3. QED
        BY <4>1, <4>2
    <3>2. \A i : c \in JudgedWorse(capture, i) =>
            \E r \in Worse[capture.takes[i].outcome.result] : c = [capture EXCEPT !.takes[i].outcome.result = r]
      BY Zenon DEF JudgedWorse
    <3>3. c \in FartherAway(capture) =>
            /\ Known(capture.location)
            /\ \E far \in {20, 80} : c = [capture EXCEPT !.location.distance = @ + far]
      BY DEF FartherAway
    <3>4. QED
      BY <3>1, <3>2, <3>3, Zenon
  <2>2. CASE \E i \in DOMAIN capture.takes : \E r \in Worse[capture.takes[i].outcome.result] :
               c = [capture EXCEPT !.takes[i].outcome.result = r]
    <3>1. PICK i \in DOMAIN takes : \E r \in Worse[takes[i].outcome.result] :
                 c = [capture EXCEPT !.takes[i].outcome.result = r]
      BY <1>1, <2>2
    <3>2. PICK r \in Worse[takes[i].outcome.result] : c = [capture EXCEPT !.takes[i].outcome.result = r]
      BY <3>1
    <3>3. QED
      BY <1>1, <1>2, <3>2, JudgedVerdict
  <2>3. CASE /\ Known(capture.location)
             /\ \E far \in {20, 80} : c = [capture EXCEPT !.location.distance = @ + far]
    <3>1. PICK far \in {20, 80} : c = [capture EXCEPT !.location.distance = @ + far]
      BY <2>3
    <3>2. far \in Nat
      BY <3>1
    <3>3. QED
      BY <1>1, <1>2, <2>3, <3>1, <3>2, FartherVerdict
  <2>4. QED
    BY <2>1, <2>2, <2>3
<1>3. ASSUME NEW rows \in WeakerRows(Stored(visual)), Resolved(SignalsOf(capture, rows, Stored(fusion))) = "VERIFIED"
      PROVE  Resolved(Evidence) = "VERIFIED"
  <2>1. PICK i \in DOMAIN Stored(visual) : rows = NotUnderstood(Stored(visual), i)
    BY <1>3, Zenon DEF WeakerRows, NotUnderstood
  <2>2. QED
    BY <1>3, <2>1, NotUnderstoodVerdict
<1>4. QED
  BY <1>2, <1>3, Zenon DEF WeakerVerdicts

LEMMA WeakerStep ==
    ASSUME SeenInv, [Next]_vars, "CLEAR_WRONG_LOCATION" \in Policy.rules,
           NEW e \in Engines, ~Completed(e), Completed(e)', result'[e].base # "VERIFIED"
    PROVE  "VERIFIED" \notin WeakerVerdicts
<1>1. result'[e] # result[e]
  BY DEF Completed
<1>2. ~Wait
  <2>1. Wait => result'[e] = Waiting
    BY <1>1 DEF Wait, SeenInv, TypeInv
  <2>2. QED
    BY <2>1 DEF Completed, Waiting
<1>3. Decide
  BY <1>1, <1>2
     DEF Next, vars, BeginVisual, AnalyseTake, FailVisual, FuseTooEarly, Fuse, FailFusion, Assess, StoreSignals
<1> DEFINE made == Decision(Evidence, Engine)
<1>4. result' = [result EXCEPT ![Engine] = made] /\ InProgress = {}
  BY <1>3 DEF Decide, Upstream
<1>5. made.base = Resolved(Evidence)
  BY DEF Decision
<1> HIDE DEF made
<1>6. result'[e] = made
  BY <1>1, <1>4 DEF SeenInv, TypeInv
<1>7. QED
  BY <1>4, <1>5, <1>6, WeakerVerifiesLess

(* No weaker evidence would have made a capture VERIFIED that was not,     *)
(* under every policy that flags a place that is clearly wrong: the score, *)
(* the confidence, the required signals and the hard rules all move one way*)
(* (policy.py, scoring.py). Without that rule a fix far off the site is    *)
(* more certain than one nearby, and may lift the overall confidence.      *)
THEOREM WeakerNeverVerifies ==
    ASSUME "CLEAR_WRONG_LOCATION" \in Policy.rules
    PROVE  Spec => WeakerEvidenceNeverVerifies
<1>1. SeenInv /\ [Next]_vars =>
        [\A e \in Engines : ~Completed(e) /\ Completed(e)' /\ result'[e].base # "VERIFIED" =>
            "VERIFIED" \notin WeakerVerdicts]_vars
  BY WeakerStep
<1>2. QED
  BY <1>1, SeenInit, SeenNext, PTL DEF Spec, WeakerEvidenceNeverVerifies
=============================================================================
