---------------------------- MODULE SecurityRisk ----------------------------
(***************************************************************************)
(* The anti-spoofing analyses of one capture: verification/advanced and    *)
(* their composition in advanced_security_service.py. Each reads a stream  *)
(* of the evidence package and yields a risk, its confidence and the codes *)
(* of what it found; none of them sees the policy or the verdict.          *)
(*                                                                         *)
(* Places are points on a line, so that the distance of two fixes is a     *)
(* difference; the pixel and hash computations are represented by their    *)
(* results (frames, windows, digests found in another session).            *)
(***************************************************************************)
EXTENDS MotionEstimates

LocationFix == [ok : BOOLEAN, at : Int, place : Int, accuracy : Nat, fast : BOOLEAN, mock : Maybe(BOOLEAN)]
SensorCounts ==
    [samples : Nat, reversals : Nat, gaps : Nat, regular : BOOLEAN, outOfRange : Nat, zeroStream : BOOLEAN,
     repeated : Nat, windows : Nat, conflict : BOOLEAN, malformed : Nat]
DeviceMetadata == [fields : Nat, emulator : BOOLEAN, testKeys : BOOLEAN, root : BOOLEAN, debugger : BOOLEAN]
VideoSampleCount == 8
FrameScores == [count : 0..VideoSampleCount, rectangle : Score, banding : Score, moire : Score]

RiskLevel == {"LOW", "MODERATE", "HIGH", "INCONCLUSIVE"}
Level(score) == IF score >= Pct(75) THEN "HIGH" ELSE IF score >= Pct(35) THEN "MODERATE" ELSE "LOW"

(* An indicator weighs at least 'score' with at least 'confidence'. *)
Worst(indicators, floor) == Max({floor} \cup {i.score : i \in indicators})
Surest(indicators, floor) == Max({floor} \cup {i.confidence : i \in indicators})
Codes(indicators) == {i.code : i \in indicators}
Indicator(code, score, confidence) == [code |-> code, score |-> score, confidence |-> confidence]
When(condition, code, score, confidence) ==
    IF condition THEN {Indicator(code, score, confidence)} ELSE {}

(***************************************************************************)
(* Location. A fix is [ok, at (ms), place (m), accuracy, fast, mock], mock *)
(* being NoMeasure when the flag was not recorded. 'still' says that the   *)
(* accelerometer and gyroscope hardly moved, NoMeasure without samples.    *)
(***************************************************************************)
Usable(fixes) == Passing(fixes, LAMBDA f : f.ok)
Hops(s) == 2..Len(s)
Elapsed(s, i) == s[i].at - s[i - 1].at
Distance(s, i) == AbsOf(s[i].place - s[i - 1].place)
Reversed(s) == {i \in Hops(s) : Elapsed(s, i) <= 0}
Jumps(s) ==
    {i \in Hops(s) \ Reversed(s) :
        /\ Elapsed(s, i) >= 500
        /\ Distance(s, i) > AtLeast(30, 2 * (s[i - 1].accuracy + s[i].accuracy))
        /\ Distance(s, i) * 1000 > 55 * Elapsed(s, i)}
Displacement(s) == MapThenSumSet(LAMBDA i : Distance(s, i), Hops(s) \ Reversed(s))
Flagged(s) == {i \in DOMAIN s : Known(s[i].mock)}
Mocked(s) == \E i \in Flagged(s) : s[i].mock
SteadyAccuracy(s) == Len(s) >= 8 /\ Cardinality({s[i].accuracy : i \in DOMAIN s}) = 1

JumpScoreUncapped(n) == Pct(78 + 8 * n)
JumpScore(n) == AtMost(One, Pct(78 + 8 * n))
LocationIndicators(s, still) ==
    UNION {When(Mocked(s), "MOCK_LOCATION_DETECTED", One, Pct(98)),
           When(Jumps(s) # {}, "IMPOSSIBLE_LOCATION_JUMP", JumpScore(Cardinality(Jumps(s))), Pct(90)),
           When(\E i \in DOMAIN s : s[i].fast, "REPORTED_SPEED_IMPLAUSIBLE", Pct(72), Pct(78)),
           When(Reversed(s) # {}, "LOCATION_TIMESTAMP_REVERSAL", Pct(58), Pct(65)),
           When(Known(still) /\ still = TRUE /\ Displacement(s) >= 40,
                "LOCATION_SENSOR_MISMATCH", Pct(65), Pct(72)),
           When(SteadyAccuracy(s), "UNNATURALLY_STABLE_ACCURACY", Pct(22), 0)}

NoLocation(code, confidence) ==
    [level |-> "INCONCLUSIVE", score |-> Pct(50), confidence |-> confidence, mock |-> FALSE, codes |-> {code}]
LocationRisk(fixes, still) ==
    LET s == Usable(fixes)
        found == LocationIndicators(s, still)
        surest == Surest(found, IF Flagged(s) # {} THEN Pct(65) ELSE Pct(50))
    IN  IF s = <<>>
        THEN IF fixes = <<>> THEN NoLocation("LOCATION_STREAM_UNAVAILABLE", 0)
             ELSE NoLocation("LOCATION_STREAM_MALFORMED", Pct(20))
        ELSE [level |-> Level(Worst(found, 0)), score |-> Worst(found, 0),
              confidence |-> IF Flagged(s) = {} THEN AtMost(surest, Pct(72)) ELSE surest,
              mock |-> Mocked(s), codes |-> Codes(found)]

(***************************************************************************)
(* Device. d counts the metadata fields and says what they reveal; an      *)
(* attestation is the provider's [app, device], NoMeasure without one.     *)
(***************************************************************************)
DeviceIndicators(d) ==
    UNION {When(d.emulator, "EMULATOR_OR_VIRTUAL_DEVICE", Pct(92), Pct(90)),
           When(d.testKeys, "TEST_KEYS_BUILD", Pct(55), Pct(70)),
           When(d.root, "ROOT_HEURISTIC", Pct(72), Pct(72)),
           When(d.debugger, "DEBUGGER_CONNECTED", Pct(35), Pct(65))}
LocalStatus(d) ==
    IF d.emulator THEN "FAIL" ELSE IF DeviceIndicators(d) # {} THEN "PARTIAL" ELSE "INCONCLUSIVE"
Attested(a, verdict) == Known(a) /\ a.app = verdict /\ a.device = verdict
Refuted(a) == Known(a) /\ (a.app = "FAIL" \/ a.device = "FAIL")

DeviceRisk(d, a) ==
    LET found == DeviceIndicators(d)
        score == Worst(found, 0)
        confidence == Surest(found, Pct(25))
        local == LocalStatus(d)
        Report(status, risk, sure, codes) ==
            [status |-> status, score |-> risk, confidence |-> sure, codes |-> Codes(found) \cup codes]
        attested == AtLeast(confidence, Pct(95))
    IN  IF Attested(a, "PASS") THEN Report("PASS", AtMost(score, Pct(15)), attested, {})
        ELSE IF Refuted(a)
        THEN Report("FAIL", AtLeast(score, Pct(98)), attested, {"PROVIDER_DEVICE_INTEGRITY_FAILED"})
        ELSE IF Known(a)
        THEN Report(IF local = "FAIL" THEN local ELSE "PARTIAL", AtLeast(score, Pct(40)), attested,
                    {"PROVIDER_DEVICE_INTEGRITY_PARTIAL"})
        ELSE IF d.fields >= 7
        THEN Report(IF local = "INCONCLUSIVE" THEN "PASS" ELSE local, score, AtLeast(confidence, Pct(62)),
                    {"ATTESTATION_UNAVAILABLE"})
        ELSE Report(local, score, confidence, {"DEVICE_METADATA_LEGACY", "ATTESTATION_UNAVAILABLE"})

(***************************************************************************)
(* Sensors. A stream is counted: samples, timestamp reversals, large gaps, *)
(* values out of range, repeated and eligible windows, malformed rows.     *)
(***************************************************************************)
TimestampScore(n) ==
    LET reversal == IF n.reversals > 0 THEN AtMost(One, Pct(75 + 5 * n.reversals)) ELSE 0
        gap == IF n.gaps > 0 THEN AtMost(Pct(75), Pct(35 + 8 * n.gaps)) ELSE 0
    IN  Max({reversal, gap, IF n.regular THEN Pct(18) ELSE 0})
RangeScore(n) ==
    AtLeast(IF n.outOfRange > 0 THEN AtMost(One, Pct(88 + 2 * n.outOfRange)) ELSE 0,
            IF n.zeroStream THEN Pct(60) ELSE 0)
RepetitionScore(n) ==
    IF n.windows = 0 THEN 0
    ELSE AtLeast(AtMost(One, (n.repeated * One) \div AtLeast(1, n.windows \div 2)),
                 IF n.repeated >= 2 THEN Pct(55) ELSE 0)
SensorAnomaly(n) ==
    LET conflict == IF n.conflict THEN Pct(85) ELSE 0
        malformed == IF n.malformed > AtLeast(5, (n.samples + n.malformed) \div 20) THEN Pct(45) ELSE 0
    IN  Max({RangeScore(n), conflict, Part(85, TimestampScore(n)), Part(75, RepetitionScore(n)), malformed})
SensorRisk(n) ==
    IF n.samples + n.malformed = 0 THEN [level |-> "INCONCLUSIVE", score |-> Pct(50), confidence |-> 0]
    ELSE [level |-> Level(SensorAnomaly(n)), score |-> SensorAnomaly(n),
          confidence |-> AtMost(Pct(95), Pct(45) + AtMost(Pct(45), n.samples * 60))]

(***************************************************************************)
(* Reuse. The kinds of evidence whose digest is known from another session *)
(***************************************************************************)
Reuse(kinds) ==
    CASE kinds = {"VIDEO", "SENSOR_DATA"} -> [score |-> One, code |-> "EXACT_EVIDENCE_REUSE"]
      [] kinds = {"VIDEO"} -> [score |-> Pct(82), code |-> "EXACT_VIDEO_REUSE"]
      [] kinds = {"SENSOR_DATA"} -> [score |-> Pct(68), code |-> "EXACT_SENSOR_REUSE"]
      [] OTHER -> [score |-> 0, code |-> "NONE"]

(***************************************************************************)
(* Replay. f counts the sampled frames and gives the scores of the three   *)
(* display artifacts, one family of evidence; disagreement with the phone's*)
(* motion and repeated frames are the two others.                          *)
(***************************************************************************)
Artifact(f) ==
    Max({Part(65, f.rectangle) + Part(20, f.banding) + Part(15, f.moire), f.banding, f.moire})
RectangleOnly(f, mismatch) ==
    f.rectangle > Pct(75) /\ mismatch < Pct(30) /\ f.banding < Pct(35) /\ f.moire < Pct(35)
ReplayScore(f, mismatch, duplicate, reuse) ==
    LET art == Artifact(f)
        weighed == Max({reuse, Part(45, art) + Part(40, mismatch) + Part(15, duplicate),
                        Part(58, art) + Part(42, duplicate)})
        capped == IF RectangleOnly(f, mismatch) THEN AtMost(weighed, Pct(55)) ELSE weighed
    IN  IF reuse >= Pct(98) THEN AtLeast(capped, Pct(98)) ELSE capped
Families(f, mismatch, duplicate) ==
    Cardinality({x \in {"artifact", "motion", "repetition"} :
        \/ x = "artifact" /\ Artifact(f) >= Pct(65)
        \/ x = "motion" /\ mismatch >= Pct(65)
        \/ x = "repetition" /\ duplicate >= Pct(45)})
ReplayRisk(f, mismatch, duplicate, reuse) ==
    LET score == ReplayScore(f, mismatch, duplicate, reuse)
        corroborated == reuse >= Pct(80) \/ Families(f, mismatch, duplicate) >= 2
    IN  IF f.count = 0
        THEN [level |-> "INCONCLUSIVE", score |-> Pct(50), confidence |-> 0, mismatch |-> mismatch]
        ELSE [level |-> IF score >= Pct(72) /\ corroborated THEN "HIGH"
                        ELSE IF score >= Pct(38) THEN "MODERATE" ELSE "LOW",
              score |-> score, mismatch |-> mismatch,
              confidence |-> AtMost(Pct(93), Pct(45 + 4 * f.count) + Part(18, AtLeast(mismatch, reuse)))]

(* What one fused challenge says about a replay: agreement on a direction  *)
(* keeps a poor score below the threshold of a motion mismatch.            *)
Disagreement(row) ==
    IF Known(row.effective) THEN Clamp(One - row.effective)
    ELSE CASE row.status = "MISMATCH" -> Pct(75)
           [] row.status = "PARTIALLY_CONSISTENT" -> Pct(45)
           [] row.status = "INCONCLUSIVE" -> Pct(40)
           [] OTHER -> 0
RowReplayRisk(row) ==
    IF "OPPOSITE_DIRECTION" \in row.reasons THEN One
    ELSE IF row.reasons \cap StrongContradictions # {} /\ ~row.sameDirection THEN Pct(95)
    ELSE IF row.sameDirection THEN AtMost(Disagreement(row), Pct(55))
    ELSE IF row.status = "MISMATCH" THEN AtLeast(Disagreement(row), Pct(75))
    ELSE Disagreement(row)
MotionMismatch(rows) == Max({0} \cup {RowReplayRisk(rows[i]) : i \in DOMAIN rows})

(***************************************************************************)
(* The security analysis: every stream at once, the fused challenges, and  *)
(* the highest duplicate ratio of any visual row of the session.           *)
(***************************************************************************)
Overall(location, sensor, replay, device) ==
    LET levels == {location.level, sensor.level, replay.level} IN
    IF "HIGH" \in levels \/ device.score >= Pct(75) THEN "HIGH"
    ELSE IF "MODERATE" \in levels \/ device.score >= Pct(35) THEN "MODERATE"
    ELSE IF levels = {"INCONCLUSIVE"} THEN "INCONCLUSIVE" ELSE "LOW"

Assessed(stream, rows, duplicate) ==
    LET location == LocationRisk(stream.fixes, stream.still)
        sensor == SensorRisk(stream.sensors)
        reuse == Reuse(stream.reused)
        device == DeviceRisk(stream.device, stream.attestation)
        replay == ReplayRisk(stream.frames, MotionMismatch(rows), duplicate, reuse.score)
    IN  [overall |-> Overall(location, sensor, replay, device),
         confidence |-> Mean(<<location.confidence, sensor.confidence, replay.confidence, device.confidence>>),
         codes |-> location.codes \cup device.codes \cup {reuse.code},
         location |-> location, sensor |-> sensor, replay |-> replay, device |-> device,
         reuse |-> reuse.score]
=============================================================================
