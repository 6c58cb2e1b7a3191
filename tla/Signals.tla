------------------------------ MODULE Signals ------------------------------
(***************************************************************************)
(* The seven signals of a capture: services/verification/collectors.py.    *)
(*                                                                         *)
(* A capture c has the location fix taken at its start, its times, and its *)
(* takes: the last attempt at each challenge, in order, with its outcome.  *)
(* The visual and the fused rows there are belong to these takes.          *)
(***************************************************************************)
EXTENDS AdvancedSignals

SignalType == {"LOCATION", "SESSION_TIME", "CHALLENGE_COMPLETION", "SENSOR_QUALITY",
               "VISUAL_MOTION", "SCENE_CONTINUITY", "VISUAL_INERTIAL_CONSISTENCY"}
SignalStatus == {"PASS", "PARTIAL", "FAIL", "INCONCLUSIVE", "UNAVAILABLE"}
NoMetrics == [metrics |-> "none"]

Signal(status, score, confidence, metrics) ==
    [status |-> status, score |-> score, confidence |-> confidence, metrics |-> metrics,
     available |-> status # "UNAVAILABLE"]
Unavailable == Signal("UNAVAILABLE", 0, 0, NoMetrics)
StatusOfScore(score) ==
    IF score >= Pct(80) THEN "PASS" ELSE IF score >= Pct(55) THEN "PARTIAL" ELSE "FAIL"

(* The mean, and the extremes, of a field over a sequence of rows. *)
MeanOf(rows, Field(_)) == Mean([i \in DOMAIN rows |-> Field(rows[i])])
MostOf(rows, Field(_)) == Greatest([i \in DOMAIN rows |-> Field(rows[i])])
Count(rows, Test(_)) == Cardinality({i \in DOMAIN rows : Test(rows[i])})

(***************************************************************************)
(* Location: an unusable accuracy decides nothing, before all else.        *)
(***************************************************************************)
ClearlyOutside(l) == l.distance - l.accuracy > l.radius
Borderline(l) == ~ClearlyOutside(l) /\ l.distance + l.accuracy > l.radius
UnusableAccuracy(l) == l.accuracy > AtLeast(300, 3 * l.radius)
LocationConfidence(l) ==
    AtLeast(Pct(15), Clamp(One - (l.accuracy * One) \div AtLeast(2 * l.radius, 60)))
LocationSignal(c) ==
    LET l == c.location
        Located(status, score, confidence) ==
            Signal(status, score, confidence, [clearlyOutside |-> ClearlyOutside(l)])
    IN  IF ~Known(l) THEN Unavailable
        ELSE IF UnusableAccuracy(l)
        THEN Located("INCONCLUSIVE", Pct(50), AtMost(LocationConfidence(l), Pct(35)))
        ELSE IF ClearlyOutside(l) THEN Located("FAIL", 0, AtLeast(Pct(80), LocationConfidence(l)))
        ELSE IF Borderline(l) THEN Located("PARTIAL", Pct(65), AtLeast(Pct(50), LocationConfidence(l)))
        ELSE Located("PASS", AtLeast(Pct(85), One - (Pct(15) * l.distance) \div l.radius),
                     AtLeast(Pct(50), LocationConfidence(l)))

(***************************************************************************)
(* Session time: order, deadline and clock offset weigh the same.          *)
(***************************************************************************)
TimeSignal(c) ==
    LET t == c.time
        score == Mean(<<IF t.end >= t.start THEN One ELSE 0,
                        IF t.start <= t.deadline THEN One ELSE 0,
                        IF AbsOf(t.offset) <= 120 THEN One ELSE Pct(60)>>)
    IN  IF ~Known(t) THEN Unavailable
        ELSE Signal(StatusOfScore(score), score, IF t.end >= t.start THEN Pct(90) ELSE Pct(65), NoMetrics)

(***************************************************************************)
(* Challenges and their sensors.                                           *)
(***************************************************************************)
PassedTake(t) == t.outcome.result = "PASS"
FailedTake(t) == t.outcome.result = "FAIL"
UndecidedTake(t) == ~PassedTake(t) /\ ~FailedTake(t)
StronglyFailed(t) == FailedTake(t) /\ t.outcome.sensorScore >= Pct(80)
ContributionOfScore(t) == t.outcome.score
Contribution(t) ==
    IF PassedTake(t) THEN t.outcome.score
    ELSE IF FailedTake(t) THEN 0 ELSE AtMost(Pct(45), t.outcome.score \div 2)
SensorScoreOf(t) == t.outcome.sensorScore
CompletionOfDecided(takes) ==
    LET decided == Passing(takes, LAMBDA t : ~UndecidedTake(t))
    IN  IF decided = <<>> THEN 0 ELSE MeanOf(decided, Contribution)
Completion(takes) == MeanOf(takes, Contribution)
ChallengeSignal(c) ==
    LET score == Completion(c.takes)
        failed == Count(c.takes, FailedTake)
        status == IF failed + Count(c.takes, UndecidedTake) = 0 /\ score >= Pct(75) THEN "PASS"
                  ELSE IF failed >= 2 THEN "FAIL" ELSE "PARTIAL"
    IN  IF c.takes = <<>> THEN Unavailable
        ELSE Signal(status, score, MeanOf(c.takes, SensorScoreOf),
                    [highConfidenceFailures |-> Count(c.takes, StronglyFailed)])
SensorSignal(c) ==
    LET score == MeanOf(c.takes, SensorScoreOf)
        good == (Count(c.takes, LAMBDA t : t.outcome.gyroGood) * One) \div Len(c.takes)
    IN  IF c.takes = <<>> THEN Unavailable
        ELSE Signal(StatusOfScore(score), score, Clamp(Part(75, score) + Part(25, good)), NoMetrics)

(***************************************************************************)
(* Video.                                                                  *)
(***************************************************************************)
MotionSignal(c, rows) ==
    LET confidence == MeanOf(rows, LAMBDA r : r.confidence)
        succeeded == Count(rows, LAMBDA r : r.status = "SUCCESS")
        score == Clamp(Part(65, (succeeded * One) \div Cardinality(DOMAIN rows)) + Part(35, confidence))
    IN  IF DOMAIN rows = {} \/ Cardinality(DOMAIN rows) < Len(c.takes) THEN Unavailable
        ELSE IF \E i \in DOMAIN rows : rows[i].status = "PROCESSING"
        THEN Signal("INCONCLUSIVE", 0, 0, NoMetrics)
        ELSE Signal(IF succeeded = 0 THEN "INCONCLUSIVE" ELSE StatusOfScore(score), score, confidence, NoMetrics)
SceneSignal(rows) ==
    LET continuity == MeanOf(rows, LAMBDA r : r.continuity)
        duplicate == MostOf(rows, LAMBDA r : r.duplicate)
        invalid == MostOf(rows, LAMBDA r : r.invalid)
        major == continuity < Pct(40) \/ MostOf(rows, LAMBDA r : r.freeze) >= 2000 \/ duplicate >= Pct(50)
        score == Clamp(Part(70, continuity) + Part(15, One - duplicate) + Part(15, One - invalid))
    IN  IF DOMAIN rows = {} THEN Unavailable
        ELSE Signal(IF major THEN "FAIL" ELSE StatusOfScore(score), score,
                    MeanOf(rows, LAMBDA r : r.confidence), [majorDiscontinuity |-> major])

(***************************************************************************)
(* Fusion: one strong mismatch decides, then what could not be compared.   *)
(* The reasons of all rows are put together.                               *)
(***************************************************************************)
StrongMismatch(row) == row.status = "MISMATCH" /\ row.confidence >= Pct(80)
Effective(row) == IF Known(row.effective) THEN row.effective ELSE 0
Consistency(rows) ==
    LET some(status) == \E i \in DOMAIN rows : rows[i].status = status IN
    IF \E i \in DOMAIN rows : StrongMismatch(rows[i]) THEN "MISMATCH"
    ELSE IF some("INCONCLUSIVE") THEN "INCONCLUSIVE"
    ELSE IF some("MISMATCH") \/ some("PARTIALLY_CONSISTENT") THEN "PARTIALLY_CONSISTENT"
    ELSE "CONSISTENT"
StatusOfConsistency ==
    [MISMATCH |-> "FAIL", INCONCLUSIVE |-> "INCONCLUSIVE", PARTIALLY_CONSISTENT |-> "PARTIAL",
     CONSISTENT |-> "PASS"]
FusionSignal(c, rows) ==
    IF DOMAIN rows = {} \/ Cardinality(DOMAIN rows) < Len(c.takes) THEN Unavailable
    ELSE IF \E i \in DOMAIN rows : rows[i].stage # "COMPLETE" THEN Signal("INCONCLUSIVE", 0, 0, NoMetrics)
    ELSE Signal(StatusOfConsistency[Consistency(rows)],
                Clamp(MeanOf(rows, Effective)), MeanOf(rows, LAMBDA r : r.confidence),
                [consistencyStatus |-> Consistency(rows),
                 mismatchReasons |-> UNION {rows[i].reasons : i \in DOMAIN rows}])

SignalsOf(c, rows, fusion) ==
    [LOCATION |-> LocationSignal(c), SESSION_TIME |-> TimeSignal(c),
     CHALLENGE_COMPLETION |-> ChallengeSignal(c), SENSOR_QUALITY |-> SensorSignal(c),
     VISUAL_MOTION |-> MotionSignal(c, rows), SCENE_CONTINUITY |-> SceneSignal(rows),
     VISUAL_INERTIAL_CONSISTENCY |-> FusionSignal(c, fusion)]
=============================================================================
