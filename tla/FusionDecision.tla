--------------------------- MODULE FusionDecision ---------------------------
(***************************************************************************)
(* How one challenge's phone motion (sensors) and camera motion (video)    *)
(* are compared: services/fusion/comparators.py and aggregator.py.         *)
(*                                                                         *)
(* An estimate is a record with the direction of the motion, its angle in  *)
(* hundredths of a degree, its start and end in milliseconds (NoMeasure    *)
(* where there is none), the confidence of the source and the label of its *)
(* quality. A measurement m has a sensor and a visual estimate, the        *)
(* correlation of the two curves, the scene's continuity and the longest   *)
(* freeze, and says whether each source's input was valid at all.          *)
(***************************************************************************)
EXTENDS VideoMotion

ConsistencyStatus == {"CONSISTENT", "PARTIALLY_CONSISTENT", "MISMATCH", "INCONCLUSIVE"}
Undirected == {"NONE", "MIXED"}
StrongContradictions ==
    {"OPPOSITE_DIRECTION", "VISUAL_WITHOUT_SENSOR_MOTION", "SENSOR_WITHOUT_VISUAL_MOTION"}

(* The settings the comparison uses, core/config.py. *)
StrongAngleError == Degrees(8)
MaxAngleError == Degrees(25)
MotionFloor == Degrees(5)
LargeMotion == Degrees(25)
PassThreshold == Pct(80)
PartialThreshold == Pct(60)
MinSourceConfidence == Pct(50)
StrongConfidence == Pct(80)
MinContinuity == Pct(55)
FreezeWarning == 1500
TimingWeak == 700
DurationMismatch == Pct(35)
Weights == [direction |-> 25, magnitude |-> 25, timing |-> 20, correlation |-> 20, duration |-> 10]

(***************************************************************************)
(* The five components of a comparison, each a score or NoMeasure.         *)
(***************************************************************************)
Directed(e) == e.direction \notin Undirected
Opposite(m) == Directed(m.sensor) /\ Directed(m.visual) /\ m.sensor.direction # m.visual.direction
SameDirection(m) == Directed(m.sensor) /\ m.sensor.direction = m.visual.direction

DirectionScore(m) ==
    IF ~Directed(m.sensor) \/ ~Directed(m.visual) THEN Pct(50)
    ELSE IF Opposite(m) THEN 0 ELSE One

AngleError(m) ==
    IF Known(m.sensor.angle) /\ Known(m.visual.angle)
    THEN AbsOf(m.sensor.angle - m.visual.angle) ELSE NoMeasure

AbsoluteAngleScore(error) ==
    IF error <= StrongAngleError THEN One
    ELSE IF error >= MaxAngleError THEN 0
    ELSE Slope(error, StrongAngleError, MaxAngleError, One, 0)

(* Relative error costs the whole of its share at 60 percent. *)
MagnitudeScore(m) ==
    LET error == AngleError(m) IN
    IF ~Known(error) THEN NoMeasure
    ELSE LET relative == (error * One) \div AtLeast(m.sensor.angle, Degrees(1))
         IN  Part(70, AbsoluteAngleScore(error)) + Part(30, AtLeast(0, One - (relative * 10) \div 6))

OffsetScore(offset) ==
    LET ms == AbsOf(offset) IN
    CASE ms <= 150 -> One
      [] ms \in 151..350 -> Slope(ms, 150, 350, One, Pct(80))
      [] ms \in 351..TimingWeak -> Slope(ms, 350, TimingWeak, Pct(80), Pct(35))
      [] OTHER -> AtLeast(0, Slope(ms, TimingWeak, 2 * TimingWeak, Pct(35), 0))

Offset(m, edge) ==
    IF Known(m.sensor[edge]) /\ Known(m.visual[edge])
    THEN m.visual[edge] - m.sensor[edge] ELSE NoMeasure
TimingScore(m) ==
    LET edges == {e \in {"start", "end"} : Known(Offset(m, e))}
    IN  IF edges = {} THEN NoMeasure ELSE Mean([e \in edges |-> OffsetScore(Offset(m, e))])

DurationScore(m) ==
    IF \E e \in {m.sensor, m.visual} : ~Known(e.start) \/ ~Known(e.end) THEN NoMeasure
    ELSE LET lasted(e) == AtLeast(0, e.end - e.start)
             longest == AtLeast(1, AtLeast(lasted(m.sensor), lasted(m.visual)))
             relative == (AbsOf(lasted(m.sensor) - lasted(m.visual)) * 100) \div longest
         IN  CASE relative <= 15 -> One
               [] relative \in 16..30 -> Pct(85)
               [] relative \in 31..60 -> Pct(45)
               [] OTHER -> AtLeast(0, Pct(100 - relative))

CorrelationScore(m) == IF Known(m.correlation) THEN Clamp(m.correlation) ELSE NoMeasure

Components(m) ==
    [direction |-> DirectionScore(m), magnitude |-> MagnitudeScore(m), timing |-> TimingScore(m),
     correlation |-> CorrelationScore(m), duration |-> DurationScore(m)]

(***************************************************************************)
(* The weighted mean of the components there are, and their share.         *)
(***************************************************************************)
Present(m) == {c \in DOMAIN Weights : Known(Components(m)[c])}
Coverage(m) == SumFunctionOnSet(Weights, Present(m))
RawScore(m) ==
    IF Present(m) = {} THEN NoMeasure
    ELSE SumFunctionOnSet([c \in Present(m) |-> Weights[c] * Components(m)[c]], Present(m)) \div Coverage(m)

(***************************************************************************)
(* Which sources can be relied on.                                         *)
(***************************************************************************)
RecoverablePoorVisual(m) ==
    /\ m.visualValid
    /\ m.visual.quality = "POOR"
    /\ m.visual.confidence >= Pct(75)
    /\ m.continuity >= Pct(85)
    /\ m.freeze < FreezeWarning
LowSensor(m) ==
    \/ ~m.sensorValid
    \/ m.sensor.confidence < MinSourceConfidence
    \/ m.sensor.quality = "UNAVAILABLE"
LowVisual(m) ==
    \/ ~m.visualValid
    \/ m.visual.confidence < MinSourceConfidence
    \/ m.visual.quality = "POOR" /\ ~RecoverablePoorVisual(m)
ContinuityAnomaly(m) == m.continuity < MinContinuity \/ m.freeze >= FreezeWarning
HighConfidencePair(m) ==
    m.sensor.confidence >= StrongConfidence /\ m.visual.confidence >= StrongConfidence

SourceConfidence(m) ==
    LET s == m.sensor.confidence
        v == m.visual.confidence
        geometric == Pct(Sqrt((s \div 600) * (v \div 600)))
    IN  Part(60, geometric) + Part(25, AtMost(s, v)) + Pct(15 * Coverage(m)) \div 100
FusionConfidence(m) ==
    LET poor == IF RecoverablePoorVisual(m) THEN 95 ELSE 100
        anomalous == IF ContinuityAnomaly(m) THEN 90 ELSE 100
    IN  Part(anomalous, Part(poor, SourceConfidence(m)))

(***************************************************************************)
(* The reasons that are recorded with the decision.                        *)
(***************************************************************************)
AngleOf(e) == IF Known(e.angle) THEN e.angle ELSE 0
Still(e) == e.direction = "NONE" /\ AngleOf(e) <= MotionFloor
Contradictions(m) ==
    IF ~HighConfidencePair(m) THEN {}
    ELSE {r \in StrongContradictions :
            \/ r = "OPPOSITE_DIRECTION" /\ Opposite(m)
            \/ r = "VISUAL_WITHOUT_SENSOR_MOTION" /\ Still(m.sensor) /\ AngleOf(m.visual) >= LargeMotion
            \/ r = "SENSOR_WITHOUT_VISUAL_MOTION" /\ Still(m.visual) /\ AngleOf(m.sensor) >= LargeMotion}

QualityReasons(m) ==
    {r \in {"LOW_SENSOR_QUALITY", "LOW_VISUAL_QUALITY", "SCENE_CONTINUITY_ANOMALY", "CURVE_UNAVAILABLE"} :
        \/ r = "LOW_SENSOR_QUALITY" /\ LowSensor(m)
        \/ r = "LOW_VISUAL_QUALITY" /\ (LowVisual(m) \/ RecoverablePoorVisual(m))
        \/ r = "SCENE_CONTINUITY_ANOMALY" /\ ContinuityAnomaly(m)
        \/ r = "CURVE_UNAVAILABLE" /\ ~Known(m.correlation)}
MeasureReasons(m) ==
    {r \in {"MAGNITUDE_MISMATCH", "TEMPORAL_MISMATCH", "DURATION_MISMATCH"} :
        \/ r = "MAGNITUDE_MISMATCH" /\ Known(AngleError(m)) /\ AngleError(m) > MaxAngleError
        \/ r = "TEMPORAL_MISMATCH" /\ \E e \in {"start", "end"} :
                Known(Offset(m, e)) /\ AbsOf(Offset(m, e)) > TimingWeak
        \/ r = "DURATION_MISMATCH" /\ Known(DurationScore(m)) /\ DurationScore(m) < DurationMismatch}

(***************************************************************************)
(* The decision: a status, the effective score and its confidence. Poor    *)
(* sources decide nothing, a contradiction overrides the score.            *)
(***************************************************************************)
EffectiveScore(m) ==
    LET raw == RawScore(m) IN
    IF LowSensor(m) \/ LowVisual(m) THEN raw
    ELSE IF Contradictions(m) # {}
    THEN IF Known(raw) THEN AtMost(raw, PartialThreshold - Pct(1)) ELSE 0
    ELSE IF ~Known(raw) THEN NoMeasure
    ELSE Times(raw, Pct(80) + Part(20, FusionConfidence(m)))

StatusOf(m) ==
    IF LowSensor(m) \/ LowVisual(m) THEN "INCONCLUSIVE"
    ELSE IF Contradictions(m) # {} THEN "MISMATCH"
    ELSE IF ~Known(RawScore(m)) THEN "INCONCLUSIVE"
    ELSE IF EffectiveScore(m) >= PassThreshold THEN "CONSISTENT"
    ELSE IF EffectiveScore(m) >= PartialThreshold THEN "PARTIALLY_CONSISTENT"
    ELSE "MISMATCH"

Fused(m) ==
    [stage |-> "COMPLETE", status |-> StatusOf(m), effective |-> EffectiveScore(m), confidence |-> FusionConfidence(m),
     reasons |-> Contradictions(m) \cup QualityReasons(m) \cup MeasureReasons(m),
     sameDirection |-> SameDirection(m), angleError |-> AngleError(m),
     offsets |-> {AbsOf(Offset(m, e)) : e \in {f \in {"start", "end"} : Known(Offset(m, f))}}]
=============================================================================
