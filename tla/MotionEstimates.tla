-------------------------- MODULE MotionEstimates --------------------------
(***************************************************************************)
(* How a challenge's gyroscope samples and its visual row become the two   *)
(* estimates of a measurement: fusion/sensor_evidence.py, normalizer.py    *)
(* and the call of decide_fusion() in fusion/service.py. A take t is what  *)
(* ChallengeMotion and VideoMotion describe, with the outcome of its       *)
(* validation and the best correlation of its two curves.                  *)
(***************************************************************************)
EXTENDS FusionDecision

ExpectedDirection ==
    [ROTATE_LEFT |-> "LEFT", ROTATE_RIGHT |-> "RIGHT", TILT_UP |-> "UP", TILT_DOWN |-> "DOWN"]
OppositeDirection ==
    [LEFT |-> "RIGHT", RIGHT |-> "LEFT", UP |-> "DOWN", DOWN |-> "UP", NONE |-> "NONE", MIXED |-> "MIXED"]
Tilts == {"TILT_UP", "TILT_DOWN"}
FallbackWindow == 8000

(* challenge_window_ms(): the window of the visual analysis, if it has one *)
SensorWindow(t, row) == IF Known(row.window) THEN row.window ELSE <<t.began, t.began + FallbackWindow>>

(* extract_sensor_curve(): the bias is that of the window's first samples. *)
NoCurve == [start |-> NoMeasure, end |-> NoMeasure, quality |-> "UNAVAILABLE"]
SensorCurve(t, window) ==
    LET samples == Within(t.gyro, window[1], window[2])
        rates == Debiased(samples, window[1])
        rest == RestAfter(samples, rates, Min(Fast(rates)))
    IN  IF Len(samples) < 3 THEN NoCurve
        ELSE IF Fast(rates) = {} THEN [NoCurve EXCEPT !.quality = SampleQuality(samples)]
        ELSE [start |-> samples[Min(Fast(rates))].at,
              end |-> samples[IF Known(rest) THEN rest ELSE Max(Fast(rates))].at,
              quality |-> SampleQuality(samples)]

(* normalize_sensor_motion(): less than three degrees is no motion.        *)
SensorDirection(t) ==
    LET angle == t.outcome.angle IN
    IF ~Known(angle) THEN "NONE"
    ELSE IF AbsOf(angle) < Degrees(3) THEN "NONE"
    ELSE IF angle > 0 THEN ExpectedDirection[t.kind]
    ELSE OppositeDirection[ExpectedDirection[t.kind]]
SensorEstimate(t, row) ==
    LET curve == SensorCurve(t, SensorWindow(t, row))
        angle == t.outcome.angle
    IN  [direction |-> SensorDirection(t), angle |-> IF Known(angle) THEN AbsOf(angle) ELSE NoMeasure,
         start |-> curve.start, end |-> curve.end,
         confidence |-> t.outcome.sensorScore, quality |-> curve.quality]

(* normalize_visual_motion(): a tilt is labelled by the camera's axis, not *)
(* by the phone's edge, and is turned round.                               *)
CameraLabel(t, row) == row.direction
CameraDirection(t, row) ==
    IF t.kind \in Tilts /\ row.direction \in {"UP", "DOWN"}
    THEN OppositeDirection[row.direction] ELSE row.direction
VisualEstimate(t, row) ==
    [direction |-> CameraDirection(t, row), angle |-> row.angle, start |-> row.start, end |-> row.end,
     confidence |-> row.confidence, quality |-> row.quality]

(* Only an analysis that found a motion leaves a curve to be compared.     *)
HasCurve(row) == Known(row.angle)
Measurement(t, row) ==
    [sensor |-> SensorEstimate(t, row), visual |-> VisualEstimate(t, row),
     correlation |-> IF HasCurve(row) THEN t.correlation ELSE NoMeasure,
     continuity |-> row.continuity, freeze |-> row.freeze,
     sensorValid |-> t.outcome.result # "INCONCLUSIVE", visualValid |-> row.status = "SUCCESS"]
FusedTake(t, row) == Fused(Measurement(t, row))
=============================================================================
