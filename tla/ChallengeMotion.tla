--------------------------- MODULE ChallengeMotion ---------------------------
(***************************************************************************)
(* How the server judges one challenge by the sensors that the phone       *)
(* submitted: services/challenges/validators.                              *)
(*                                                                         *)
(* A take t has the kind of its challenge, the angles asked for, the time  *)
(* of its protocol (began, ended), the gyroscope samples [at, rate] about  *)
(* the challenge's axis and the rotation vector's change about it (or      *)
(* NoMeasure). A rate or an angle is positive when it turns as asked. Times*)
(* are milliseconds of the capture, rates milliradians per second, angles  *)
(* hundredths of a degree.                                                 *)
(***************************************************************************)
EXTENDS Fractions

ChallengeType == {"ROTATE_LEFT", "ROTATE_RIGHT", "TILT_UP", "TILT_DOWN"}
Degrees(d) == 100 * d
GyroSamples == Seq([at : Int, rate : Int])
AnglesAsked == [target : Nat, least : Nat \ {0}, most : Nat \ {0}]

(* The settings, core/config.py. *)
BaselineMs == 500
MovementThreshold == 180
SettleThreshold == 100
SettlingMs == 350
MinGyroSamples == 12
AgreementTolerance == Degrees(20)
SensorConflict == Degrees(35)
ChallengePass == Pct(75)
ChallengeInconclusive == Pct(50)

(***************************************************************************)
(* The motion in a sequence of samples: their rate without the bias of the *)
(* first samples, from the first fast one to the end of the first rest.    *)
(***************************************************************************)
Within(samples, from, until) == Passing(samples, LAMBDA s : s.at >= from /\ s.at <= until)
Bias(samples, from) ==
    LET baseline == Within(samples, from, from + BaselineMs)
    IN  IF baseline = <<>> THEN 0 ELSE Mean([i \in DOMAIN baseline |-> baseline[i].rate])
Debiased(samples, from) ==
    LET bias == Bias(samples, from) IN [i \in DOMAIN samples |-> samples[i].rate - bias]
Fast(rates) == {i \in DOMAIN rates : AbsOf(rates[i]) >= MovementThreshold}
RestAfter(samples, rates, onset) ==
    LET Rested(i) ==
            {j \in i..Len(samples) : /\ samples[j].at - samples[i].at >= SettlingMs
                                     /\ \A k \in i..j : AbsOf(rates[k]) <= SettleThreshold}
        begins == {i \in onset + 1..Len(samples) : Rested(i) # {}}
    IN  IF begins = {} THEN NoMeasure ELSE Min(Rested(Min(begins)))

SampleQuality(samples) ==
    IF /\ Len(samples) >= MinGyroSamples
       /\ \A i \in 2..Len(samples) : samples[i].at - samples[i - 1].at <= 150
    THEN "GOOD" ELSE "DEGRADED"

(* _integrate_gyro(): the trapezoids between the two ends of the motion.   *)
Turned(samples, rates, first, last) ==
    LET twice == SumFunction([i \in first..(last - 1) |->
            (rates[i] + rates[i + 1]) * (samples[i + 1].at - samples[i].at)])
    IN  (twice * 573) \div 200000
NoMotion == [angle |-> 0, from |-> NoMeasure, until |-> NoMeasure]
Integrated(samples) ==
    LET rates == Debiased(samples, samples[1].at)
        onset == Min(Fast(rates))
        rest == RestAfter(samples, rates, onset)
        last == IF Known(rest) THEN rest ELSE Len(samples)
    IN  IF Fast(rates) = {} THEN NoMotion
        ELSE [angle |-> Turned(samples, rates, onset, last),
              from |-> samples[onset].at, until |-> samples[last].at]

(***************************************************************************)
(* validate_axis_motion(): five scores, and an order of refusals.          *)
(***************************************************************************)
RotationKnown(t) == Known(t.rotation)
Observed(t, gyro) == IF RotationKnown(t) THEN (gyro + t.rotation) \div 2 ELSE gyro
SensorDifference(t, gyro) == AbsOf(gyro - t.rotation)

DirectionOfMotion(observed) ==
    IF observed >= Degrees(5) THEN One ELSE IF observed <= -Degrees(5) THEN 0 ELSE Pct(35)
AngleScore(observed, asked) ==
    LET span == AtLeast(asked.most - asked.least, Degrees(1)) IN
    IF observed <= 0 THEN 0
    ELSE IF observed < asked.least THEN AtMost(Pct(70), (Pct(70) * observed) \div asked.least)
    ELSE IF observed > asked.most
    THEN AtLeast(0, Pct(75) - ((observed - asked.most) * One) \div asked.most)
    ELSE Pct(80) + Part(20, One - AtMost(One, (AbsOf(observed - asked.target) * One) \div span))
Agreement(t, gyro) ==
    IF ~RotationKnown(t) THEN Pct(50)
    ELSE AtLeast(0, One - (SensorDifference(t, gyro) * One) \div AgreementTolerance)
Timing(motion) ==
    IF Known(motion.from) /\ motion.until - motion.from \in 250..5000 THEN One ELSE Pct(55)
Smoothness(samples) ==
    (Cardinality({i \in DOMAIN samples : samples[i].rate >= -30}) * One) \div Len(samples)
ChallengeScore(t, samples, motion, observed) ==
    Part(45, DirectionOfMotion(observed)) + Part(20, AngleScore(observed, t.asked))
    + Part(10, Agreement(t, motion.angle)) + Part(10, Timing(motion)) + Part(15, Smoothness(samples))
SensorScore(t, samples, motion) ==
    Part(60, Agreement(t, motion.angle)) + Part(40, IF SampleQuality(samples) = "GOOD" THEN One ELSE Pct(60))

(* A movement far too small never passes, whatever its score.              *)
ResultOfScore(score) ==
    IF score >= ChallengePass THEN "PASS"
    ELSE IF score >= ChallengeInconclusive THEN "INCONCLUSIVE" ELSE "FAIL"
ResultOf(t, motion, observed, score) ==
    IF DirectionOfMotion(observed) = 0 THEN "FAIL"
    ELSE IF RotationKnown(t) /\ SensorDifference(t, motion.angle) > SensorConflict THEN "INCONCLUSIVE"
    ELSE IF AtLeast(0, observed) * 100 < t.asked.least * 65 THEN "FAIL"
    ELSE ResultOfScore(score)

NotValidated ==
    [result |-> "INCONCLUSIVE", score |-> 0, sensorScore |-> 0, gyroGood |-> FALSE,
     angle |-> NoMeasure, from |-> NoMeasure, until |-> NoMeasure]
Validated(t) ==
    LET samples == Within(t.gyro, t.began, t.ended)
        motion == Integrated(samples)
        observed == Observed(t, motion.angle)
        score == ChallengeScore(t, samples, motion, observed)
    IN  IF Len(samples) < MinGyroSamples
        THEN [NotValidated EXCEPT !.gyroGood = SampleQuality(samples) = "GOOD"]
        ELSE [result |-> ResultOf(t, motion, observed, score), score |-> Clamp(score),
              sensorScore |-> Clamp(SensorScore(t, samples, motion)),
              gyroGood |-> SampleQuality(samples) = "GOOD",
              angle |-> observed, from |-> motion.from, until |-> motion.until]
=============================================================================
