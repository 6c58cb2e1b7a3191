----------------------------- MODULE VideoMotion -----------------------------
(***************************************************************************)
(* How the video of one challenge is analysed: vision/timeline.py,         *)
(* continuity.py and visual_challenge_analyzer.py.                         *)
(*                                                                         *)
(* The film of a take t says when the video begins and how long it lasts   *)
(* (ms of the capture), its frames, its median number of features, its     *)
(* brightness and sharpness and the share of frames that are invalid. A    *)
(* frame is [at, same, cut, black, moved]: whether it repeats the frame    *)
(* before it, cuts from it, is black, and the global motion between the    *)
(* two, NoMeasure where no transform was found. A motion has the camera's  *)
(* angle by translation (positive: right, or up), the rotation in the      *)
(* image plane, the inliers, the grid coverage and whether it flowed.      *)
(***************************************************************************)
EXTENDS ChallengeMotion

VisualStatus == {"PROCESSING", "SUCCESS", "INCONCLUSIVE", "FAILED"}
Horizontal(kind) == kind \in {"ROTATE_LEFT", "ROTATE_RIGHT"}

GlobalMotion == [angle : Int, spin : Int, inliers : Score, coverage : Score, flows : BOOLEAN]
VideoFrame == [at : Int, same : BOOLEAN, cut : BOOLEAN, black : BOOLEAN, moved : Maybe(GlobalMotion)]
Footage ==
    [begins : Int, lasts : Int, frames : Seq(VideoFrame), features : Nat,
     brightness : Nat, sharpness : Nat, invalid : Score]

(* The settings. *)
Padding == 200
MinFeatures == 40
MinInliers == Pct(45)
MaxInvalid == Pct(20)

(***************************************************************************)
(* The window: the movement that the gyroscope showed if it lies within    *)
(* the protocol's times, padded, and clipped to the video.                 *)
(***************************************************************************)
MovementWindow(t, outcome) ==
    IF /\ Known(outcome.from)
       /\ t.began <= outcome.from /\ outcome.from < outcome.until /\ outcome.until <= t.ended
    THEN <<outcome.from, outcome.until>> ELSE <<t.began, t.ended>>
AnalysisWindow(t, outcome) ==
    LET motion == MovementWindow(t, outcome)
        Clip(ms) == AtLeast(t.film.begins, AtMost(t.film.begins + t.film.lasts, ms))
    IN  <<Clip(AtLeast(0, motion[1] - Padding)), Clip(motion[2] + Padding)>>
FramesIn(t, window) == Within(t.film.frames, window[1], window[2])
(* Otherwise the analysis of the session breaks off at this take. *)
Decodable(t, outcome) ==
    LET window == AnalysisWindow(t, outcome)
    IN  window[1] < window[2] /\ Len(FramesIn(t, window)) >= 2

(***************************************************************************)
(* Continuity: repeated frames, freezes, cuts and black frames cost score, *)
(* blur no more than a quarter of it.                                      *)
(***************************************************************************)
Pairs(frames) == 2..Len(frames)
ShareOf(set, of) == (Cardinality(set) * One) \div AtLeast(1, of)
Repeated(frames) == {i \in Pairs(frames) : frames[i].same}
DuplicateShare(frames) == ShareOf(Repeated(frames), Len(frames) - 1)
Freeze(frames) ==
    Max({0} \cup {frames[p[2]].at - frames[p[1] - 1].at :
            p \in {q \in Pairs(frames) \X Pairs(frames) : q[1] <= q[2] /\ q[1]..q[2] \subseteq Repeated(frames)}})
Clarity(sharpness) ==
    IF sharpness >= 30 THEN One
    ELSE IF sharpness >= 10 THEN Pct(65) + (Pct(35) * (sharpness - 10)) \div 20
    ELSE Pct(25) + (Pct(40) * sharpness) \div 10
Continuity(film, frames) ==
    LET cuts == AtMost(One, ShareOf({i \in Pairs(frames) : frames[i].cut}, AtLeast(1, (Len(frames) - 1) \div 3)))
        black == ShareOf({i \in DOMAIN frames : frames[i].black}, Len(frames))
        structural == Clamp(One - Part(45, DuplicateShare(frames)) - Part(30, cuts)
                            - Part(15, black) - Part(10, film.invalid))
    IN  Times(structural, Pct(75) + Part(25, Clarity(film.sharpness)))

QualityOf(film, continuity) ==
    LET Fits(features, least, dark, bright, sharp) ==
            /\ film.features >= features /\ continuity >= least
            /\ film.brightness \in dark..bright /\ film.sharpness >= sharp
    IN  IF Fits(2 * MinFeatures, Pct(80), 20, 235, 30) THEN "GOOD"
        ELSE IF Fits(MinFeatures, Pct(55), 10, 245, 10) THEN "FAIR" ELSE "POOR"

(***************************************************************************)
(* The direction: isolated estimates are dropped, the rest are added up;   *)
(* rotation in the image replaces the translation where it dominates.      *)
(***************************************************************************)
AtOrBelow(s, v) == Cardinality({i \in DOMAIN s : s[i] <= v})
Median(s) ==
    LET size == Cardinality(DOMAIN s)
    IN  IF size = 0 THEN 0
        ELSE (Min({v \in Range(s) : 2 * AtOrBelow(s, v) >= size})
              + Min({v \in Range(s) : 2 * AtOrBelow(s, v) > size})) \div 2
Robust(angles) ==
    LET center == Median(angles)
        spread == Median([i \in DOMAIN angles |-> AbsOf(angles[i] - center)])
        kept == Passing(angles, LAMBDA a : 100 * AbsOf(a - center) <= AtLeast(2500, 519 * spread))
    IN  IF Len(angles) < 4 \/ spread = 0 \/ Len(kept) < 2 THEN angles ELSE kept
SpinDominates(kind, shift, spin) ==
    Horizontal(kind) /\ AbsOf(spin) >= Degrees(2) /\ 2 * AbsOf(spin) > 3 * AbsOf(shift)

DirectionOf(kind, angle) ==
    IF AbsOf(angle) < 150 THEN "NONE"
    ELSE IF Horizontal(kind) THEN IF angle > 0 THEN "RIGHT" ELSE "LEFT"
    ELSE IF angle > 0 THEN "UP" ELSE "DOWN"
(* The top edge of the phone goes one way, the camera's axis the other.    *)
ExpectedVisualDirection ==
    [ROTATE_LEFT |-> "LEFT", ROTATE_RIGHT |-> "RIGHT", TILT_UP |-> "DOWN", TILT_DOWN |-> "UP"]
Support(angles, total) ==
    LET told == {i \in DOMAIN angles : AbsOf(angles[i]) >= 5}
    IN  ShareOf({i \in told : (angles[i] > 0) = (total >= 0)}, Cardinality(told))

(***************************************************************************)
(* analyze_visual_challenge(): the row of a take.                          *)
(***************************************************************************)
BlankRow(status) ==
    [status |-> status, direction |-> "NONE", angle |-> NoMeasure, start |-> NoMeasure, end |-> NoMeasure,
     confidence |-> 0, quality |-> "POOR", continuity |-> 0, duplicate |-> 0, invalid |-> 0, freeze |-> 0,
     window |-> NoMeasure]

StatusOfMotion(kind, total, confidence) ==
    IF /\ AbsOf(total) >= Degrees(2)
       /\ DirectionOf(kind, total) = ExpectedVisualDirection[kind]
       /\ confidence >= Pct(45)
    THEN "SUCCESS" ELSE "INCONCLUSIVE"

VideoRow(t, outcome) ==
    LET film == t.film
        window == AnalysisWindow(t, outcome)
        frames == FramesIn(t, window)
        continuity == Continuity(film, frames)
        Measured(status) ==
            [BlankRow(status) EXCEPT !.continuity = continuity, !.duplicate = DuplicateShare(frames),
                !.invalid = film.invalid, !.freeze = Freeze(frames), !.window = window]
        quality == QualityOf(film, continuity)
        found == Passing(Tail(frames), LAMBDA f : Known(f.moved))
        usable == Passing(found, LAMBDA f : f.moved.inliers >= MinInliers)
        MeanMoved(Field(_)) == Mean([i \in DOMAIN usable |-> Field(usable[i].moved)])
        shifts == Robust([i \in DOMAIN usable |-> usable[i].moved.angle])
        spins == Robust([i \in DOMAIN usable |-> usable[i].moved.spin])
        spinning == SpinDominates(t.kind, SumFunction(shifts), SumFunction(spins))
        angles == IF spinning THEN [i \in DOMAIN spins |-> -spins[i]] ELSE shifts
        total == SumFunction(angles)
        confidence ==
            Clamp(Part(20, AtMost(One, (film.features * One) \div (2 * MinFeatures)))
                  + Part(30, MeanMoved(LAMBDA m : m.inliers)) + Part(25, Support(angles, total))
                  + Part(15, MeanMoved(LAMBDA m : m.coverage)) + Part(10, continuity))
        flowing == Passing(usable, LAMBDA f : f.moved.flows)
    IN  IF Len(frames) < 3 \/ film.invalid > MaxInvalid THEN Measured("INCONCLUSIVE")
        ELSE IF film.features < MinFeatures \/ Len(usable) < 2
        THEN [Measured("INCONCLUSIVE") EXCEPT !.quality = quality]
        ELSE [Measured(StatusOfMotion(t.kind, total, confidence)) EXCEPT
                !.direction = DirectionOf(t.kind, total), !.angle = AbsOf(total), !.quality = quality,
                !.confidence = confidence,
                !.start = IF flowing = <<>> THEN NoMeasure ELSE flowing[1].at,
                !.end = IF flowing = <<>> THEN NoMeasure ELSE flowing[Len(flowing)].at]
=============================================================================
