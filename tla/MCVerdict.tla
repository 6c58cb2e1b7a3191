----------------------------- MODULE MCVerdict -----------------------------
(***************************************************************************)
(* Verdict for TLC: takes in which the phone and the camera move in every  *)
(* way that the analyses tell apart, and streams with one flaw each.       *)
(***************************************************************************)
EXTENDS Verdict

(* The phone rests 700 ms, turns at 'rate' for 'lasts' ms, and rests. *)
Samples(rate, lasts, every) ==
    [i \in 1..(2400 \div every) |->
        LET at == 1000 + every * i
        IN  [at |-> at, rate |-> IF at > 1700 /\ at <= 1700 + lasts THEN rate ELSE 4]]
(* The angle that the rotation vector shows for it. *)
Swing(rate, lasts) == (rate * lasts * 57) \div 10000

(* The camera moves 'angle' in each of the frames of 'lasts' ms. *)
Moved(angle, spin, inliers) ==
    [angle |-> angle, spin |-> spin, inliers |-> Pct(inliers), coverage |-> Pct(90), flows |-> AbsOf(angle) >= 100]
Frames(angle, lasts, spin, inliers, Same(_), Cut(_)) ==
    [i \in 1..12 |->
        LET at == 900 + 200 * i
            turning == at > 1700 /\ at <= 1700 + lasts
        IN  [at |-> at, same |-> Same(i), cut |-> Cut(i), black |-> FALSE,
             moved |-> Moved(IF turning THEN angle ELSE 1, IF turning THEN spin ELSE 0, inliers)]]
Never(i) == FALSE
Always(i) == TRUE
Film(frames, features, sharpness, invalid) ==
    [begins |-> 0, lasts |-> 20000, frames |-> frames, features |-> features,
     brightness |-> 120, sharpness |-> sharpness, invalid |-> invalid]

(* Films of a left turn of the phone: the camera's angles are negative.    *)
Films ==
    [clear |-> Film(Frames(-650, 1000, 0, 90, Never, Never), 200, 60, 0),
     short |-> Film(Frames(-300, 400, 0, 90, Never, Never), 200, 60, 0),
     opposite |-> Film(Frames(650, 1000, 0, 90, Never, Never), 200, 60, 0),
     still |-> Film(Frames(2, 1000, 0, 90, Never, Never), 200, 60, 0),
     spun |-> Film(Frames(-40, 1000, 600, 80, Never, Never), 200, 60, 0),
     frozen |-> Film(Frames(-650, 1000, 0, 90, LAMBDA i : i > 5, Never), 200, 60, 0),
     cut |-> Film(Frames(-650, 1000, 0, 90, Never, LAMBDA i : i \in {6, 8}), 120, 20, Pct(10)),
     blurred |-> Film(Frames(-650, 1000, 0, 50, Never, Never), 45, 5, Pct(15)),
     featureless |-> Film(Frames(-650, 1000, 0, 90, Never, Never), 20, 60, 0),
     elsewhere |-> [Film(Frames(-650, 1000, 0, 90, Never, Never), 200, 60, 0) EXCEPT !.begins = 9000]]

RawTake(kind, rate, lasts, rotation, every, film, correlation) ==
    [kind |-> kind, asked |-> [target |-> Degrees(35), least |-> Degrees(24), most |-> Degrees(47)],
     began |-> 1000, ended |-> 3500, gyro |-> Samples(rate, lasts, every), rotation |-> rotation,
     film |-> film, correlation |-> correlation]

(* Motions of the phone: as asked, too small, the other way, none, in      *)
(* conflict with the rotation vector, without it, sparsely sampled.        *)
LeftTake(rate, lasts, rotation, every, f, correlation) ==
    RawTake("ROTATE_LEFT", rate, lasts, rotation, every, Films[f], correlation)
AsAsked(f, correlation) == LeftTake(620, 1000, Swing(620, 1000), 100, f, correlation)
Motions(f, correlation) ==
    {AsAsked(f, correlation),
     LeftTake(380, 1000, Swing(380, 1000), 100, f, correlation),
     LeftTake(200, 1000, Swing(200, 1000), 100, f, correlation),
     LeftTake(-620, 1000, Swing(-620, 1000), 100, f, correlation),
     LeftTake(20, 1000, Swing(20, 1000), 100, f, correlation),
     LeftTake(620, 1000, Degrees(80), 100, f, correlation),
     LeftTake(620, 1000, NoMeasure, 160, f, correlation),
     LeftTake(620, 1000, NoMeasure, 400, f, correlation)}
GoodTake == AsAsked("clear", Pct(95))
TiltTake == RawTake("TILT_DOWN", 620, 1000, Swing(620, 1000), 100,
                    Film(Frames(650, 1000, 0, 90, Never, Never), 200, 60, 0), Pct(90))
WrongWay == LeftTake(-620, 1000, Swing(-620, 1000), 100, "opposite", Pct(90))
OddTakes == {AsAsked(f, Pct(60)) : f \in DOMAIN Films}
TakeSets ==
    {<<t>> : t \in OddTakes \cup UNION {Motions(f, Pct(40)) : f \in {"clear", "opposite"}}}
    \cup {<<WrongWay, WrongWay>>}
    \cup {<<AsAsked(f, Pct(60)), TiltTake>> : f \in {"short", "still", "cut", "elsewhere"}}
    \cup {<<t, TiltTake>> : t \in Motions("clear", NoMeasure)}

At(distance, accuracy) == [distance |-> distance, radius |-> 50, accuracy |-> accuracy]
Inside == At(5, 8)
Locations == {At(40, 20), At(60, 15), At(200, 20), At(120, 400), NoMeasure}
OnTime == [start |-> 50, end |-> 60, deadline |-> 100, offset |-> 3]
Late == [start |-> 150, end |-> 140, deadline |-> 100, offset |-> 300]
Capture(l, t, s) == [location |-> l, time |-> t, takes |-> s]
(* A pass whose score lets the place and the time decide. *)
Faint == LeftTake(380, 1000, NoMeasure, 160, "clear", Pct(40))
Captures ==
    {Capture(Inside, OnTime, s) : s \in TakeSets}
    \cup {Capture(l, t, <<Faint, TiltTake>>) : l \in {At(45, 4), At(40, 20)}, t \in {OnTime, Late}}
    \cup {Capture(l, t, <<GoodTake>>) : l \in Locations \cup {Inside}, t \in {OnTime, Late, NoMeasure}}

Fix(at, place) == [ok |-> TRUE, at |-> at, place |-> place, accuracy |-> 8, fast |-> FALSE, mock |-> FALSE]
Walk == <<Fix(0, 0), Fix(1000, 2), Fix(2000, 3)>>
CleanSensors ==
    [samples |-> 400, reversals |-> 0, gaps |-> 0, regular |-> FALSE, outOfRange |-> 0, zeroStream |-> FALSE,
     repeated |-> 0, windows |-> 6, conflict |-> FALSE, malformed |-> 0]
CleanFrames == [count |-> VideoSampleCount, rectangle |-> Pct(10), banding |-> Pct(5), moire |-> Pct(5)]
CleanDevice == [fields |-> 8, emulator |-> FALSE, testKeys |-> FALSE, root |-> FALSE, debugger |-> FALSE]
Heard(points) == [enabled |-> TRUE, permitted |-> TRUE, points |-> points]
Clean ==
    [fixes |-> Walk, still |-> FALSE, sensors |-> CleanSensors, reused |-> {}, device |-> CleanDevice,
     attestation |-> NoMeasure, frames |-> CleanFrames, replacedDuplicate |-> 0,
     wifi |-> <<Heard([p \in {"a", "b"} |-> -50]), Heard([p \in {"a", "c"} |-> -60])>>]
(* Frames of a screen, beside a replaced attempt whose frames repeat. *)
Refilmed ==
    [Clean EXCEPT !.frames = [@ EXCEPT !.rectangle = Pct(95), !.banding = Pct(90), !.moire = Pct(92)],
                  !.replacedDuplicate = Pct(95)]
Streams ==
    {[Clean EXCEPT !.fixes[2].mock = TRUE],
     [Clean EXCEPT !.fixes[2].place = 900, !.wifi = NoMeasure],
     [Clean EXCEPT !.fixes = [i \in 1..6 |-> Fix(1000 * i, 900 * (i % 2))]],
     [Clean EXCEPT !.fixes = <<>>, !.wifi = <<>>],
     [Clean EXCEPT !.fixes = [i \in 1..9 |-> Fix(900 * i, 7 * i)], !.still = TRUE],
     [Clean EXCEPT !.fixes = <<[Fix(500, 0) EXCEPT !.fast = TRUE, !.mock = NoMeasure], Fix(400, 1)>>],
     [Clean EXCEPT !.reused = {"VIDEO", "SENSOR_DATA"}],
     [Clean EXCEPT !.reused = {"VIDEO"}],
     [Clean EXCEPT !.reused = {"SENSOR_DATA"}],
     [Clean EXCEPT !.attestation = [app |-> "PASS", device |-> "FAIL"]],
     [Clean EXCEPT !.attestation = [app |-> "PASS", device |-> "PASS"], !.device.emulator = TRUE],
     [Clean EXCEPT !.attestation = [app |-> "PASS", device |-> "PARTIAL"]],
     [Clean EXCEPT !.device.root = TRUE, !.device.fields = 3],
     [Clean EXCEPT !.sensors = [CleanSensors EXCEPT !.outOfRange = 9, !.reversals = 8, !.repeated = 6]],
     [Clean EXCEPT !.sensors = [CleanSensors EXCEPT !.samples = 0], !.frames.count = 0],
     Refilmed,
     [Clean EXCEPT !.frames.rectangle = Pct(98)]}

Opposed == AsAsked("opposite", Pct(10))
MCCases ==
    [capture : Captures, stream : {Clean}, failures : {0}]
    \cup [capture : {Capture(Inside, OnTime, <<t>>) : t \in {GoodTake, Opposed}},
          stream : Streams, failures : {0}]
    \cup [capture : {Capture(Inside, OnTime, <<GoodTake, Opposed>>)}, stream : {Refilmed}, failures : {0}]
    \cup [capture : {Capture(Inside, OnTime, <<GoodTake, Opposed>>),
                     Capture(Inside, OnTime, <<TiltTake, AsAsked("elsewhere", Pct(60))>>)},
          stream : {Clean}, failures : {1}]
    \cup [capture : {Capture(Inside, OnTime, <<GoodTake>>)}, stream : {Clean}, failures : {1}]

(* The default policy and these cases meet what VerdictProofs asks of both *)
(* where it proves VerifiedIsEarned and WeakerEvidenceNeverVerifies.       *)
ASSUME TheoremsApply ==
    PolicyAsksMotion /\ ChallengesWeigh /\ "CLEAR_WRONG_LOCATION" \in Policy.rules
=============================================================================
