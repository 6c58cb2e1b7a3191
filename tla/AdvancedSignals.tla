-------------------------- MODULE AdvancedSignals --------------------------
(***************************************************************************)
(* The supporting signals of a capture: the Wi-Fi environment              *)
(* (advanced/environment_signal.py), the statistical anomaly score         *)
(* (advanced/statistical_anomaly.py) and the row that is made of them      *)
(* (advanced_signals_service.py). The security gate requires the row to    *)
(* exist and never reads what it says.                                     *)
(***************************************************************************)
EXTENDS SecurityRisk

(***************************************************************************)
(* A snapshot is [enabled, permitted, points], points being the strength   *)
(* of each access point heard (dBm). w is the sequence of snapshots, or    *)
(* NoMeasure when the package has no environment.                          *)
(***************************************************************************)
Environment(status, risk, confidence) == [status |-> status, risk |-> risk, confidence |-> confidence]
NoWifi(w) ==
    LET on == (\E i \in DOMAIN w : w[i].enabled) /\ w[1].permitted /\ w[Len(w)].permitted
    IN  Environment("LIMITED", 0, IF on THEN Pct(15) ELSE 0)

Similarity(a, b) == AtLeast(0, One - (AbsOf(a - b) * One) \div 30)
CompareWifi(start, end) ==
    LET common == DOMAIN start \cap DOMAIN end
        jaccard == (Cardinality(common) * One) \div Cardinality(DOMAIN start \cup DOMAIN end)
        strength == IF common = {} THEN 0
                    ELSE Mean([p \in common |-> Similarity(start[p], end[p])])
        consistency == Part(80, jaccard) + Part(20, strength)
        heard == Min({Cardinality(DOMAIN start), Cardinality(DOMAIN end), 8})
    IN  Environment(IF consistency >= Pct(55) THEN "CONSISTENT"
                    ELSE IF consistency >= Pct(25) THEN "PARTIAL" ELSE "MISMATCH",
                    One - consistency, AtMost(Pct(90), Pct(40 + 4 * heard) + Part(15, jaccard)))

EnvironmentSignal(w) ==
    IF ~Known(w) THEN Environment("UNAVAILABLE", 0, 0)
    ELSE IF Len(w) < 2 THEN Environment("LIMITED", 0, Pct(10))
    ELSE IF DOMAIN w[1].points \cup DOMAIN w[Len(w)].points = {} THEN NoWifi(w)
    ELSE CompareWifi(w[1].points, w[Len(w)].points)

(***************************************************************************)
(* The statistics: medians over the fused rows, and seven weights.         *)
(***************************************************************************)
MedianOf(rows, Has(_), Field(_)) ==
    Median([i \in {j \in DOMAIN rows : Has(rows[j])} |-> Field(rows[i])])

TimingResidual(row) == Clamp((Max(row.offsets) * One) \div 1800)
AngleResidual(row) ==
    LET normalized == Clamp(row.angleError * 10)
    IN  IF row.sameDirection THEN AtMost(normalized, Pct(55)) ELSE normalized

AnomalyWeights ==
    [sensorAnomaly |-> 26, fusionDisagreement |-> 26, timingResidual |-> 14, angleResidual |-> 10,
     duplicateFrames |-> 10, locationRisk |-> 9, environmentRisk |-> 5]
AnomalyComponents(sensorScore, locationScore, duplicate, environment, rows) ==
    [sensorAnomaly |-> sensorScore,
     fusionDisagreement |-> MedianOf(rows, LAMBDA r : Known(r.effective), LAMBDA r : Clamp(One - r.effective)),
     timingResidual |-> MedianOf(rows, LAMBDA r : r.offsets # {}, TimingResidual),
     angleResidual |-> MedianOf(rows, LAMBDA r : Known(r.angleError), AngleResidual),
     duplicateFrames |-> duplicate, locationRisk |-> locationScore,
     environmentRisk |-> Times(environment.risk, environment.confidence)]
AnomalyScore(components) ==
    SumFunction([n \in DOMAIN components |-> Part(AnomalyWeights[n], components[n])])
AnomalyStatus(score) ==
    IF score >= Pct(70) THEN "HIGH" ELSE IF score >= Pct(42) THEN "ELEVATED" ELSE "NOMINAL"

(* Without a security row its two scores count as zero. *)
SupportingSignals(w, security, duplicate, rows) ==
    LET environment == EnvironmentSignal(w)
        of(part) == IF Known(security) THEN security[part].score ELSE 0
        components == AnomalyComponents(of("sensor"), of("location"), duplicate, environment, rows)
        features == 5 + (IF DOMAIN rows = {} THEN 0 ELSE 1) + (IF environment.confidence > 0 THEN 1 ELSE 0)
    IN  [environment |-> environment.status, status |-> AnomalyStatus(AnomalyScore(components)),
         score |-> AnomalyScore(components), confidence |-> AtMost(Pct(92), Pct(50 + 5 * features))]
=============================================================================
