SPECIFICATION Spec
CONSTANTS
    NoMeasure = NoMeasure
    Policy <- DefaultPolicy
    Cases <- MCCases
INVARIANTS
    TypeOK
    VerifiedIsEarned
    DeterministicFactsFlag
    HeuristicsOnlyCap
    SameDirectionNotAccused
PROPERTY WeakerEvidenceNeverVerifies
CHECK_DEADLOCK FALSE
