SPECIFICATION Spec
CONSTANTS
    ChallengeCount = 1
    Tasks = {t1, t2}
    MaxAttempts = 2
    MaxRequests = 3
    MaxCalculations = 1
    Idle = idle
SYMMETRY Symmetry
INVARIANTS
    TypeOK
    OneCurrentReceipt
    SuccessIsSealed
    ReceiptSealsDecision
PROPERTIES
    DecisionIsImmutable
CHECK_DEADLOCK FALSE
