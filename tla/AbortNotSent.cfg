SPECIFICATION Spec
CONSTANTS
    MaxSessions = 1
    ChallengeCount = 1
    MaxRetries = 0
    MaxLosses = 0
    MaxBreaks = 1
INVARIANTS
    ToldIsAborted
CHECK_DEADLOCK FALSE
