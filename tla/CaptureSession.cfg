SPECIFICATION FairSpec
CONSTANTS
    MaxSessions = 2
    ChallengeCount = 2
    MaxRetries = 1
    MaxLosses = 1
    MaxBreaks = 1
INVARIANTS
    TypeOK
    HandedOverIsComplete
PROPERTIES
    RecordingEnds
    ProgressEnds
CHECK_DEADLOCK FALSE
