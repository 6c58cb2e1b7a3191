SPECIFICATION FairSpec
CONSTANTS
    Requests = {}
    Now = now
    NoSubmission = none
    Submissions = {s1, s2}
    ChallengeCount = 3
    MaxRetries = 1
    FailureLimit = 2
INVARIANTS
    OutcomeIsOfWholeSequence
PROPERTIES
    ResultStands
    StageEnds
CHECK_DEADLOCK FALSE
