SPECIFICATION Spec
CONSTANTS
    Requests = {r1}
    Now = now
    NoSubmission = none
    Submissions = {s1, s2}
    ChallengeCount = 2
    MaxRetries = 1
    FailureLimit = 1
SYMMETRY Symmetry
INVARIANTS
    TypeOK
    NumberedWithoutGaps
PROPERTIES
    EvidenceStands
CHECK_DEADLOCK FALSE
