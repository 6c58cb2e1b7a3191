SPECIFICATION FairSpec
CONSTANTS
    video = video
    manifest = manifest
    Files <- MCFiles
    Video = video
    Handlers = {h1}
    Idle = idle
INVARIANTS
    TypeOK
    EvidenceSurvives
    VerifiedIsStored
PROPERTIES
    Delivered
CHECK_DEADLOCK FALSE
