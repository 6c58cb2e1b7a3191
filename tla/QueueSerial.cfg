CONSTANTS
  JobCount = 2
  Workers = {w1, w2}
  MaxAttempts = 2
  Lease = 1
  BaseDelay = 2
  DelayCap = 1
  Repairs = 1
  ReadCommitted = FALSE
SPECIFICATION FairSpec
INVARIANTS TypeOK RunningIsRecoverable OneWorkerPerAttempt CompletedByLatestAttempt
PROPERTIES TerminalIsFinal ImplementsDurableJobs EveryJobEnds
CHECK_DEADLOCK FALSE
