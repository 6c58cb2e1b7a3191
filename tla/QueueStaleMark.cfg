CONSTANTS
  JobCount = 1
  Workers = {w1, w2}
  MaxAttempts = 2
  Lease = 1
  BaseDelay = 1
  DelayCap = 2
  Repairs = 0
  ReadCommitted = TRUE
SPECIFICATION Spec
INVARIANT CompletedByLatestAttempt
CHECK_DEADLOCK FALSE
