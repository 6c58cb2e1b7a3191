CONSTANTS
  Inspectors = {i1, i2}
  Requests = {}
  Now = now
  NoRows = noRows
  MaxAssignments = 3
  MaxSessions = 3
SPECIFICATION Spec
SYMMETRY InspectorSymmetry
INVARIANT CaptureIsUnderWay
PROPERTIES UploadedIsDurable AcceptedSurvivesPolling CancelledLeftOnlyByReview DecisionStands
CHECK_DEADLOCK FALSE
