CONSTANTS
  Inspectors = {i1, i2}
  Requests = {r1}
  Now = now
  NoRows = noRows
  MaxAssignments = 2
  MaxSessions = 1
SPECIFICATION Spec
SYMMETRY InspectorSymmetry
INVARIANTS TypeOK CancelledIsUnassigned
PROPERTIES SessionOpenedForAssignee
CHECK_DEADLOCK FALSE
