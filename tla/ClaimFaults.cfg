SPECIFICATION Spec
CONSTANTS
  d1 = d1
  d2 = d2
  d3 = d3
  Docs <- ThreeDocs
  Slots = 2
  MaxAttempts = 2
  RaiEnabled = TRUE
  Env = {"crash", "callFails", "updateFails", "resubmit"}
  Budget = 1
INVARIANTS TypeOK RecordIsComplete OutcomeAgrees
PROPERTIES StatusForward
SYMMETRY Symmetry
CHECK_DEADLOCK FALSE
