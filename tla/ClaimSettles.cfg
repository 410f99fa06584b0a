SPECIFICATION FairSpec
CONSTANTS
  d1 = d1
  d2 = d2
  d3 = d3
  Docs <- OneDoc
  Slots = 1
  MaxAttempts = 2
  RaiEnabled = FALSE
  Env = {"crash", "callFails", "updateFails", "resubmit", "early", "comment", "delete", "overlap"}
  Budget = 1
PROPERTIES EventuallySettled
CHECK_DEADLOCK FALSE
