CONSTANTS
  NoMsg = NoMsg
  Docs = {d1}
  Malformed = {}
  LastStep = 2
  Replicas = {r1}
  Copies = {c1, c2}
  DeadAfter = 1
  Env = {"crash", "slow", "callFails"}
  Budget = 1

SPECIFICATION FairSpec

PROPERTIES
  EventuallyHandled
