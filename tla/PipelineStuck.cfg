CONSTANTS
  NoMsg = NoMsg
  Docs = {d1}
  Malformed = {}
  LastStep = 2
  Replicas = {r1, r2}
  Copies = {c1}
  DeadAfter = 1
  Env = {}
  Budget = 0

SPECIFICATION FairSpec

PROPERTIES
  EventuallyTerminal
