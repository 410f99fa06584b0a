CONSTANTS
  NoMsg = NoMsg
  Docs = {d1, d2}
  Malformed = {d2}
  LastStep = 2
  Replicas = {r1, r2}
  Copies = {c1, c2}
  DeadAfter = 1
  Env = {"crash", "slow", "callFails"}
  Budget = 1

SPECIFICATION Spec

INVARIANTS
  TypeOK
  NoDocumentDropped
  StepsInOrder
  CompletedHasResults
  OneOutcome

SYMMETRY ReplicaSymmetry
