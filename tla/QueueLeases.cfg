CONSTANTS
  m1 = m1
  m2 = m2
  w1 = w1
  w2 = w2
  r1 = r1
  r2 = r2
  NoMsg = NoMsg
  Msgs = {m1, m2}
  Malformed = {m2}
  Workers = {w1, w2}
  Replicas = {r1, r2}
  ReplicaOf <- TwoReplicas
  MaxReceive = 2
  VisTicks = 3
  RenewTicks = 2
  RetryTicks = 1
  ExtendTicks = 1
  Env = {"crash", "dlqFails", "updateFails", "deleteFails", "kill", "stopService"}
  Budget = 1

SPECIFICATION Spec

INVARIANTS
  ExclusiveRun
  TrackedIsCurrent
