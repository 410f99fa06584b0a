CONSTANTS
  m1 = m1
  m2 = m2
  w1 = w1
  w2 = w2
  r1 = r1
  r2 = r2
  NoMsg = NoMsg
  Msgs = {m1, m2}
  Malformed = {}
  Workers = {w1, w2}
  Replicas = {r1}
  ReplicaOf <- OneReplica
  MaxReceive = 2
  VisTicks = 2
  RenewTicks = 1
  RetryTicks = 1
  ExtendTicks = 1
  Env = {}
  Budget = 1

SPECIFICATION Spec

PROPERTIES
  SuccessIsFinal
