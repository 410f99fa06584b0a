CONSTANTS
  Coordinator = Coordinator
  r1 = r1
  r2 = r2
  Reviewers = {r1, r2}
  Decisions <- Sayings
  Garbled = Garbled
  Nobody = Nobody
  NoAsk = NoAsk
  Pass = Pass
  NoSign = NoSign
  Signs = {Pass, NoSign}
  NoText = NoText
  Size <- Lengths
  MaxRounds = 4
  HasFormat = TRUE
  First <- FirstLimit
  Retry <- RetryLimit
  MaxCalls = 1

SPECIFICATION FairSpec

INVARIANTS
  OneResponsePerTurn
  LoopIsReal
  ResultIsEarned
  ToolCallsOnce
  ExcerptsFit

PROPERTIES
  EventuallyReturns

CHECK_DEADLOCK FALSE
