SPECIFICATION Spec
CONSTANTS
  Workers = {w1, w2}
  SchemaIds = {i1, i2}
  SetIds = {s1}
  Uploads <- SomeUploads
  Absent = Absent
  MaxRequests = 5
  Claims = {c1}
  Picks <- SomeFiles
  Nothing = Nothing
  MaxMegabytes = 2
  MaxFiles = 2
  MaxPicked = 3
  MaxLost = 1
  Documents = {"form", "report"}
  Batches = {"b1", "b2"}
  ClaimOf <- OneEach
  Running = {"report"}
  Newest = "b1"
  None = None
  MaxActs = 4
  MaxFlying = 1
  Callers = {"a", "b"}
  Lifetime <- SomeServices
  NoScope = 0
  MaxInstances = 3
  MaxScopes = 2
  Prompts <- SomePrompts
  Limits <- SomeLimits
  Mark = 1
  MaxRetries = 1
  Senders = {"a", "b"}
  Unlocked = Unlocked
  TokenLives = {2, 3}
  Margin = 1
  MaxTries = 2
  PollTimeout = 1
  MaxTime = 4
  Extractions <- SomeExtractions
  Scans <- SomeScans
  Texts <- SomeTexts
  NoLogprobs = NoLogprobs
  Unit = 2
  Private = {"_overall", "_note"}
  Routes = {"claim", "single"}
  Users = {u1, u2}
  LastStep = 2
  MaxRuns = 2
  Unset = Unset
  MaxReviews = 2
INVARIANTS
  SchemaHasFile
  SetKeepsEdits
  SubmittedClaimHasFiles
  AcceptedIsListed
  EditsGoHome
  LoaderHasCause
  SyncScopeIsolated
  LifecycleKept
  PromptKept
  RetriesWarranted
  TokenShared
  ScoresAddUp
  RecordFollowsDocument
CHECK_DEADLOCK FALSE
