SPECIFICATION Spec
CONSTANTS
  Setups <- AllSetups
  BackfillWalks <- AllWalks
  DeltaPlans <- AllDeltas
  FetchPlans <- AllFetches
  Namespaces = {1, 2, 3}
  Scoped = {1, 3}
  MaxDocs = 3
  PageSize = 2
  Folders = {1, 2}
  MaxRemovals = 1
  MaxRefusals = 1
  Records = {1, 2}
  FeedPage = 1
  MaxPages = 1
  MaxEdits = 3
  MaxFaults = 1
  MaxVersion = 3
  Callers = {c1, c2}
  BaseRate = 8
  FloorRate = 1
  RecoveryStep = 3
  MaxThrottles = 3
  MaxPushFailures = 1
  MaxEntries = 3
  BatchSize = 2
  MaxRestarts = 1
  Subscriptions = {"p1"}
  RetryWorkers = {"w1", "w2"}
  WebhookTries = 2
  MaxAttempts = 3
INVARIANTS
  CallsBackedByReplies
  BackfillComplete
  NothingSkipped
PROPERTIES
  BackfillEnds
  CatchesUp
  BucketRecovers
  CommittedIsSent
  RetriesSettle
CHECK_DEADLOCK FALSE
