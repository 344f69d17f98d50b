SPECIFICATION SafetySpec
CONSTANTS
  Setups = {}
  BackfillWalks <- EagerWalks
  DeltaPlans = {}
  FetchPlans = {}
  Namespaces = {1}
  Scoped = {1}
  MaxDocs = 3
  PageSize = 2
  Folders = {1, 2}
  MaxRemovals = 0
  MaxRefusals = 0
  Records = {1, 2}
  FeedPage = 1
  MaxPages = 1
  MaxEdits = 0
  MaxFaults = 0
  MaxVersion = 1
  Callers = {c1}
  BaseRate = 1
  FloorRate = 1
  RecoveryStep = 1
  MaxThrottles = 0
  MaxPushFailures = 0
  MaxEntries = 0
  BatchSize = 1
  MaxRestarts = 0
  Subscriptions = {}
  RetryWorkers = {}
  WebhookTries = 1
  MaxAttempts = 1
INVARIANT ErrEndOfPageOnceAllPagesExhausted
CHECK_DEADLOCK FALSE
