SPECIFICATION Spec
CONSTANTS
  Generators = {"g1", "g2"}
  Chunks = {"k1"}
  MaxShards = 3
  MaxPolicyEdits = 1
  MaxShardFaults = 1
  Callers = {"c1", "c2", "c3"}
  PoolThreshold = 2
  PoolOpenFor = 1
  Admins = {"a1", "a2"}
  Proposals <- MCProposals
  Standing = "d1"
  Spare = "rb"
  Clients = {"q1"}
  Corpus <- MCCorpus
  Backends <- MCBackends
  Asks <- MCAsks
  Snapshots <- MCSnapshots
  Drafts <- MCDrafts
  Pins <- MCPins
  TopK = 2
  ShardReady = 1
  MaxWrites = 1
  CacheKeys = {"k1"}
  ChunkTags = {"c1"}
  SourceTags = {"s1"}
  Handlers = {"w1"}
  CacheRefreshers = {"w2"}
  Lifetimes = {1, 2}
  MaxCacheFaults = 1
  Refreshers = {"r1"}
  Rotators = {"o1"}
  ForgetWorkers = {"f1", "f2"}
  Tiers = 2
  MaxGrants = 2
  MaxRefreshes = 1
  ForgetRuns = {"f1", "f2"}
  DeleteRuns = {"d1"}
  Stores = 2
  MaxRows = 3
  PageSize = 2
  Expressions <- MCExpressions
  Schedulers = {"r1", "r2"}
  Hours = 2
  Minutes = 2
  DaysPerMonth = 2
  Months = 2
  Weekdays = 3
  LimitYears = 3
  MaxTime = 5
  MaxEdits = 2
  ExportWorkers = {"x1", "x2"}
  MaxExportJobs = 3
  MaxExportFaults = 2
  KeyRotators = {"r1", "r2"}
  MaxApiKeys = 4
  GracePeriod = 1
  MaxKeyTime = 3
  MaxKeyFaults = 1
  Replicas = {"p1", "p2"}
  Skew <- MCSkew
  MaxSkew = 1
  Capacity = 2
  TokenUnit = 2
  Refill = 1
  IdleLifetime = 5
  MaxRateTime = 6
  MaxRewind = 2
  Recorders = {"a1", "a2"}
  WindowBuckets = 2
  MinSampleSize = 2
  ConsecutiveThreshold = 2
  PauseCooldown = 2
  MaxPauseTime = 4
  MaxObservations = 4
  GraphDocs = {"d1", "d2"}
  Enrichers = {"x1", "x2"}
  Entities = {"e1", "e2"}
  Extractions <- MCExtractions
  MaxBlocks = 4
  EmbedBatch = 2
  StageAttempts = 2
  LocalModels = {"m1", "m2"}
  RemoteModel = "remote"
  Similar <- MCSimilar
  Emitters = {"g1", "g2"}
  Completed = {"s1", "s2"}
  Channels = {"h1", "h2"}
  Capacity16 = 1
  MaxLifetimes = 2
INVARIANTS
  DeviceInSync
  SupersededBySuccessor
  TrialHasCaller
  LiveIsHistory
  ResolvedAsPromoted
  ServedObeysPolicy
  EntryTracked
  CredentialKept
  DeletedMeansSwept
  AlarmJustified
  NextRunIsFirst
  NeverWithoutKey
  GrantedWithinBudget
  NoSupersededNode
  VectorsFitBlocks
  CompletedOnce
PROPERTIES
  RemovalIsFinal
  JobsMoveForward
  PausesSpaced
CHECK_DEADLOCK FALSE
