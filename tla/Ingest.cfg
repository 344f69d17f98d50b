SPECIFICATION MCSpec
CONSTANTS
  Workers = {w1, w2, w3}
  Threshold = 2
  OpenFor = 2
  MaxAttempts = 2
  Pushers = {g1, g2}
  Capacity = 1
  NormalAfter = 2
  LowAfter = 3
  Storers = {"s1"}
  Blocks = {"b1", "b2"}
  Hashes = {"h1", "h2"}
  BlocksOf <- MCBlocksOf
  StoreAttempts = 2
  Faulty = TRUE
INVARIANTS
  StoresConsistent
  HalfOpenHasProbe
  WaitsBounded
PROPERTIES
  StageRecovers
  DrainCompletes
CHECK_DEADLOCK FALSE
