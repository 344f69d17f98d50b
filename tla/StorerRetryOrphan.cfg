SPECIFICATION StorerSpec
CONSTANTS
  w1 = w1
  b1 = b1
  b2 = b2
  b3 = b3
  h1 = h1
  h2 = h2
  h3 = h3
  Storers <- OneWorker
  Blocks <- MCBlocks
  Hashes <- MCHashes
  BlocksOf <- MCBlocksOf
  StoreAttempts = 3
  Faulty = TRUE
INVARIANTS
  SuccessMeansLockStep
