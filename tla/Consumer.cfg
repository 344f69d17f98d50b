SPECIFICATION FairSpec
CONSTANTS
  p1 = p1
  p2 = p2
  docA = docA
  docB = docB
  docC = docC
  bad = bad
  Partitions <- MCPartitions
  Log <- MCLog
  Malformed = bad
  MaxSessions = 2
INVARIANTS
  MarkedMeansFinished
  SerialPerDocument
PROPERTY
  ClaimsProgress
CHECK_DEADLOCK FALSE
