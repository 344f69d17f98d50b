SPECIFICATION Spec
CONSTANTS
  p1 = p1
  p2 = p2
  docA = docA
  docB = docB
  docC = docC
  bad = bad
  Partitions <- MCPartitions
  Log <- SharedLog
  Malformed = bad
  MaxSessions = 1
INVARIANT
  MarkedOnlyAfterStage4
CHECK_DEADLOCK FALSE
