SPECIFICATION Spec
CONSTANTS
  Operators = {}
  Worker = worker
  MaxAttempts = 5
  MaxAutoRetries = 3
  Faulty = FALSE
  Restarts = FALSE
  BatchSize = 1
  MaxEvents = 1
  MaxCopies = 2
  MaxRows = 1
INVARIANT
  ReplaysReachIngest
CHECK_DEADLOCK FALSE
