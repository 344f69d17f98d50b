SPECIFICATION MCSpec
CONSTANTS
  Operators = {o1, o2}
  Worker = worker
  MaxAttempts = 2
  MaxAutoRetries = 2
  BatchSize = 1
  Faulty = TRUE
  Restarts = TRUE
  MaxEvents = 2
  MaxCopies = 1
  MaxRows = 2
INVARIANT
  ReplaysBounded
PROPERTY
  RowsAreReplayed
CHECK_DEADLOCK FALSE
