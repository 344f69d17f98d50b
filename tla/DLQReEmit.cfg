SPECIFICATION FairSpec
CONSTANTS
  Operators = {}
  Worker = worker
  MaxAttempts = 5
  MaxAutoRetries = 3
  BatchSize = 1
  Faulty = TRUE
  Restarts = FALSE
  MaxEvents = 1
  MaxCopies = 1
  MaxRows = 1
PROPERTY
  ReEmittedAfterFailure
CHECK_DEADLOCK FALSE
