SPECIFICATION OutboxSpec
CONSTANTS
  MaxEntries = 1
  BatchSize = 1
  MaxRestarts = 0
PROPERTY
  FailedSendIsRetried
CHECK_DEADLOCK FALSE
