SPECIFICATION FairSpec
CONSTANTS
  e1 = e1
  e2 = e2
  e3 = e3
  f1 = f1
  f2 = f2
  p1 = p1
  m1 = m1
  s1 = s1
  Events <- MCEvents
  Deletions <- MCDeletions
  Workers <- MCWorkers
  StageOf <- MCStageOf
  QueueSize = 1
PROPERTIES
  ImplementsDelivery
  PipelineEnds
CHECK_DEADLOCK FALSE
