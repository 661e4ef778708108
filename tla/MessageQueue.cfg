SPECIFICATION FairSpec
CONSTANTS
  m1 = m1
  m2 = m2
  m3 = m3
  w1 = w1
  w2 = w2
  None = None
  Messages <- MCMessages
  Workers <- MCWorkers
  PoolSize = 2
  MaxFailures = 1
  MaxDeaths = 1
INVARIANTS TypeOK NothingLost DuplicatesExplained
PROPERTY ImplementsMessageLog
CHECK_DEADLOCK FALSE
