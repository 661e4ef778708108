SPECIFICATION FairSpec
CONSTANTS
  Workers = {w1, w2}
  Conns = {c1, c2}
  PoolSize = 2
  Checker = checker
  NoConn = noConn
  NoThread = noThread
PROPERTIES
  OnlyTheCheckerStarves
  SomeWaiterServed
