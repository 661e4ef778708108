SPECIFICATION FairSpec
CONSTANTS
  Workers = {w1, w2}
  Conns = {c1}
  PoolSize = 1
  Checker = checker
  NoConn = noConn
  NoThread = noThread
PROPERTY EveryConnectionReturns
