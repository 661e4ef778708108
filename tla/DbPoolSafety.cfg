SPECIFICATION Spec
CONSTANTS
  Workers = {w1, w2, w3}
  Conns = {c1, c2, c3}
  PoolSize = 2
  Checker = checker
  NoConn = noConn
  NoThread = noThread
SYMMETRY Symmetry
INVARIANTS
  TypeOK
  Conservation
  NoLostWakeup
  StatementsSerialised
PROPERTY ImplementsResourcePool
