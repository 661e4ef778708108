SPECIFICATION Spec
CONSTANTS
  t1 = t1
  t2 = t2
  b1 = b1
  b2 = b2
  n1 = n1
  n2 = n2
  s1 = s1
  s2 = s2
  s3 = s3
  NoId = NoId
  NoUser = NoUser
  Threads <- MCThreads
  Browsers <- MCBrowsers
  Names <- MCNames
  SessionIds <- MCSessionIds
  Knows <- MCKnows
  Registered <- MCRegistered
  MaxRows = 2
  UniqueNames = FALSE
SYMMETRY Symmetry
INVARIANTS TypeOK ServedOwnUser LockoutExplained RegisteredOnceEach
