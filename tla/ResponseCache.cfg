SPECIFICATION Spec
CONSTANTS
  t1 = t1
  t2 = t2
  n1 = n1
  n2 = n2
  putParam = putParam
  nodeParam = nodeParam
  Threads <- MCThreads
  Targets <- MCTargets
  Keys <- MCKeys
  Values <- MCValues
  NoValue = NoValue
  Nodes <- MCNodes
  DummyHead = DummyHead
  DummyTail = DummyTail
  Null = Null
  Capacity = 2
  Objects <- MCObjects
  Buffers <- MCBuffers
  NoBuffer = NoBuffer
  PoolLimit = 1
  Callbacks = {"page"}
  Handlers = {"plain"}
  CacheConfigs <- MCCacheConfigs
  RegexCallbacks <- MCRegexCallbacks
  RegexHandlers <- MCRegexHandlers
  NoCache = NoCache
  Params <- MCParams
  Temp = Temp
  BodySize <- MCBodySize
  MaxVersion = 1
  MaxTime = 3
SYMMETRY Symmetry
INVARIANTS TypeOK ListMatchesMap BodiesOwned
PROPERTIES ImplementsLru ServedFresh
CHECK_DEADLOCK FALSE
