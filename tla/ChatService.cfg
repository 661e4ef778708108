SPECIFICATION ChatSpec
CONSTANTS
  t1 = t1
  t2 = t2
  c1 = c1
  c2 = c2
  Threads <- MCThreads
  Convs <- MCConvs
  MaxRequests = 2
  MaxCopies = 2
  MaxRestarts = 1
  Registered = {"aliyun", "1", "4"}
  McpModels = {"4"}
  ModelTypes = {"1", "4", "none"}
  Default = "aliyun"
SYMMETRY Symmetry
INVARIANTS ChatTypeOK HistoryAlternates SaidIsPublished
CHECK_DEADLOCK FALSE
