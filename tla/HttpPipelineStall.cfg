SPECIFICATION FairSpec
CONSTANTS
  Kinds <- TwoGets
  MaxRequests = 2
  Habits = {"pipelines"}
PROPERTY EveryRequestProcessed
CHECK_DEADLOCK FALSE
