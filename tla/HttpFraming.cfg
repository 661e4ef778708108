SPECIFICATION FairSpec
CONSTANTS
  Kinds <- AllKinds
  MaxRequests = 3
  Habits = {"waits", "pipelines"}
INVARIANTS
  TypeOK
  HandledInOrder
  BodiesShown
PROPERTIES
  NothingAfterBadLine
  EveryRequestAnswered
CHECK_DEADLOCK FALSE
