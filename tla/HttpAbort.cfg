SPECIFICATION Spec
CONSTANTS
  Kinds <- BadVersionOnly
  MaxRequests = 2
  Habits = {"pipelines"}
INVARIANT NeverAborts
CHECK_DEADLOCK FALSE
