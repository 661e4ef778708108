SPECIFICATION Spec
CONSTANTS
  Kinds <- EmptyAndFull
  MaxRequests = 2
  Habits = {"waits"}
INVARIANT NoStaleBody
CHECK_DEADLOCK FALSE
