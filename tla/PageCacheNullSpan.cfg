SPECIFICATION Spec
CONSTANTS
  LastPage = 4
  Bases = {1, 2, 3, 4}
  Sizes <- OneSize
INVARIANT NoNullSpan
CHECK_DEADLOCK FALSE
