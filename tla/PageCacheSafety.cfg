SPECIFICATION Spec
CONSTANTS
  LastPage = 7
  Bases = {1, 2, 3, 4, 5, 6, 7}
  Sizes <- SizesThree
INVARIANTS
  TypeOK
  PagesConserved
  SpanMapCurrent
PROPERTY ImplementsPageAllocator
CHECK_DEADLOCK FALSE
