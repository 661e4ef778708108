SPECIFICATION Spec
CONSTANTS
  Threads = {t1, t2}
  Classes <- SmallAndLarge
  BlockNum <- BlocksOf
  SpanPages <- PagesPerSpan
  LastPage = 6
  Bases = {1, 3, 5}
  MaxDelayCount = 1
  MaxSpans = 3
  MaxFreeCount = 2
  Smallest = "small"
  Threshold = 1
  SizeMod = 16
  MaxFailures = 1
SYMMETRY Symmetry
INVARIANTS
  TypeOK
  NothingTwice
  BlocksBacked
  PageCacheUnharmed
  CacheBounded
CHECK_DEADLOCK FALSE
