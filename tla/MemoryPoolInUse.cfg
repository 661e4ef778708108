SPECIFICATION Spec
CONSTANTS
  Threads = {t1}
  Classes <- Small
  BlockNum <- BlocksOf
  SpanPages <- PagesPerSpan
  LastPage = 4
  Bases = {1, 3}
  MaxDelayCount = 2
  MaxSpans = 2
  MaxFreeCount = 4
  Smallest = "small"
  Threshold = 1
  SizeMod = 16
  MaxFailures = 1
INVARIANT SpansReturnedOnlyFree
CHECK_DEADLOCK FALSE
