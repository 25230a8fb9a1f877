\* One of two sources fails, the other answers with nothing; a series without a point.
SPECIFICATION Spec
CONSTANTS
  reader = reader
  prewarm = prewarm
  LastDay = 6
  Sources = {1, 2}
  Fillers = {reader, prewarm}
  Window <- MCWindow
  MinHole = 2
  MinCoverage = 98
  Tradable <- MCTradable
  Published <- MCPublished
  MaxLate = 1
  MaxCrawls = 2
  MaxOutages = 1
PROPERTIES OutageStaysRetryable
INVARIANTS ColdIsMissing
CHECK_DEADLOCK FALSE
