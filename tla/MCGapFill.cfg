\* A reader and a prewarm of overlapping windows, two sources.
SPECIFICATION FairSpec
CONSTANTS
  reader = reader
  prewarm = prewarm
  LastDay = 6
  Sources = {1, 2}
  Fillers = {reader, prewarm}
  Window <- MCWindow
  MinHole = 2
  MinCoverage = 50
  Tradable <- MCTradable
  Published <- MCPublished
  MaxLate = 1
  MaxCrawls = 1
  MaxOutages = 1
INVARIANTS StoredWasPublished WideHolesReported
PROPERTIES FillsSettle
CHECK_DEADLOCK FALSE
