\* A daily concept: the value of a date is revised after it was fetched, on the day itself.
SPECIFICATION ReadSpec
CONSTANTS
  Ranked = {1, 2}
  Quality <- MCQuality
  Identified = {1, 2}
  Attempts <- MCAttempts
  AccessMin = 1
  AccessMax = 2
  SuccessStep = 1
  FailStep = 1
  Monthly = FALSE
  MonthLength = 2
  TicksPerDay = 2
  Ttl = 0
  Readers = {r1, r2}
  Anything = Anything
  Requests <- MCRequests
  LastTick = 4
  MaxReads = 3
  MaxRevisions = 1
INVARIANT ServedForEverIsFinal
SYMMETRY MCSymmetry
CHECK_DEADLOCK FALSE
