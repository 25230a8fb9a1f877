\* A monthly concept over two months of two days.
SPECIFICATION ReadSpec
CONSTANTS
  Ranked = {1, 2}
  Quality <- MCQuality
  Identified = {1, 2}
  Attempts <- MCAttempts
  AccessMin = 1
  AccessMax = 2
  SuccessStep = 1
  FailStep = 1
  Monthly = TRUE
  MonthLength = 2
  TicksPerDay = 1
  Ttl = 0
  Readers = {r1, r2}
  Anything = Anything
  Requests <- MCRequests
  LastTick = 2
  MaxReads = 3
  MaxRevisions = 1
INVARIANTS AnsweredStaysAnswered
PROPERTIES MissIsHonest
SYMMETRY MCSymmetry
CHECK_DEADLOCK FALSE
