SPECIFICATION Spec
CONSTANTS
  Policies = {p1}
  Adhoc = adhoc
  Attributed = {p1, adhoc}
  Clusters = {c1}
  Reconciler = tick
  Operators = {op}
  MayLaunch = FALSE
  None = none
  Reported = {1, 2, 3}
  EmptyPlans = {TRUE, FALSE}
  MaxRuns = 2
  MaxClock = 1
  MaxFaults = 0
  Capacity <- MCCapacity
PROPERTIES CancelledIsTerminal
