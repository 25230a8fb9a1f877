\* Two launches between whose checks and inserts the other comes.
SPECIFICATION Spec
CONSTANTS
  Policies = {p1}
  Adhoc = adhoc
  Attributed = {p1, adhoc}
  Clusters = {c1, c2}
  Reconciler = tick
  Operators = {op}
  MayLaunch = TRUE
  None = none
  Reported = {1, 2, 3}
  EmptyPlans = {TRUE, FALSE}
  MaxRuns = 2
  MaxClock = 1
  MaxFaults = 0
  Capacity <- MCCapacity
INVARIANTS OneOpenRun CapacityRespected
