SPECIFICATION Spec
CONSTANTS
  Policies = {p1}
  Adhoc = adhoc
  Attributed = {p1, adhoc}
  Clusters = {c1}
  Reconciler = tick
  Operators = {op}
  MayLaunch = TRUE
  None = none
  Reported = {1, 2, 3}
  EmptyPlans = {TRUE, FALSE}
  MaxRuns = 1
  MaxClock = 1
  MaxFaults = 2
  Capacity <- MCCapacity
INVARIANTS VerdictNotInflated ActiveJobAccounted CloseAccounted MirroredOnce
PROPERTIES NaturalCloseStands
