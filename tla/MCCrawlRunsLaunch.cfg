\* A tick and an operator who triggers and starts ad-hoc crawls: two launches that
\* overlap in every way, on two clusters with one slot each.
SPECIFICATION Spec
CONSTANTS
  Policies = {p1}
  Adhoc = adhoc
  Attributed = {}
  Clusters = {c1, c2}
  Capacity <- MCCapacity
  Reconciler = tick
  Operators = {op}
  MayLaunch = TRUE
  None = none
  Reported = {}
  EmptyPlans = {FALSE}
  MaxRuns = 2
  MaxClock = 1
  MaxFaults = 0
INVARIANTS SecondRunOnlyByRace OverfullOnlyByRace
