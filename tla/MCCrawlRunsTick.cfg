\* Only the tick launches: two policies share two clusters with one slot each.
SPECIFICATION FairSpec
CONSTANTS
  Policies = {p1, p2}
  Adhoc = adhoc
  Attributed = {}
  Clusters = {c1, c2}
  Capacity <- MCCapacity
  Reconciler = tick
  Operators = {}
  MayLaunch = FALSE
  None = none
  Reported = {}
  EmptyPlans = {FALSE}
  MaxRuns = 2
  MaxClock = 2
  MaxFaults = 1
INVARIANTS SecondRunOnlyByRace OverfullOnlyByRace
PROPERTIES EveryRunCloses DueIsServed
