\* The deployed reconciler: every tick is a process of its own.
SPECIFICATION Spec
CONSTANTS
  Hosts = {server, tick}
  OneShot = {tick}
  WorkerHosts = {server, tick}
  MaxRuns = 1
  MaxItems = 2
  MaxCrashes = 0
INVARIANT ClosedMeansDrained
