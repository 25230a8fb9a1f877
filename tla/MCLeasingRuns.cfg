\* A server that ticks, triggers and works, and the deployed reconciler, a process
\* of its own for every tick; either may be killed.
SPECIFICATION Spec
CONSTANTS
  Hosts = {server, tick}
  OneShot = {tick}
  WorkerHosts = {server, tick}
  MaxRuns = 2
  MaxItems = 2
  MaxCrashes = 1
INVARIANTS WorkAccounted UndoneIsElsewhere
