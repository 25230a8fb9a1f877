\* A probe that raises what the job does not catch, in every cycle.
SPECIFICATION FairCircuitSpec
CONSTANTS
  Workers = {w1, w2}
  BanThreshold = 2
  TransientThreshold = 2
  PermanentCycles = 2
  CooldownSec = 1
  TransientCooldownSec = 1
  CooldownMaxSec = 3
  MaxFetches = 3
  MaxDeaths = 0
PROPERTIES CircuitRecovers
CHECK_DEADLOCK FALSE
