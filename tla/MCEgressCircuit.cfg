\* Two fetches and the probe job; twice its cooldown is below the cap.
SPECIFICATION FairCircuitSpec
CONSTANTS
  Workers = {w1, w2}
  BanThreshold = 2
  TransientThreshold = 2
  PermanentCycles = 2
  CooldownSec = 1
  TransientCooldownSec = 1
  CooldownMaxSec = 3
  MaxFetches = 3
  MaxDeaths = 1
INVARIANTS CircuitSound RetirementEarned
PROPERTIES ProbeDecides
CHECK_DEADLOCK FALSE
