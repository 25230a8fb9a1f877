\* Two ticks that may run at once, two waves of two policies, and one fault or order.
SPECIFICATION FairExpanderSpec
CONSTANTS
  concept = concept
  daily = daily
  Routable = {concept}
  Kind <- MCKind
  PolicyCount <- MCPolicyCount
  Ticks = {cron, manual}
  Nobody = Nobody
  MaxActive = 2
  MaxPausedGroups = 2
  MaxWavePolicies = 1
  Capacity = 2
  MaxWaves = 2
  MaxUpsets = 1
INVARIANTS OneWavePerGroup JudgedWhenTried
PROPERTIES WavesSettle
CHECK_DEADLOCK FALSE
