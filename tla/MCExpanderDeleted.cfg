\* Not so: a wave of which a policy was deleted is driven for ever.
SPECIFICATION FairExpanderSpec
CONSTANTS
  concept = concept
  daily = daily
  Routable = {concept}
  Kind <- MCKind
  PolicyCount <- MCPolicyCount
  Ticks = {cron, manual}
  Nobody = Nobody
  MaxActive = 2
  MaxPausedGroups = 2
  MaxWavePolicies = 1
  Capacity = 2
  MaxWaves = 2
  MaxUpsets = 1
PROPERTIES EveryWaveSettles
CHECK_DEADLOCK FALSE
