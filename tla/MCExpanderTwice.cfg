\* Not so: a wave of the stale joins that of the never crawled, or follows one that was paused.
SPECIFICATION ExpanderSpec
CONSTANTS
  concept = concept
  daily = daily
  Routable = {concept}
  Kind <- MCKind
  PolicyCount <- MCPolicyCount
  Ticks = {cron, manual}
  Nobody = Nobody
  MaxActive = 2
  MaxPausedGroups = 2
  MaxWavePolicies = 1
  Capacity = 2
  MaxWaves = 2
  MaxUpsets = 1
INVARIANTS CrawledOnce
CHECK_DEADLOCK FALSE
