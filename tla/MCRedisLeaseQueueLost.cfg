\* A worker may die between LPOP and HSET.
SPECIFICATION Spec
CONSTANTS
  i1 = i1
  i2 = i2
  Items <- MCItems
  Plan <- MCPlan
  NoItem = NoItem
  Workers = {w1, w2}
  Mortal = {w2}
  IdleStop = {}
  MaxRaises = 0
  MaxOverruns = 0
INVARIANT NeverLost
