\* A lease runs out between ack's HGET and its HDEL.
SPECIFICATION Spec
CONSTANTS
  i1 = i1
  i2 = i2
  Items <- MCItems
  Plan <- MCPlan
  NoItem = NoItem
  Workers = {w1, w2}
  Mortal = {}
  IdleStop = {}
  MaxRaises = 0
  MaxOverruns = 1
INVARIANT CompletedOnce
