\* w1 polls for ever; w2 stops when idle and may fail between any two commands.
SPECIFICATION FairSpec
CONSTANTS
  i1 = i1
  i2 = i2
  Items <- MCItems
  Plan <- MCPlan
  NoItem = NoItem
  Workers = {w1, w2}
  Mortal = {w2}
  IdleStop = {w2}
  MaxRaises = 1
  MaxOverruns = 1
INVARIANTS LossNeedsFault DoneWasPerformed
PROPERTY EveryItemDone
