\* A worker that degrades, one without a sink, and two consumers.
SPECIFICATION FairSpec
CONSTANTS
  p1 = p1
  p2 = p2
  g1 = g1
  g2 = g2
  Points = {p1, p2}
  Group <- MCGroup
  Batches <- MCBatches
  Producers = {worker, local}
  Sinkless = {local}
  Degrading = {worker}
  Consumers = {c1, c2}
  Replayer = Replayer
  Count = 2
  MaxLen = 3
  MaxEmits = 2
  MaxOutages = 1
  MaxReplays = 1
INVARIANTS NothingLost NewestWins
PROPERTIES EveryEventLands
CHECK_DEADLOCK FALSE
