\* The ingest loop never asks for what another consumer has left pending.
SPECIFICATION FairSpec
CONSTANTS
  p1 = p1
  p2 = p2
  g1 = g1
  g2 = g2
  Points = {p1, p2}
  Group <- MCGroup
  Batches <- MCBatches
  Producers = {worker}
  Sinkless = {}
  Degrading = {worker}
  Consumers = {c1, c2}
  Replayer = Replayer
  Count = 2
  MaxLen = 3
  MaxEmits = 2
  MaxOutages = 1
  MaxReplays = 0
PROPERTIES ReclaimedInTheEnd
CHECK_DEADLOCK FALSE
