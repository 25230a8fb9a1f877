\* Two workers of which one may crash, and a third item enqueued later.
SPECIFICATION FairSpec
CONSTANTS
  i1 = i1
  i2 = i2
  i3 = i3
  w1 = w1
  w2 = w2
  Items <- MCItems
  Batches <- MCBatches
  NoItem = NoItem
  NoLimit = NoLimit
  Workers = {w1, w2}
  Mortal = {w2}
  IdleStop = {w2}
  MaxItems <- MCMaxItems
  MaxRaises = 1
  MaxOverruns = 1
INVARIANTS Conservation SoleHolder CompletedOnce
PROPERTIES AbstractQueue EveryItemDone
