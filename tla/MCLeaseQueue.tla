------------------------------ MODULE MCLeaseQueue -----------------------------
(* Instance of LeaseQueue for TLC: w1 polls for ever; w2 is called with    *)
(* idle_stop and max_items = 2, and may die.                               *)
EXTENDS LeaseQueue, TLC

CONSTANTS w1, w2, i1, i2, i3

MCItems    == {i1, i2, i3}
MCBatches  == {<<i1, i2>>, <<i3>>}
MCMaxItems == w1 :> NoLimit @@ w2 :> 2
================================================================================
