----------------------------- MODULE MCStreamPlane -----------------------------
(* Instance of StreamPlane for TLC: two points with a landing key each.    *)
EXTENDS StreamPlane, TLC

CONSTANTS p1, p2, g1, g2

MCGroup   == p1 :> g1 @@ p2 :> g2
MCBatches == {<<p1>>, <<p1, p2>>}
================================================================================
