------------------------------- MODULE MCRollups -------------------------------
(* Instance of Rollups for TLC: three dates of which two share a month.    *)
EXTENDS Rollups, TLC

CONSTANTS d1, d2, d3, m1, m2

MCBucket == d1 :> m1 @@ d2 :> m1 @@ d3 :> m2
MCSymmetry == Permutations(Writers)
================================================================================
