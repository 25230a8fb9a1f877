------------------------------- MODULE MCGapFill -------------------------------
(* Instance of GapFill for TLC: six days, the third to the fifth a holiday. *)
EXTENDS GapFill, TLC

CONSTANTS reader, prewarm

MCWindow    == reader :> <<3, 5>> @@ prewarm :> <<1, 6>>
MCTradable  == {1, 2, 6}
MCPublished == (1 :> {1}) @@ (2 :> {1})
================================================================================
