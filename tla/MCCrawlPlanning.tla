---------------------------- MODULE MCCrawlPlanning ----------------------------
(* Instance of CrawlPlanning for TLC: a daily concept with paths of two     *)
(* sources, a monthly one with a path of one of them, and a third that      *)
(* nothing can fetch.                                                       *)
EXTENDS CrawlPlanning, TLC

CONSTANTS price, nav, none, s1, s2, hist, spot, old, fund

MCCadence  == price :> "day" @@ nav :> "month" @@ none :> "month"
MCRank     == price :> (hist :> 1 @@ old :> 2 @@ spot :> 3) @@ nav :> (fund :> 1) @@ none :> <<>>
MCSourceOf == hist :> s1 @@ old :> s2 @@ spot :> s1 @@ fund :> s1
MCIdentified == {<<1, s1>>, <<2, s1>>, <<2, s2>>}

MCPolicy == [concepts |-> {price, nav}, scope |-> {1, 2}, dates |-> "since_last",
             mode |-> "per_date", filter |-> {}, cadence |-> "day"]
MCPolicies ==
  {MCPolicy,
   [MCPolicy EXCEPT !.concepts = {nav, none}, !.scope = {1}, !.cadence = "month"],
   [MCPolicy EXCEPT !.filter = {s2}, !.scope = {2, 3}],
   [MCPolicy EXCEPT !.dates = "explicit", !.mode = "series"],
   [MCPolicy EXCEPT !.dates = "trailing", !.concepts = {price}, !.scope = {}]}

Row(c, e, d, g, s) == [c |-> c, e |-> e, d |-> d, g |-> g, s |-> s]
MCFound ==
  {{},
   {Row(price, 2, 1, "day", s2), Row(nav, 1, 1, "month", s1), Row(nav, 1, 3, "day", s1)}}
================================================================================
