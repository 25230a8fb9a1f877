------------------------------ MODULE MCExpander -------------------------------
(* Instance of Expander for TLC: a concept whose cells take two policies, in the *)
(* group of the never crawled and then in that of the stale.                     *)
EXTENDS Expander, TLC

CONSTANTS concept, daily

MCKind == concept :> daily
MCPolicyCount == concept :> 2
================================================================================
