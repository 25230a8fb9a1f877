--------------------------- MODULE MCRedisLeaseQueue ---------------------------
(* Instance of RedisLeaseQueue for TLC. *)
EXTENDS RedisLeaseQueue, TLC

CONSTANTS i1, i2

MCItems == {i1, i2}
MCPlan  == <<i1, i2>>
================================================================================
