--------------------------- MODULE MCRedisRegistry ----------------------------
(* Small instances of RedisRegistry.  Instances meet only in a list that      *)
(* reads both, so two nodes with one heartbeat each and one node with two     *)
(* overlapping heartbeats and two listers are enough.                         *)
EXTENDS RedisRegistry

CONSTANTS n1, n2, b1, b2, l1, l2
===============================================================================
