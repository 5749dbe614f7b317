------------------------------ MODULE MCCleanup ------------------------------
(* Small instances of Cleanup: two nodes that run one task, under a lock or *)
(* as leader.                                                                 *)
EXTENDS Cleanup

CONSTANTS a, b, temp

keyOf == [t \in {temp} |-> t]
===============================================================================
