---------------------------- MODULE MCRouterServer ----------------------------
(* Small instances of RouterServer: two clients and two interchangeable       *)
(* instances, so that retries move between instances and a drain meets         *)
(* requests and tunnels in every state.                                        *)
EXTENDS RouterServer

CONSTANTS c1, c2, i1, i2
===============================================================================
