----------------------------- MODULE MCSupervisor -----------------------------
(* Small instances of Supervisor: two children, so that one registers, drains *)
(* or exits while the other does something else.                              *)
EXTENDS Supervisor

CONSTANTS s1, s2, b1
===============================================================================
