--------------------------- MODULE MCRequestFront ---------------------------
(* A small instance of RequestFront: two requests of any two kinds, which may  *)
(* come back three times.                                                      *)
EXTENDS RequestFront

CONSTANTS r1, r2

kinds ==
  [upgrade : {FALSE}, to : {"nowhere", "management", "errors", "service"}, hops : {0}, body : {"valid"}]
    \cup [upgrade : {FALSE}, to : {"report"}, hops : {0}, body : {"valid", "invalid", "large"}]
    \cup [upgrade : {FALSE}, to : {"service"}, hops : {3}, body : {"valid"}]
    \cup [upgrade : {TRUE}, to : {"nowhere", "service"}, hops : {0}, body : {"valid"}]
=============================================================================
