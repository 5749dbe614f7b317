------------------------------- MODULE MCRouting ------------------------------
(* A backend whose health is probed and which fails, comes and goes, beside a *)
(* frontend of two instances with the catch-all route.                        *)
EXTENDS Routing, TLC

CONSTANTS c1, c2, api1, web1, web2

MCRegistered == <<api1, web1, web2>>
MCServiceOf == (api1 :> "api") @@ (web2 :> "web") @@ (web1 :> "web")
MCRoutesOf == ("api" :> {<<"api">>}) @@ ("web" :> {<<>>})
MCTypeOf == ("api" :> "backend") @@ ("web" :> "frontend")
MCRotation == ("api" :> 1) @@ ("web" :> 2)

(* Two clients without cookies, whose probes of the backend overlap, or one  *)
(* with a cookie.                                                            *)
MCSetups ==
  {[clients |-> {c1, c2}, strategy |-> ("api" :> "round-robin") @@ ("web" :> "least-connections")],
   [clients |-> {c1}, strategy |-> ("api" :> "session-affinity") @@ ("web" :> "session-affinity")]}

MCPaths == {<<"api", "docs">>, <<"home">>}
MCWidths == ("api" :> 3) @@ ("docs" :> 4) @@ ("home" :> 4) @@ (":id" :> 3) @@ ("*" :> 1)
MCRouteOrder == << <<>>, <<"api">> >>
===============================================================================
