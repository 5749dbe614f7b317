------------------------------- MODULE MCConfig -------------------------------
(* The configurations a project may have: each part varied in full, the others *)
(* as in a small project.                                                      *)
EXTENDS Config

Urls == {None, Empty, "redis://a", "redis://b"}
Flags == {None, TRUE, FALSE}

NoPodman == [containerPort |-> None, image |-> None, env |-> {}]

ApiService ==
  [named |-> TRUE, command |-> TRUE, type |-> None, instances |-> None, routes |-> {<<"api">>},
   unrooted |-> FALSE, port |-> None, portRange |-> None, image |-> None, strategy |-> None,
   env |-> {"DB"}, hsm |-> None, podman |-> NoPodman]

WebService ==
  [ApiService EXCEPT !.type = "frontend", !.routes = {<<>>}, !.env = {"THEME"},
                     !.podman = [NoPodman EXCEPT !.env = {"API_URL"}]]

Small ==
  [found |-> TRUE, app |-> "app", hsm |-> None, tests |-> {},
   runtime |-> [mode |-> None, portRange |-> None],
   router |-> [enabled |-> None, port |-> None, tls |-> None, certificate |-> FALSE,
               secureCookies |-> None, additionalPorts |-> {}],
   registry |-> [type |-> None, url |-> None, requireSignature |-> None],
   streaming |-> [enabled |-> None, transport |-> None, url |-> None],
   coordination |-> [enabled |-> None, backend |-> None, url |-> None, leader |-> None,
                     cleanup |-> None,
                     locks |-> [enabled |-> None, backend |-> None, url |-> None]],
   services |-> [s \in {"api", "web"} |-> IF s = "api" THEN ApiService ELSE WebService],
   ci |-> [envMeshenv |-> {}, envSecrets |-> None, buildArgs |-> None]]

Redis ==
  {[Small EXCEPT !.registry = [type |-> rt, url |-> ru, requireSignature |-> None],
                 !.streaming = [enabled |-> None, transport |-> st, url |-> su],
                 !.coordination = [@ EXCEPT !.backend = cb, !.url = cu,
                                            !.locks = [enabled |-> None, backend |-> lb, url |-> lu]]] :
     rt \in {None, "file", "redis"}, ru \in Urls, st \in {None, "memory", "redis"},
     su \in Urls \ {"redis://a"}, cb \in {None, "memory", "redis"}, cu \in {None, Empty},
     lb \in {None, "memory", "redis"}, lu \in {None, "redis://b"}}

Switches ==
  {[Small EXCEPT !.coordination = [@ EXCEPT !.enabled = e, !.leader = l, !.cleanup = c,
                                            !.locks = [@ EXCEPT !.enabled = k]]] :
     e \in Flags, l \in Flags, c \in Flags, k \in Flags}

Routers ==
  {[Small EXCEPT !.router = [enabled |-> e, port |-> p, tls |-> t, certificate |-> k,
                             secureCookies |-> None, additionalPorts |-> a]] :
     e \in {None, FALSE}, p \in {None, 443, 8443}, t \in Flags, k \in BOOLEAN,
     a \in SUBSET {0, 443, 8080, 8443}}

Refused ==
  {[Small EXCEPT !.found = FALSE], [Small EXCEPT !.app = None],
   [Small EXCEPT !.tests = {[named |-> TRUE, command |-> FALSE]}],
   [Small EXCEPT !.runtime = [@ EXCEPT !.portRange = [from |-> 10, to |-> 9]]],
   [Small EXCEPT !.services["api"].named = FALSE],
   [Small EXCEPT !.services["api"].command = FALSE],
   [Small EXCEPT !.services["api"].unrooted = TRUE],
   [Small EXCEPT !.services["api"].portRange = [from |-> 0, to |-> 9]]}

Services ==
  {[Small EXCEPT !.services["api"] = [@ EXCEPT !.instances = n, !.port = p, !.type = t,
                                              !.podman = [@ EXCEPT !.containerPort = c],
                                              !.env = env],
                 !.ci = [envMeshenv |-> m, envSecrets |-> k, buildArgs |-> None]] :
     n \in {None, -1, 0}, p \in {None, 0}, c \in {None, 0, 80},
     t \in {None, "frontend", "worker", "router"}, env \in SUBSET {"DB", "KEY"},
     m \in {{}, {"DB"}, {"DB", "KEY"}}, k \in {None, {}, {"KEY"}, {"DB", "KEY"}}}

State(id, tags, backend) == [id |-> id, tags |-> tags, backend |-> backend, unrooted |-> FALSE]

Schema ==
  [kind |-> None,
   states |-> {State(<<"users">>, {"public"}, {<<"api", "users">>}),
               State(<<"users", "one">>, {}, {<<"api", "users", ":id">>}),
               State(<<"home">>, {"public"}, {})},
   routes |-> {[stateId |-> <<"users">>, virtual |-> FALSE, redirects |-> FALSE,
                pattern |-> <<"users">>, unrooted |-> FALSE],
               [stateId |-> <<"users", "one">>, virtual |-> FALSE, redirects |-> FALSE,
                pattern |-> <<"users", ":id">>, unrooted |-> FALSE],
               [stateId |-> <<"home">>, virtual |-> FALSE, redirects |-> TRUE,
                pattern |-> <<"start">>, unrooted |-> FALSE],
               [stateId |-> <<"home">>, virtual |-> TRUE, redirects |-> FALSE,
                pattern |-> <<"home">>, unrooted |-> FALSE]}]

Binding(states, tags, strip, prefix) ==
  [states |-> states, tags |-> tags, canonical |-> None, backend |-> None,
   strip |-> strip, prefix |-> prefix, unrooted |-> FALSE]

One(id) == [id |-> id, below |-> FALSE]
Below(id) == [id |-> id, below |-> TRUE]

Bindings ==
  {None} \cup {Binding(states, tags, strip, prefix) :
     states \in {{}, {One(<<"users">>)}, {Below(<<"users">>)}},
     tags \in {{}, {"public"}}, strip \in {<<>>, <<"api">>},
     prefix \in {<<>>, <<"api">>, <<"v1">>}}

StateMachines ==
  {[Small EXCEPT !.hsm = [file |-> f, schema |-> schema, strict |-> strict, mode |-> mode,
                          mappings |-> IF other THEN {[service |-> "gone"] @@ Binding({}, {"public"}, <<>>, <<>>)}
                                       ELSE {}],
                 !.services["api"].hsm = api, !.services["web"].hsm = web,
                 !.services["web"].routes = {<<>>, <<"users", "me">>}] :
     f \in BOOLEAN, schema \in {Schema, [Schema EXCEPT !.kind = "other"]}, strict \in BOOLEAN,
     mode \in {"canonical", "backend", "both"}, other \in BOOLEAN,
     api \in Bindings, web \in {None, Binding({}, {"public"}, <<>>, <<>>)}}

(* A pattern, a backend route or a prefix without its slash.                    *)
Rootless ==
  {[Small EXCEPT !.hsm = [file |-> FALSE, schema |-> schema, strict |-> FALSE, mode |-> mode,
                          mappings |-> {}],
                 !.services["api"].hsm = [Binding(states, {}, <<>>, <<"v1">>) EXCEPT !.unrooted = u]] :
     schema \in {Schema, [Schema EXCEPT !.states = {[s EXCEPT !.unrooted = TRUE] : s \in @}],
                [Schema EXCEPT !.routes = {[r EXCEPT !.unrooted = TRUE] : r \in @}]},
     mode \in {"canonical", "backend"}, states \in {{}, {One(<<"users">>)}}, u \in BOOLEAN}

Unhydrated ==
  {[Small EXCEPT !.hsm = [file |-> FALSE, schema |-> None, strict |-> strict, mode |-> "both",
                          mappings |-> {}]] : strict \in BOOLEAN}

MCRawConfigs ==
  UNION {Redis, Switches, Routers, Refused, Services, StateMachines, Rootless, Unhydrated}

MCWidths ==
  [s \in {"api", "users", "start", "home", "v1", "me", "x", ":id", "*"} |->
     CASE s \in {"api", ":id"} -> 3 [] s \in {"v1", "me"} -> 2 [] s \in {"x", "*"} -> 1
       [] s = "home" -> 4 [] OTHER -> 5]

MCRouteOrder ==
  << <<>>, <<"api">>, <<"api", "api", "users">>, <<"api", "api", "users", ":id">>,
     <<"api", "users">>, <<"api", "users", ":id">>, <<"start">>, <<"users">>,
     <<"users", ":id">>, <<"users", "me">>, <<"v1", "api", "users">>, <<"v1", "api", "users", ":id">>,
     <<"v1", "users">>, <<"v1", "users", ":id">>, <<"v1", "start">>, <<"api", "start">> >>
===============================================================================
