-------------------------------- MODULE Config --------------------------------
(***************************************************************************)
(* What the mesh makes of its configuration: MeshConfigLoader finds and     *)
(* hydrates it, MeshConfigNormalizer derives one part after the other, each *)
(* from the raw part and from the parts before it, and the first part that  *)
(* is wrong rejects the whole.  An unset value is None, '' is Empty.        *)
(***************************************************************************)
EXTENDS HsmRoutes, FiniteSets

CONSTANTS
  RawConfigs,  \* the configurations a project may have
  Empty        \* the empty url

(* The messages of a MeshConfigError.                                        *)
Errors ==
  {"no config", "bad schema", "no app", "bad range", "bad additional port", "no certificate",
   "registry.url is required", "streaming.url or registry.url is required",
   "coordination.url or registry.url is required", "coordination.locks.url is required",
   "hsm.schema is required", "hsm mapping matches nothing", "hsm route must start with /",
   "bad test", "bad name", "no command", "bad instances", "route must start with /", "bad container port"}

(* collectMappings: those of the schema's section, and each service's own.   *)
MappingsOf(config) ==
  config.hsm.mappings
  \cup {[service |-> s] @@ config.services[s].hsm :
          s \in {s \in DOMAIN config.services : config.services[s].hsm # None}}

ASSUME ConfigAssumption ==
  /\ None \notin Errors
  /\ \A config \in RawConfigs :
       /\ \A s \in DOMAIN config.services :
            /\ config.services[s].instances \in Int \cup {None}
            /\ config.services[s].routes \subseteq Range(RouteOrder)
       /\ config.hsm # None =>
            /\ \A m \in MappingsOf(config) : m.strip \in Seq(Segments) /\ m.prefix \in Seq(Segments)
            /\ config.hsm.schema # None =>
                 /\ \A r \in config.hsm.schema.routes : r.pattern \in Seq(Segments) \cup {None}
                 /\ \A s \in config.hsm.schema.states : s.backend \subseteq Seq(Segments)
                 /\ \A r \in MappedRoutes(config.hsm.schema, MappingsOf(config), config.hsm.mode,
                                           DOMAIN config.services) :
                      r.route \in Range(RouteOrder)

VARIABLES
  raw,       \* the configuration as the project writes it
  stage,     \* the part that is normalized next
  made,      \* the parts that have been
  rejected   \* the error of the MeshConfigError that was thrown

configVars == <<raw, stage, made, rejected>>

Parts == {"runtime", "router", "registry", "streaming", "coordination", "hsm",
          "services", "ci"}

ConfigInit ==
  /\ raw \in RawConfigs
  /\ stage = "load"
  /\ made = [part \in Parts |-> None]
  /\ rejected = None

Truthy(url) == url \notin {None, Empty}

IsPort(p) == p \in 1 .. 65535

IsRange(range) == IsPort(range.from) /\ IsPort(range.to) /\ range.from <= range.to

Make(part, value, next) ==
  /\ made' = [made EXCEPT ![part] = value]
  /\ stage' = next
  /\ UNCHANGED <<raw, rejected>>

Reject(reason) ==
  /\ rejected' = reason
  /\ stage' = "rejected"
  /\ UNCHANGED <<raw, made>>

-------------------------------------------------------------------------------
(* Loading *)

(* load: find the file, read the schema it names, and the first assertions.  *)
Load ==
  /\ stage = "load"
  /\ CASE ~ raw.found -> Reject("no config")
       [] raw.hsm # None /\ raw.hsm.file /\ ~ ValidSchema(raw.hsm.schema) -> Reject("bad schema")
       [] raw.app = None -> Reject("no app")
       [] OTHER -> stage' = "runtime" /\ UNCHANGED <<raw, made, rejected>>

-------------------------------------------------------------------------------
(* Runtime and router *)

DefaultPortRange == [from |-> 31000, to |-> 32999]

NormalizeRuntime ==
  /\ stage = "runtime"
  /\ LET range == Default(raw.runtime.portRange, DefaultPortRange)
     IN IF IsRange(range)
        THEN Make("runtime", [mode |-> Default(raw.runtime.mode, "process"), portRange |-> range],
                  "router")
        ELSE Reject("bad range")

CanonicalPort(tls, publicPorts, port) == IF tls /\ 443 \in publicPorts THEN 443 ELSE port

OtherPorts(ports, port) == ports \ {port}

Router(router) ==
  LET port == Default(router.port, 8080)
      tls == Default(router.tls, FALSE)
      ports == {port} \cup router.additionalPorts
  IN [enabled |-> Default(router.enabled, TRUE),
      port |-> port,
      tls |-> tls,
      secureCookies |-> Default(router.secureCookies, tls),
      additionalPorts |-> OtherPorts(router.additionalPorts, port),
      publicPort |-> CanonicalPort(tls, ports, port),
      publicPorts |-> ports]

NormalizeRouter ==
  /\ stage = "router"
  /\ CASE ~ (\A p \in raw.router.additionalPorts : IsPort(p)) -> Reject("bad additional port")
       [] raw.router.tls = TRUE /\ ~ raw.router.certificate -> Reject("no certificate")
       [] OTHER -> Make("router", Router(raw.router), "registry")

-------------------------------------------------------------------------------
(* The parts that may share a Redis *)

Registry(registry) ==
  LET type == Default(registry.type, IF Truthy(registry.url) THEN "redis" ELSE "file")
  IN [type |-> type,
      url |-> Default(registry.url, Empty),
      requireSignature |-> Default(registry.requireSignature, type = "redis")]

NormalizeRegistry ==
  /\ stage = "registry"
  /\ LET registry == Registry(raw.registry)
     IN IF registry.type = "redis" /\ ~ Truthy(raw.registry.url)
        THEN Reject("registry.url is required")
        ELSE Make("registry", registry, "streaming")

(* Mutant of Streaming: streams stay in memory unless told otherwise.        *)
StreamingInMemory(streaming, registry) ==
  [enabled |-> Default(streaming.enabled, registry.type = "redis"),
   transport |-> Default(streaming.transport, "memory"),
   url |-> Default(streaming.url, registry.url)]

Streaming(streaming, registry) ==
  [enabled |-> Default(streaming.enabled, registry.type = "redis"),
   transport |-> Default(streaming.transport, IF registry.type = "redis" THEN "redis" ELSE "memory"),
   url |-> Default(streaming.url, registry.url)]

NormalizeStreaming ==
  /\ stage = "streaming"
  /\ LET streaming == Streaming(raw.streaming, made["registry"])
     IN IF streaming.transport = "redis" /\ ~ Truthy(streaming.url)
        THEN Reject("streaming.url or registry.url is required")
        ELSE Make("streaming", streaming, "coordination")

(* The registry's url is '' when it is not given: the streaming url, the     *)
(* third in the code's chain, is never reached.                              *)
Coordination(coordination, registry) ==
  LET backend == Default(coordination.backend, IF registry.type = "redis" THEN "redis" ELSE "memory")
      url == Default(coordination.url, registry.url)
      enabled == Default(coordination.enabled,
                   Default(coordination.locks.enabled,
                     Default(coordination.leader, Default(coordination.cleanup, backend = "redis"))))
  IN [enabled |-> enabled,
      backend |-> backend,
      url |-> url,
      locks |-> [enabled |-> Default(coordination.locks.enabled, enabled),
                 backend |-> Default(coordination.locks.backend, backend),
                 url |-> Default(coordination.locks.url, url)],
      leader |-> Default(coordination.leader, enabled),
      cleanup |-> Default(coordination.cleanup, FALSE)]

NormalizeCoordination ==
  /\ stage = "coordination"
  /\ LET coordination == Coordination(raw.coordination, made["registry"])
     IN CASE coordination.backend = "redis" /\ ~ Truthy(coordination.url) ->
               Reject("coordination.url or registry.url is required")
          [] coordination.locks.backend = "redis" /\ ~ Truthy(coordination.locks.url) ->
               Reject("coordination.locks.url is required")
          [] OTHER -> Make("coordination", coordination, "hsm")

-------------------------------------------------------------------------------
(* Routes of the state machine *)

Mappings == MappingsOf(raw)

(* What map throws on a mapping.                                             *)
WrongMapping(m) ==
  CASE raw.hsm.strict /\ LeavesOut(raw.hsm.schema, m, DOMAIN raw.services) ->
         "hsm mapping matches nothing"
    [] Unrooted(raw.hsm.schema, m, raw.hsm.mode, DOMAIN raw.services) -> "hsm route must start with /"
    [] OTHER -> None

NoHsm == [enabled |-> FALSE, routes |-> {}]

NormalizeHsm ==
  /\ stage = "hsm"
  /\ CASE raw.hsm = None -> Make("hsm", NoHsm, "tests")
       [] raw.hsm # None /\ raw.hsm.schema = None ->
            IF raw.hsm.strict THEN Reject("hsm.schema is required") ELSE Make("hsm", NoHsm, "tests")
       [] OTHER ->
            IF ~ ValidSchema(raw.hsm.schema) THEN Reject("bad schema")
            ELSE IF \E m \in Mappings : WrongMapping(m) # None
            THEN \E m \in Mappings : WrongMapping(m) # None /\ Reject(WrongMapping(m))
            ELSE Make("hsm",
                      [enabled |-> TRUE,
                       routes |-> MappedRoutes(raw.hsm.schema, Mappings, raw.hsm.mode,
                                               DOMAIN raw.services)],
                      "tests")

NormalizeTests ==
  /\ stage = "tests"
  /\ IF \A t \in raw.tests : t.named /\ t.command
     THEN stage' = "services" /\ UNCHANGED <<raw, made, rejected>>
     ELSE Reject("bad test")

-------------------------------------------------------------------------------
(* Services *)

ContainerPort(service) ==
  Default(service.podman.containerPort,
    Default(service.port, IF service.type = "frontend" THEN 5173 ELSE 3000))

(* dedupeRoutes: the configured routes and those of the state machine.        *)
RoutesFor(name) ==
  raw.services[name].routes \cup {r.route : r \in {r \in made["hsm"].routes : r.service = name}}

Service(name) ==
  LET service == raw.services[name]
  IN [type |-> Default(service.type, "backend"),
      instances |-> Default(service.instances, 1),
      port |-> service.port,
      portRange |-> Default(service.portRange, made["runtime"].portRange),
      containerPort |-> ContainerPort(service),
      image |-> Default(service.podman.image, service.image),
      routes |-> RoutesFor(name),
      strategy |-> Default(service.strategy, "round-robin"),
      env |-> service.env,
      buildEnv |-> service.podman.env]

(* normalizeService's checks, in their order.                                 *)
Wrong(name) ==
  LET service == raw.services[name]
  IN CASE ~ service.named -> "bad name"
       [] ~ service.command -> "no command"
       [] Default(service.instances, 1) < 0 -> "bad instances"
       [] service.unrooted -> "route must start with /"
       [] ~ IsPort(ContainerPort(service)) -> "bad container port"
       [] ~ IsRange(Default(service.portRange, made["runtime"].portRange)) -> "bad range"
       [] OTHER -> None

NormalizeServices ==
  /\ stage = "services"
  /\ IF \E name \in DOMAIN raw.services : Wrong(name) # None
     THEN \E name \in DOMAIN raw.services : Wrong(name) # None /\ Reject(Wrong(name))
     ELSE Make("services", [name \in DOMAIN raw.services |-> Service(name)], "ci")

-------------------------------------------------------------------------------
(* Continuous integration *)

EnvOf(types, field) ==
  UNION {made["services"][s][field] : s \in {s \in DOMAIN made["services"] : made["services"][s].type \in types}}

(* What becomes a secret: the keys named, or those of the services that run   *)
(* in the backend, without what the .meshenv file carries.                    *)
Secrets(ci) == Default(ci.envSecrets, EnvOf({"backend", "worker"}, "env")) \ ci.envMeshenv

NormalizeCi ==
  /\ stage = "ci"
  /\ Make("ci", [envMeshenv |-> raw.ci.envMeshenv,
                 envSecrets |-> Secrets(raw.ci),
                 buildArgs |-> Default(raw.ci.buildArgs, EnvOf({"frontend"}, "buildEnv"))],
          "done")

ConfigNext ==
  \/ Load
  \/ NormalizeRuntime
  \/ NormalizeRouter
  \/ NormalizeRegistry
  \/ NormalizeStreaming
  \/ NormalizeCoordination
  \/ NormalizeHsm
  \/ NormalizeTests
  \/ NormalizeServices
  \/ NormalizeCi

ConfigSpec == ConfigInit /\ [][ConfigNext]_configVars

-------------------------------------------------------------------------------
(* Properties *)

Accepted == stage = "done"

(* What the rest of the program relies on in a normalized configuration.      *)
ConfigTypeOK ==
  /\ rejected = None <=> stage # "rejected"
  /\ made["router"] # None =>
       /\ made["router"].port \notin made["router"].additionalPorts
       /\ made["router"].publicPorts = made["router"].additionalPorts \cup {made["router"].port}
  /\ made["services"] # None =>
       \A s \in DOMAIN made["services"] :
         LET service == made["services"][s]
         IN /\ service.instances \in Nat /\ IsPort(service.containerPort)
            /\ IsRange(service.portRange)

NothingSplits ==
  Accepted /\ made["registry"].type = "redis" =>
    /\ raw.streaming.transport = None => made["streaming"].transport = "redis"
    /\ raw.coordination.backend = None /\ raw.coordination.locks.backend = None =>
         made["coordination"].locks.backend = "redis"
    /\ made["streaming"].transport = "redis" => Truthy(made["streaming"].url)
    /\ made["coordination"].locks.backend = "redis" => Truthy(made["coordination"].locks.url)

PublicPortIsServed ==
  made["router"] # None => made["router"].publicPort \in made["router"].publicPorts

(* A path of a route: "x" for each parameter, and for a wildcard.             *)
PathOf(route) == [n \in DOMAIN route |-> IF route[n] \in {Param, Wildcard} THEN "x" ELSE route[n]]

EveryRouteServes ==
  Accepted =>
    LET up == {s \in DOMAIN made["services"] : made["services"][s].instances > 0}
        candidates == UNION {{[service |-> s, route |-> r, rank |-> 1] :
                               r \in made["services"][s].routes} : s \in up}
    IN \A s \in up : \A route \in made["services"][s].routes :
         /\ HasMatch(PathOf(route), candidates)
         /\ route \in made["services"][BestMatch(PathOf(route), candidates).service].routes

MappedRoutesBelong ==
  Accepted /\ made["hsm"].enabled =>
    \A r \in made["hsm"].routes :
      /\ r.route \in made["services"][r.service].routes
      /\ \E m \in Mappings :
           /\ m.service = r.service /\ IsPrefix(m.prefix, r.route)
           /\ \E s \in SelectedStates(raw.hsm.schema, m) : s.id = r.stateId
      /\ r.source = "canonical" =>
           \E route \in raw.hsm.schema.routes : route.stateId = r.stateId /\ ~ route.redirects

(* The routes of an accepted configuration.  A path of a route, with "x" for  *)
(* its parameters and what a wildcard stands for, reaches a service that has  *)
(* the route when every service is up: whatever routes the configuration and  *)
(* the state machine put together, the order of RouteMatcher hides none, as   *)
(* long as they have no wildcards and literals outweigh parameters.  And      *)
(* the state machine gives a service only routes of states its mappings       *)
(* select, none that redirects, each below the mapping's prefix, and none is  *)
(* lost on the way (normalizeServices, HsmRouteMapper.map).                   *)
RoutesReach == EveryRouteServes /\ MappedRoutesBelong

SecretsApart ==
  Accepted =>
    /\ made["ci"].envSecrets \cap made["ci"].envMeshenv = {}
    /\ raw.ci.envSecrets = None =>
         \A s \in DOMAIN made["services"] :
           made["services"][s].type \in {"backend", "worker"} =>
             made["services"][s].env \subseteq made["ci"].envSecrets \cup made["ci"].envMeshenv

(* The parts of an accepted configuration agree.  A mesh that registers in    *)
(* Redis streams, locks and elects through Redis as well, each with a url,    *)
(* unless it says otherwise of a part: its processes never coordinate in the  *)
(* memory of one of them by oversight.  The origin it is known by is one its  *)
(* router listens on.  No key is both a secret of the deployment and a line   *)
(* of the .meshenv file that is built into the artifact, and no key of a      *)
(* backend or worker is neither, unless it names the secrets itself.          *)
PartsAgree == ConfigTypeOK /\ NothingSplits /\ PublicPortIsServed /\ SecretsApart
===============================================================================
