------------------------------- MODULE Routing --------------------------------
(***************************************************************************)
(* How the router finds the instance a request goes to: selectTarget of     *)
(* MeshRouterServer over RouteMatcher, the health cache of InstanceRegistry *)
(* and LoadBalancer with its sticky cookies, and what a failed attempt      *)
(* feeds back into the health cache.                                        *)
(*                                                                         *)
(* Requests are concurrent and a probe of an instance is started in one     *)
(* turn and its result stored in another.  Times are ages in ticks, kept up *)
(* to the limit the code compares them with.  Cookie signatures hold and    *)
(* cookies do not expire (CookieSigner.verify returns what was signed).     *)
(***************************************************************************)
EXTENDS Routes, FiniteSets, FiniteSetsExt

CONSTANTS
  Clients,           \* each has one request at a time
  Registered,        \* the instances, in the order of the registry's list
  ServiceOf,         \* the service of each instance
  RoutesOf,          \* the routes of each service, registered and configured
  TypeOf,            \* the type of each configured service
  Probed,            \* the services with a healthPath
  Paths,             \* the paths clients ask for
  Flaky,             \* the instances that fail, register and leave while the system runs
  Setups,            \* [clients, strategy]: who asks, and the load balancing strategy of each service
  CacheMs, CheckTimeoutMs, StaleGraceMs, FailureThreshold,  \* router.health
  Attempts,          \* router.targetRetry.attempts
  Rotation,          \* of each service: its cursor counts modulo a multiple of its lists' lengths
  Never              \* when an instance was last healthy that never was, or too long ago

Instances == {Registered[n] : n \in DOMAIN Registered}
Services == DOMAIN RoutesOf

ASSUME RoutingAssumption ==
  /\ DOMAIN TypeOf \subseteq Services
  /\ \A u \in Setups : u.clients \subseteq Clients /\ DOMAIN u.strategy = DOMAIN TypeOf
  /\ Registered \in Seq(Instances) /\ Flaky \subseteq Instances
  /\ \A i \in Instances : ServiceOf[i] \in Services
  /\ \A s \in Services : RoutesOf[s] \subseteq Range(RouteOrder) /\ Rotation[s] \in Nat \ {0}
  /\ Paths \subseteq Seq(Segments)
  /\ CacheMs \in Nat \ {0} /\ CheckTimeoutMs \in Nat /\ StaleGraceMs \in Nat
  /\ FailureThreshold \in Nat \ {0} /\ Attempts \in Nat \ {0}

VARIABLES
  setup,     \* one of Setups
  routable,  \* the instances the registry lists as routable
  world,     \* how an instance answers: "ok", "failing" (an error status other
             \* than 503) or "refusing" (no connection, or none in time)
  young,     \* the instances within startingGraceMs
  cache,     \* healthCache
  cursor,    \* LoadBalancer.cursors
  jar,       \* the mesh cookie of each client
  request    \* the request of each client

vars == <<setup, routable, world, young, cache, cursor, jar, request>>

NoRequest ==
  [phase |-> "idle", path |-> <<>>, attempt |-> 0, service |-> None, target |-> None,
   header |-> None, healthy |-> {}, probes |-> <<>>]

StrategyOf == setup.strategy

Init ==
  /\ setup \in Setups
  /\ routable \in SUBSET Instances
  /\ world = [i \in Instances |-> "ok"]
  /\ young \in SUBSET Flaky
  /\ cache = [i \in Instances |-> None]
  /\ cursor = [s \in Services |-> 0]
  /\ jar = [c \in Clients |-> None]
  /\ request = [c \in Clients |-> NoRequest]

-------------------------------------------------------------------------------
(* The health cache *)

Later(age, limit) == IF age < limit THEN age + 1 ELSE limit

(* lastHealthyAt as an age; beyond the stale grace it is as good as none.     *)
AgedSeen(seen, by) ==
  IF seen = Never \/ seen + by > StaleGraceMs THEN Never ELSE seen + by

Fresh(entry) == entry # None /\ entry.age < CacheMs

(* What checkHttpHealth starts from when it has cached nothing: healthy now. *)
Previous(cached) ==
  IF cached = None THEN [healthy |-> TRUE, age |-> CacheMs, failures |-> 0, seen |-> 0] ELSE cached

(* Mutant of Verdict: the count starts again once an instance is dropped.     *)
VerdictRestarts(cached, answer) ==
  LET before == Previous(cached)
      failures == IF answer = "ok" THEN 0 ELSE (before.failures % FailureThreshold) + 1
  IN [failures |-> failures, healthy |-> failures < FailureThreshold]

(* Mutant of Verdict: a good answer does not bring a dropped instance back.   *)
VerdictFinal(cached, answer) ==
  LET before == Previous(cached)
      failures == IF answer = "ok" THEN 0 ELSE Min({before.failures + 1, FailureThreshold})
  IN [failures |-> failures, healthy |-> before.healthy /\ failures < FailureThreshold]

(* The verdict on an instance whose probe had this answer, from the entry    *)
(* the check started with: an error answer (not a refusal, a timeout or a    *)
(* 503) shortly after a good one is forgiven; fewer failures than the        *)
(* threshold leave the verdict as it was.                                    *)
Verdict(cached, answer) ==
  LET before == Previous(cached)
      failures == IF answer = "ok" THEN 0 ELSE Min({before.failures + 1, FailureThreshold})
      graced == answer = "failing" /\ before.seen # Never
  IN [failures |-> failures,
      healthy |-> \/ answer = "ok"
                  \/ graced
                  \/ failures < FailureThreshold /\ before.healthy]

(* setHealthState after a probe of this age.                                 *)
Stored(probe, answer) ==
  LET verdict == Verdict(probe.cached, answer)
  IN [healthy |-> verdict.healthy,
      age |-> Min({probe.age, CacheMs}),
      failures |-> verdict.failures,
      seen |-> AgedSeen(IF answer = "ok" THEN 0 ELSE Previous(probe.cached).seen, probe.age)]

StartingEntry == [healthy |-> TRUE, age |-> 0, failures |-> 0, seen |-> 0]

(* Mutant of Invalidated: the entry is dropped, to be probed anew.            *)
InvalidatedDropped(entry) == None

(* invalidateHealth: unhealthy as of now, whatever was known.                *)
Invalidated(entry) ==
  [healthy |-> FALSE, age |-> 0, failures |-> FailureThreshold, seen |-> Never]

-------------------------------------------------------------------------------
(* LoadBalancer *)

(* The order of the registry's list.                                         *)
Position(i) == CHOOSE n \in DOMAIN Registered : Registered[n] = i

Active(i) == Cardinality({c \in Clients : request[c].phase = "sent" /\ request[c].target = i})

LeastConnections(list, i) ==
  \A j \in list : \/ Active(i) < Active(j)
                  \/ Active(i) = Active(j) /\ Position(i) <= Position(j)

NextCursor(s, n) == (n + 1) % Rotation[s]

RoundRobin(s, list, i) ==
  Cardinality({j \in list : Position(j) < Position(i)}) = cursor[s] % Cardinality(list)

(* The mesh cookie, signed: the service it is for and the instance it names.  *)
SignedCookie(s, i) == [service |-> s, nodeId |-> i]

(* read and verify: the cookie of another service is as good as none.         *)
VerifiedNode(cookie, s) ==
  IF cookie # None /\ cookie.service = s THEN cookie.nodeId ELSE None

(* Whether the cursor decides for a client with this cookie.                 *)
Rotates(s, list, cookie) ==
  /\ StrategyOf[s] # "least-connections"
  /\ StrategyOf[s] = "session-affinity" => VerifiedNode(cookie, s) \notin list

(* select: the one instance of the list such a client is sent to.            *)
Picks(s, list, cookie, i) ==
  CASE StrategyOf[s] = "least-connections" -> LeastConnections(list, i)
    [] Rotates(s, list, cookie) -> RoundRobin(s, list, i)
    [] OTHER -> i = VerifiedNode(cookie, s)

-------------------------------------------------------------------------------
(* Requests *)

Set(c, r) == request' = [request EXCEPT ![c] = r]

Arrive(c, path) ==
  /\ request[c].phase = "idle"
  /\ Set(c, [NoRequest EXCEPT !.phase = "matching", !.path = path])
  /\ UNCHANGED <<setup, routable, world, young, cache, cursor, jar>>

(* The attempt found no target or failed: sleep and try again, or answer.    *)
RetryOrAnswer(c) ==
  LET r == request[c]
  IN IF r.attempt < Attempts - 1
     THEN Set(c, [r EXCEPT !.phase = "matching", !.attempt = @ + 1, !.service = None,
                           !.target = None, !.healthy = {}, !.probes = <<>>])
     ELSE Set(c, NoRequest)

(* collectRoutes: the routes the routable instances are registered with.     *)
Candidates ==
  UNION {{[service |-> ServiceOf[Registered[n]], route |-> route, rank |-> n] :
            route \in RoutesOf[ServiceOf[Registered[n]]]} :
         n \in {m \in DOMAIN Registered : Registered[m] \in routable}}

(* Mutant of ClaimedByBackend: only routes equal to the path are claimed. *)
ClaimedExactly(path) ==
  \E s \in DOMAIN TypeOf :
    /\ TypeOf[s] \notin {"frontend", "worker"}
    /\ \E route \in RoutesOf[s] : route # <<>> /\ route = path

(* The guard of selectTarget: a configured service that is neither frontend  *)
(* nor worker has a route the path begins with.  Parameters and wildcards    *)
(* are compared as text here and match no path.                              *)
ClaimedByBackend(path) ==
  \E s \in DOMAIN TypeOf :
    /\ TypeOf[s] \notin {"frontend", "worker"}
    /\ \E route \in RoutesOf[s] : route # <<>> /\ IsPrefix(route, path)

Routed(path) ==
  LET match == BestMatch(path, Candidates)
  IN /\ HasMatch(path, Candidates)
     /\ match.service \in DOMAIN TypeOf
     /\ ~ (TypeOf[match.service] = "frontend" /\ match.route = <<>> /\ ClaimedByBackend(path))

(* selectTarget, up to its second look at the registry.                      *)
Match(c) ==
  LET r == request[c]
  IN /\ r.phase = "matching"
     /\ IF Routed(r.path)
        THEN Set(c, [r EXCEPT !.phase = "listing",
                              !.service = BestMatch(r.path, Candidates).service])
        ELSE RetryOrAnswer(c)
     /\ UNCHANGED <<setup, routable, world, young, cache, cursor, jar>>

(* listHealthyByService: the service's instances are judged from the cache   *)
(* or by their age, or a probe is sent that remembers the cached entry.      *)
List(c) ==
  LET r == request[c]
      listed == {i \in routable : ServiceOf[i] = r.service}
      checked == IF r.service \in Probed THEN listed ELSE {}
      starting == {i \in checked \cap young : ~ Fresh(cache[i])}
      asked == {i \in checked \ young : ~ Fresh(cache[i])}
  IN /\ r.phase = "listing"
     /\ cache' = [i \in Instances |-> IF i \in starting THEN StartingEntry ELSE cache[i]]
     /\ Set(c, [r EXCEPT !.phase = "probing",
                         !.healthy = (listed \ checked) \cup starting
                                     \cup {i \in checked : Fresh(cache[i]) /\ cache[i].healthy},
                         !.probes = [i \in asked |-> [cached |-> cache[i], age |-> 0]]])
     /\ UNCHANGED <<setup, routable, world, young, cursor, jar>>

(* A probe ends and its verdict is stored, over whatever is cached by then.  *)
Answer(c, i) ==
  LET r == request[c]
      entry == Stored(r.probes[i], world[i])
  IN /\ r.phase = "probing" /\ i \in DOMAIN r.probes
     /\ cache' = [cache EXCEPT ![i] = entry]
     /\ Set(c, [r EXCEPT !.healthy = IF entry.healthy THEN @ \cup {i} ELSE @,
                         !.probes = [j \in DOMAIN @ \ {i} |-> @[j]]])
     /\ UNCHANGED <<setup, routable, world, young, cursor, jar>>

(* All probes have ended: the load balancer picks, and the attempt begins.   *)
Choose(c) ==
  LET r == request[c]
      rotates == Rotates(r.service, r.healthy, jar[c])
  IN /\ r.phase = "probing" /\ DOMAIN r.probes = {}
     /\ \/ r.healthy = {} /\ RetryOrAnswer(c) /\ UNCHANGED cursor
        \/ \E i \in r.healthy :
             /\ Picks(r.service, r.healthy, jar[c], i)
             /\ Set(c, [r EXCEPT !.phase = "sent", !.target = i, !.healthy = {},
                                 !.header = IF StrategyOf[r.service] = "session-affinity" /\ rotates
                                            THEN SignedCookie(r.service, i) ELSE @])
             /\ cursor' = [cursor EXCEPT ![r.service] = IF rotates THEN NextCursor(r.service, @) ELSE @]
     /\ UNCHANGED <<setup, routable, world, young, cache, jar>>

(* The instance's response is passed on, with the cookie header an attempt   *)
(* of the request has set.                                                   *)
Respond(c) ==
  LET r == request[c]
  IN /\ r.phase = "sent"
     /\ world[r.target] # "refusing"
     /\ jar' = [jar EXCEPT ![c] = IF r.header = None THEN @ ELSE r.header]
     /\ Set(c, NoRequest)
     /\ UNCHANGED <<setup, routable, world, young, cache, cursor>>

(* The attempt ends in a transient error: the instance is marked unhealthy.  *)
Refused(c) ==
  LET r == request[c]
  IN /\ r.phase = "sent"
     /\ world[r.target] = "refusing"
     /\ cache' = [cache EXCEPT ![r.target] = Invalidated(@)]
     /\ RetryOrAnswer(c)
     /\ UNCHANGED <<setup, routable, world, young, cursor, jar>>

-------------------------------------------------------------------------------
(* Time, the registry and the instances *)

Aged(entry) ==
  IF entry = None THEN None
  ELSE [entry EXCEPT !.age = Later(@, CacheMs), !.seen = AgedSeen(@, 1)]

Waited(probes) == [i \in DOMAIN probes |-> [probes[i] EXCEPT !.age = @ + 1]]

(* A probe is answered or times out within checkTimeoutMs.                   *)
Tick ==
  /\ \A c \in Clients : \A i \in DOMAIN request[c].probes :
       request[c].probes[i].age < CheckTimeoutMs
  /\ cache' = [i \in Instances |-> Aged(cache[i])]
  /\ request' = [c \in Clients |-> [request[c] EXCEPT !.probes = Waited(@)]]
  /\ UNCHANGED <<setup, routable, world, young, cursor, jar>>

GraceEnds(i) ==
  /\ i \in young
  /\ young' = young \ {i}
  /\ UNCHANGED <<setup, routable, world, cache, cursor, jar, request>>

Registers(i) ==
  /\ routable' = IF i \in routable THEN routable \ {i} ELSE routable \cup {i}
  /\ UNCHANGED <<setup, world, young, cache, cursor, jar, request>>

Turns(i, state) ==
  /\ world[i] # state
  /\ world' = [world EXCEPT ![i] = state]
  /\ UNCHANGED <<setup, routable, young, cache, cursor, jar, request>>

Serve(c) == Match(c) \/ List(c) \/ (\E i \in Instances : Answer(c, i)) \/ Choose(c)
            \/ Respond(c) \/ Refused(c)

Next ==
  \/ \E c \in setup.clients, path \in Paths : Arrive(c, path)
  \/ \E c \in Clients : Serve(c)
  \/ Tick
  \/ \E i \in Flaky : GraceEnds(i) \/ Registers(i)
  \/ \E i \in Flaky, state \in {"ok", "failing", "refusing"} : Turns(i, state)

(* The event loop goes on with every request, a probe ends by its timeout,   *)
(* and time passes.                                                          *)
Spec ==
  /\ Init /\ [][Next]_vars
  /\ \A c \in Clients : WF_vars(Serve(c))
  /\ \A i \in Flaky : WF_vars(GraceEnds(i))
  /\ WF_vars(Tick)

-------------------------------------------------------------------------------
(* Properties *)

Entries ==
  [healthy : BOOLEAN, age : 0 .. CacheMs, failures : 0 .. FailureThreshold,
   seen : 0 .. StaleGraceMs \cup {Never}]

(* Type correctness of InstanceRegistry's cache, the cursors and the requests. *)
TypeOK ==
  /\ routable \subseteq Instances /\ young \subseteq Instances
  /\ world \in [Instances -> {"ok", "failing", "refusing"}]
  /\ cache \in [Instances -> Entries \cup {None}]
  /\ setup \in Setups
  /\ \A s \in Services : cursor[s] \in 0 .. Rotation[s] - 1
  /\ \A c \in Clients : jar[c] # None => ServiceOf[jar[c].nodeId] = jar[c].service
  /\ \A c \in Clients :
       /\ request[c].attempt \in 0 .. Attempts - 1
       /\ request[c].phase = "sent" => ServiceOf[request[c].target] = request[c].service

LongestPrefixWins ==
  \A path \in Paths \cup Range(RouteOrder) :
    LET literal == {c.route : c \in {d \in Candidates : IsLiteral(d.route)}}
        fitting == {route \in literal : IsPrefix(route, path)}
    IN /\ fitting # {} => HasMatch(path, Candidates)
       /\ HasMatch(path, Candidates) /\ IsLiteral(BestMatch(path, Candidates).route) =>
            /\ BestMatch(path, Candidates).route \in fitting
            /\ \A route \in fitting : Len(route) <= Len(BestMatch(path, Candidates).route)

BackendPathsStay ==
  \A c \in Clients :
    LET r == request[c]
        owners == {s \in DOMAIN TypeOf : TypeOf[s] \notin {"frontend", "worker"}}
    IN /\ r.phase = "sent" /\ TypeOf[r.service] = "frontend"
       /\ \E s \in owners : \E route \in RoutesOf[s] \ {<<>>} :
            IsLiteral(route) /\ IsPrefix(route, r.path)
       => RoutesOf[r.service] # {<<>>}

(* A request goes to the service it belongs to.  The match of a literal path  *)
(* is what a search for the longest registered prefix finds, although         *)
(* RouteMatcher.match sorts by a score that counts characters.  While all     *)
(* instances of a backend are gone, a path below one of its literal routes is *)
(* not served by a frontend that only has the catch-all route: the            *)
(* anti-fallthrough guard of selectTarget, over two looks at the registry.    *)
RightService == TypeOK /\ LongestPrefixWins /\ BackendPathsStay

(* An instance the cache calls unhealthy is called healthy again only by an   *)
(* HTTP answer, by its starting grace, or by a probe that began while it was  *)
(* called healthy: not by failures that are counted anew.                     *)
BackByAnswer ==
  [][\A i \in Instances :
       cache[i] # None /\ ~ cache[i].healthy /\ cache'[i] # None /\ cache'[i].healthy =>
         \/ world[i] # "refusing"
         \/ i \in young
         \/ \E c \in Clients :
              /\ i \in DOMAIN request[c].probes
              /\ request[c].probes[i].cached = None \/ request[c].probes[i].cached.healthy]_vars

(* An instance that refuses connections for good is, from some time on, sent  *)
(* no request: failed attempts and probes together drop it, also when they    *)
(* overtake each other (invalidateHealth and checkHttpHealth).                *)
DownIsDropped ==
  \A i \in Flaky : <>[](world[i] = "refusing") => <>[](\A c \in Clients : request[c].target # i)

(* An instance that answers for good and stays registered is, from some time  *)
(* on, among the healthy ones of every selection of its service.              *)
UpIsUsed ==
  \A i \in Flaky :
    <>[](world[i] = "ok" /\ i \in routable) =>
      <>[](\A c \in Clients :
             LET r == request[c]
             IN r.phase = "probing" /\ r.service = ServiceOf[i] /\ r.probes = <<>> => i \in r.healthy)
===============================================================================
