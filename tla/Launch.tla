------------------------------- MODULE Launch -------------------------------
(***************************************************************************)
(* `mesh run' and `mesh stop' in both runtime modes, with the Redis         *)
(* registry.  In process mode a run checks Redis, takes over the instances  *)
(* other runs have on record, and then finds a port for, spawns and         *)
(* registers one instance after the other, the router last.  In podman mode *)
(* it finds all ports first and then starts one container after the other.  *)
(* Around it children bind their ports and exit, heartbeats keep records    *)
(* alive, supervisors are killed, and `mesh stop' takes records and         *)
(* processes away.                                                         *)
(*                                                                         *)
(* A registry command is an action of its own: a heartbeat, a drain mark    *)
(* and the report of a failure read the record and store it again later.    *)
(* A record expires once nobody is about to store it.  stopAll of process   *)
(* mode, and an exit before its registration is answered, are in            *)
(* Supervisor.                                                             *)
(***************************************************************************)
EXTENDS Naturals, Sequences, FiniteSetsExt

CONSTANTS
  Modes,      \* the values of runtime.mode to look at
  Runs,       \* the `mesh run' commands, 1, 2 ... in the order they are given
  Services,
  Order,      \* the services in the order of the configuration
  Workers,    \* the services without a port
  Routed,     \* the services with routes
  Realtime,   \* the backends with REALTIME_ENABLED
  Instances,  \* how many instances each service has
  Preferred,  \* the port of each service, or None
  From, To,   \* the range the other ports are taken from
  Router,     \* the name the router is registered under
  RouterPort,
  None,
  Requests,    \* what `mesh run' may be asked to start
  Foreign,    \* the ports a process that cannot be killed may hold
  Flaky,      \* the services whose instances may exit by themselves, or podman fails on
  Slow,       \* those whose heartbeats other commands may come between
  InFlight,   \* bound: a heartbeat begins while fewer writes are under way
  Commands    \* bound: commands given after the first one

AllPorts == (From..To) \cup {RouterPort} \cup (Range(Preferred) \ {None})

ASSUME ServicesAssumption ==
  /\ Order \in Seq(Services) /\ Range(Order) = Services
  /\ Workers \cup Routed \cup Realtime \cup Flaky \subseteq Services
  /\ Workers \cap Routed = {}
  /\ Router \notin Services
  /\ Instances \in [Services -> Nat]
  /\ Runs \subseteq Nat /\ InFlight \in Nat /\ Commands \in Nat

\* Any ports: nothing keeps two services from preferring one port, or a port
\* of the range, or the router's.
ASSUME PortsAssumption ==
  /\ From \in Nat /\ To \in Nat /\ None \notin Nat /\ RouterPort \in Nat
  /\ Preferred \in [Services -> Nat \cup {None}]

VARIABLES
  mode,      \* runtime.mode
  foreign,   \* the ports held by processes that cannot be killed
  redis,     \* whether the realtime services' Redis answers
  pc,        \* where each run is
  picked,    \* the services it starts
  plan,      \* the instances it has yet to start
  seen,      \* the records it has yet to go through
  found,     \* what it has seen up and on record; for the properties only
  port,      \* the port of each instance
  proc,      \* its process or container
  record,    \* the status on record
  pending,   \* the statuses that have been read and will be stored
  beating,   \* the instances whose heartbeat timer runs
  stop,      \* where `mesh stop' is, what it stops, what it has yet to mark
  given      \* the commands given after the first one

runs == <<pc, picked, plan, seen, found>>
instances == <<port, proc>>
registry == <<record, pending, beating>>
vars == <<mode, foreign, redis, runs, instances, registry, stop, given>>

Numbers(s) == IF s = Router THEN {0} ELSE 0..(Instances[s] - 1)
Child ==
  {c \in [run : Runs, service : Services \cup {Router},
          index : UNION {Numbers(s) : s \in Services \cup {Router}}] :
     c.index \in Numbers(c.service)}
Of(r) == {c \in Child : c.run = r}

\* The loops of the code go through instances one by one: in the order of the
\* configuration, the router last.
Position(c) ==
  IF c.service = Router THEN Len(Order) + 1 ELSE CHOOSE k \in DOMAIN Order : Order[k] = c.service
Earlier(c, d) ==
  \/ c.run < d.run
  \/ c.run = d.run /\ Position(c) < Position(d)
  \/ c.run = d.run /\ c.service = d.service /\ c.index < d.index
Foremost(set) == {c \in set : \A d \in set \ {c} : Earlier(c, d)}

Alive == {"running", "draining", "failed"}
Live(c) == proc[c] \in {"starting", "up"}
Listed(c) == record[c] \in Alive
Ended == {"up", "failed", "crashed", "stopped"}
Stops == [at : {"idle", "mark", "kill", "done"},
          targets : SUBSET Child, todo : SUBSET Child, now : SUBSET Child]
States == Ended \cup {"idle", "preflight", "ask", "again", "list", "reconcile", "network", "plan",
                      "start", "register", "draining", "stopping"}

Init ==
  /\ mode \in Modes
  /\ foreign \in SUBSET Foreign
  /\ redis \in BOOLEAN
  /\ pc = [r \in Runs |-> "idle"]
  /\ picked = [r \in Runs |-> {}]
  /\ plan = [r \in Runs |-> {}]
  /\ seen = [r \in Runs |-> {}]
  /\ found = [r \in Runs |-> {}]
  /\ port = [c \in Child |-> None]
  /\ proc = [c \in Child |-> "none"]
  /\ record = [c \in Child |-> "never"]
  /\ pending = [c \in Child |-> {}]
  /\ beating = {}
  /\ stop = [at |-> "idle", targets |-> {}, todo |-> {}, now |-> {}]
  /\ given = 0

-----------------------------------------------------------------------------
(* Ports: PortAllocator and ProcessTakeover                                *)

Holders(p) == {c \in Child : proc[c] = "up" /\ port[c] = p}
Available(p) == p \notin foreign /\ Holders(p) = {}

\* The allocator of a run knows the ports it has given out, not the router's.
Reserved(r) == {port[c] : c \in {d \in Of(r) : d.service # Router}}

InRange(taken) == {p \in From..To : p \notin taken /\ Available(p)}
FromRange(taken) == IF InRange(taken) = {} THEN None ELSE Min(InRange(taken))

\* The port for an instance, None if all are taken.
PortFor(c, taken) ==
  LET first == IF c.index = 0 THEN Preferred[c.service] ELSE None
  IN  IF first # None /\ first \notin taken /\ Available(first) THEN first ELSE FromRange(taken)

\* Mutant: every instance of a service frees its preferred port.
ForcedByAll(c) ==
  IF c.service = Router THEN {RouterPort} ELSE {Preferred[c.service]} \ {None}

\* The ports that are freed by force before the instance is spawned.
Forced(c) ==
  IF c.service = Router THEN {RouterPort}
  ELSE IF c.service \notin Workers /\ c.index = 0 THEN {Preferred[c.service]} \ {None}
  ELSE {}

\* forceFreePort: whoever listens is terminated; after its deadline it throws.
Kill(p) == proc' = [c \in Child |-> IF c \in Holders(p) THEN "killed" ELSE proc[c]]
CannotFree(p) == p \in foreign

-----------------------------------------------------------------------------
(* Starting: MeshRuntime, and what both supervisors begin with              *)

StartsRouter(r) == picked[r] \cap Routed # {}
Planned(counts, r) ==
  {c \in Of(r) : IF c.service = Router THEN StartsRouter(r)
                 ELSE c.service \in picked[r] /\ c.index < counts[c.service]}

Requiring(r) == {s \in picked[r] \cap Realtime : Instances[s] > 1}
Fallback(r) == [s \in Services |-> IF s \in Requiring(r) THEN 1 ELSE Instances[s]]

\* A further run may start at any time, while others launch or are stopped.
\* Bound: in podman mode, where runs share nothing but ports, only one does.
Start(r) ==
  /\ pc[r] = "idle"
  /\ \A q \in Runs : q < r => pc[q] # "idle"
  /\ r # 1 => mode = "process" /\ given < Commands
  /\ given' = IF r # 1 THEN given + 1 ELSE given
  /\ \E names \in Requests :
       /\ picked' = [picked EXCEPT ![r] = {s \in names \cap Services : Instances[s] > 0}]
       /\ pc' = [pc EXCEPT ![r] = IF ~(names \subseteq Services) THEN "failed"
                                  ELSE IF mode = "podman" THEN "network" ELSE "preflight"]
  /\ UNCHANGED <<mode, foreign, redis, plan, seen, found, instances, registry, stop>>

-----------------------------------------------------------------------------
(* Process mode: ProcessRedisPreflight and reconcilePreexistingInstances   *)

GoOn(r, counts) ==
  /\ plan' = [plan EXCEPT ![r] = Planned(counts, r)]
  /\ pc' = [pc EXCEPT ![r] = "list"]

\* Redis is probed when a realtime service is to have several instances, and
\* again once Homebrew has started it.
Probe(r) ==
  /\ pc[r] \in {"preflight", "again"}
  /\ CASE Requiring(r) = {} \/ redis -> GoOn(r, Instances)
       [] pc[r] = "again" /\ ~redis -> GoOn(r, Fallback(r))
       [] OTHER -> pc' = [pc EXCEPT ![r] = "ask"] /\ UNCHANGED plan
  /\ UNCHANGED <<mode, foreign, redis, picked, seen, found, instances, registry, stop, given>>

\* No terminal, the answer no, no Homebrew or a failing command.
Decline(r) ==
  /\ pc[r] = "ask"
  /\ GoOn(r, Fallback(r))
  /\ UNCHANGED <<mode, foreign, redis, picked, seen, found, instances, registry, stop, given>>

\* Mutant: Redis is taken to run once Homebrew has started it.
InstallTrusted(r) ==
  /\ pc[r] = "ask"
  /\ redis' \in {redis, TRUE}
  /\ GoOn(r, Instances)
  /\ UNCHANGED <<mode, foreign, picked, seen, found, instances, registry, stop, given>>

Install(r) ==
  /\ pc[r] = "ask"
  /\ redis' \in {redis, TRUE}
  /\ pc' = [pc EXCEPT ![r] = "again"]
  /\ UNCHANGED <<mode, foreign, picked, plan, seen, found, instances, registry, stop, given>>

Reconciled(r) ==
  {c \in Child : Listed(c) /\ IF c.service = Router THEN StartsRouter(r) ELSE c.service \in picked[r]}

ListExisting(r) ==
  /\ pc[r] = "list"
  /\ seen' = [seen EXCEPT ![r] = Reconciled(r)]
  /\ found' = [found EXCEPT ![r] = {c \in Reconciled(r) : proc[c] = "up" /\ port[c] # None}]
  /\ pc' = [pc EXCEPT ![r] = "reconcile"]
  /\ UNCHANGED <<mode, foreign, redis, picked, plan, instances, registry, stop, given>>

\* A record without a port counts as released: its process is left alone.
FreeExisting(r) ==
  /\ pc[r] = "reconcile"
  /\ \E c \in Foremost(seen[r]) :
       /\ port[c] # None
       /\ \/ Holders(port[c]) # {} /\ Kill(port[c]) /\ UNCHANGED pc
          \/ CannotFree(port[c]) /\ pc' = [pc EXCEPT ![r] = "failed"] /\ UNCHANGED proc
  /\ UNCHANGED <<mode, foreign, redis, picked, plan, seen, found, port, registry, stop, given>>

\* Mutant: records are dropped before their ports are free.
MayDropAtOnce(c) == TRUE

MayDrop(c) == port[c] = None \/ Available(port[c])

DropExisting(r) ==
  /\ pc[r] = "reconcile"
  /\ \E c \in Foremost(seen[r]) :
       /\ MayDrop(c)
       /\ record' = [record EXCEPT ![c] = "none"]
       /\ seen' = [seen EXCEPT ![r] = @ \ {c}]
  /\ UNCHANGED <<mode, foreign, redis, pc, picked, plan, found, instances, pending, beating, stop, given>>

Reconcile(r) ==
  /\ pc[r] = "reconcile" /\ seen[r] = {}
  /\ pc' = [pc EXCEPT ![r] = "start"]
  /\ UNCHANGED <<mode, foreign, redis, picked, plan, seen, found, instances, registry, stop, given>>

-----------------------------------------------------------------------------
(* Starting one instance: ProcessInstanceSpawner, spawnRouter               *)

IsContainer(c) == mode = "podman" /\ c.service # Router

\* The instance a run has come to.
At(r, c) == c \in Foremost(plan[r])
Spawning(r, c) == pc[r] = "start" /\ At(r, c) /\ ~IsContainer(c)

ForceFree(r) ==
  /\ \E c \in Of(r) : Spawning(r, c) /\ \E p \in Forced(c) :
       \/ Holders(p) # {} /\ Kill(p) /\ UNCHANGED pc
       \/ CannotFree(p) /\ pc' = [pc EXCEPT ![r] = "failed"] /\ UNCHANGED proc
  /\ UNCHANGED <<mode, foreign, redis, picked, plan, seen, found, port, registry, stop, given>>

Spawned(c, p, state) ==
  /\ port' = [port EXCEPT ![c] = p]
  /\ proc' = [proc EXCEPT ![c] = state]
  /\ pc' = [pc EXCEPT ![c.run] = "register"]

SpawnWorker(c) == c.service \in Workers /\ Spawned(c, None, "up")

SpawnServer(c) ==
  LET p == PortFor(c, Reserved(c.run))
  IN /\ c.service \in Services \ Workers
     /\ IF p # None THEN Spawned(c, p, "starting")
        ELSE pc' = [pc EXCEPT ![c.run] = "failed"] /\ UNCHANGED instances

SpawnRouter(c) == c.service = Router /\ Spawned(c, RouterPort, "starting")

Spawn(r) ==
  /\ \E c \in Of(r) :
       /\ Spawning(r, c)
       /\ \A p \in Forced(c) : Available(p)
       /\ SpawnWorker(c) \/ SpawnServer(c) \/ SpawnRouter(c)
  /\ UNCHANGED <<mode, foreign, redis, picked, plan, seen, found, registry, stop, given>>

\* register, the heartbeat timer and bindExit.
Register(r) ==
  /\ pc[r] = "register"
  /\ \E c \in Of(r) :
       /\ At(r, c)
       /\ record' = [record EXCEPT ![c] = "running"]
       /\ beating' = beating \cup {c}
       /\ plan' = [plan EXCEPT ![r] = @ \ {c}]
  /\ pc' = [pc EXCEPT ![r] = "start"]
  /\ UNCHANGED <<mode, foreign, redis, picked, seen, found, instances, pending, stop, given>>

Finish(r) ==
  /\ pc[r] = "start" /\ plan[r] = {}
  /\ pc' = [pc EXCEPT ![r] = "up"]
  /\ UNCHANGED <<mode, foreign, redis, picked, plan, seen, found, instances, registry, stop, given>>

-----------------------------------------------------------------------------
(* Podman mode: PodmanSupervisor, PodmanPlan and PodmanRunner               *)

\* ensureNetwork may throw; ensureRedis may not.
EnsureNetwork(r) ==
  /\ pc[r] = "network"
  /\ \E next \in {"plan", "failed"} : pc' = [pc EXCEPT ![r] = next]
  /\ UNCHANGED <<mode, foreign, redis, picked, plan, seen, found, instances, registry, stop, given>>

\* The ports of all containers, found one after the other before any starts.
PlannedPorts(published) ==
  {ports \in [published -> AllPorts \cup {None}] :
     \A c \in published : ports[c] = PortFor(c, {ports[d] : d \in {e \in published : Earlier(e, c)}})}

PlanContainers(r) ==
  LET slots == Planned(Instances, r)
  IN /\ pc[r] = "plan"
     /\ \E ports \in PlannedPorts({c \in slots : c.service \in Services \ Workers}) :
          IF \E c \in DOMAIN ports : ports[c] = None
          THEN pc' = [pc EXCEPT ![r] = "failed"] /\ UNCHANGED <<plan, port>>
          ELSE /\ pc' = [pc EXCEPT ![r] = "start"]
               /\ plan' = [plan EXCEPT ![r] = slots]
               /\ port' = [c \in Child |-> IF c \in DOMAIN ports THEN ports[c] ELSE port[c]]
     /\ UNCHANGED <<mode, foreign, redis, picked, seen, found, proc, registry, stop, given>>

\* `podman run -d' starts the container or fails; a podman that is killed has
\* no exit code, which counts as 0, and has started nothing.
RunContainer(r) ==
  /\ pc[r] = "start"
  /\ \E c \in Of(r) :
       /\ At(r, c) /\ IsContainer(c)
       /\ \/ pc' = [pc EXCEPT ![r] = "failed"] /\ UNCHANGED proc
          \/ /\ pc' = [pc EXCEPT ![r] = "register"]
             /\ \/ (port[c] = None \/ Available(port[c])) /\ proc' = [proc EXCEPT ![c] = "up"]
                \/ c.service \in Flaky /\ UNCHANGED proc
  /\ UNCHANGED <<mode, foreign, redis, picked, plan, seen, found, port, registry, stop, given>>

\* The registry commands under way are answered before the sleep that
\* separates the marks of stopAll from its stops ends.
Containers(r) == {c \in Of(r) : c.service # Router /\ c \in beating}
Quiet(r) == \A c \in Of(r) : pending[c] = {}

StopTimers(r) == beating' = beating \ Of(r)

StopAll(r) ==
  /\ mode = "podman" /\ pc[r] = "up"
  /\ pc' = [pc EXCEPT ![r] = "draining"]
  /\ seen' = [seen EXCEPT ![r] = Containers(r)]
  /\ StopTimers(r)
  /\ UNCHANGED <<mode, foreign, redis, picked, plan, found, instances, record, pending, stop, given>>

\* markDraining reads the record; the store follows.
Mark(c) == pending' = [pending EXCEPT ![c] = @ \cup (IF Listed(c) THEN {"draining"} ELSE {})]
Marking == \E c \in Child : "draining" \in pending[c]

DrainContainer(r) ==
  /\ pc[r] = "draining" /\ ~Marking
  /\ \E c \in Foremost(seen[r]) : Mark(c) /\ seen' = [seen EXCEPT ![r] = @ \ {c}]
  /\ UNCHANGED <<mode, foreign, redis, pc, picked, plan, found, instances, record, beating, stop, given>>

DrainTime(r) ==
  /\ pc[r] = "draining" /\ seen[r] = {} /\ Quiet(r)
  /\ pc' = [pc EXCEPT ![r] = "stopping"]
  /\ seen' = [seen EXCEPT ![r] = {c \in Of(r) : record[c] # "never"}]
  /\ UNCHANGED <<mode, foreign, redis, picked, plan, found, instances, registry, stop, given>>

\* A container that podman cannot stop is unregistered all the same.
StopOne(r) ==
  /\ pc[r] = "stopping"
  /\ \E c \in Foremost(seen[r]) :
       /\ seen' = [seen EXCEPT ![r] = @ \ {c}]
       /\ record' = [record EXCEPT ![c] = "none"]
       /\ \/ proc' = [proc EXCEPT ![c] = IF Live(c) THEN "killed" ELSE @]
          \/ IsContainer(c) /\ c.service \in Flaky /\ UNCHANGED proc
  /\ UNCHANGED <<mode, foreign, redis, pc, picked, plan, found, port, pending, beating, stop, given>>

Stopped(r) ==
  /\ pc[r] = "stopping" /\ seen[r] = {}
  /\ pc' = [pc EXCEPT ![r] = "stopped"]
  /\ UNCHANGED <<mode, foreign, redis, picked, plan, seen, found, instances, registry, stop, given>>

-----------------------------------------------------------------------------
(* Children, their exit handlers and heartbeats, the end of a supervisor    *)

\* A child finds its port taken and exits, or comes up.
Bind(c) ==
  /\ proc[c] = "starting"
  /\ proc' = [proc EXCEPT ![c] = IF Available(port[c]) THEN "up" ELSE "killed"]
  /\ UNCHANGED <<mode, foreign, redis, runs, port, registry, stop, given>>

Die(c) ==
  /\ c.service \in Flaky /\ proc[c] = "up"
  /\ \E how \in {"killed", "ended"} : proc' = [proc EXCEPT ![c] = how]
  /\ UNCHANGED <<mode, foreign, redis, runs, port, registry, stop, given>>

\* Mutant: the exit handler does not stop the heartbeat.
KeepBeating(c) == UNCHANGED beating

\* The exit handler of a registered child; "ended" is exit code 0.
Silence(c) == beating' = beating \ {c}

Exit(c) ==
  /\ proc[c] \in {"killed", "ended"} /\ ~IsContainer(c)
  /\ pc[c.run] # "crashed" /\ ~(pc[c.run] = "register" /\ At(c.run, c))
  /\ proc' = [proc EXCEPT ![c] = "gone"]
  /\ Silence(c)
  /\ IF proc[c] = "ended" \/ mode = "podman"
     THEN record' = [record EXCEPT ![c] = "none"] /\ UNCHANGED pending
     ELSE /\ pending' = [pending EXCEPT ![c] = @ \cup (IF Listed(c) THEN {"failed"} ELSE {})]
          /\ UNCHANGED record
  /\ UNCHANGED <<mode, foreign, redis, runs, port, stop, given>>

\* heartbeat: GET, nothing without a record, otherwise SET some time later.
Beat(c) ==
  /\ c \in beating /\ c.service \in Slow /\ Listed(c)
  /\ Cardinality({d \in Child : pending[d] # {}}) < InFlight
  /\ pending' = [pending EXCEPT ![c] = @ \cup {record[c]}]
  /\ UNCHANGED <<mode, foreign, redis, runs, instances, record, beating, stop, given>>

Store(c, status) ==
  /\ status \in pending[c]
  /\ record' = [record EXCEPT ![c] = status]
  /\ pending' = [pending EXCEPT ![c] = @ \ {status}]
  /\ UNCHANGED <<mode, foreign, redis, runs, instances, beating, stop, given>>

\* Records nobody refreshes any more expire, at one time.
Unattended == {c \in Child : Listed(c) /\ c \notin beating /\ pending[c] = {}}

Expire ==
  /\ Unattended # {}
  /\ record' = [c \in Child |-> IF c \in Unattended THEN "expired" ELSE record[c]]
  /\ UNCHANGED <<mode, foreign, redis, runs, instances, pending, beating, stop, given>>

\* The supervisor is killed; its children live on.
Crash(r) ==
  /\ pc[r] \notin {"idle", "crashed", "stopped"}
  /\ pc' = [pc EXCEPT ![r] = "crashed"]
  /\ StopTimers(r)
  /\ pending' = [c \in Child |-> 
                  IF c.run # r THEN pending[c] ELSE IF stop.at = "mark" THEN pending[c] \cap {"draining"} ELSE {}]
  /\ UNCHANGED <<mode, foreign, redis, picked, plan, seen, found, instances, record, stop, given>>

-----------------------------------------------------------------------------
(* `mesh stop': StopCommand, DrainController and PodmanSupervisor.stop      *)

StopList ==
  /\ stop.at = "idle" /\ given < Commands
  /\ \E services \in {Services \cup {Router}} \cup {{s} : s \in Services}, force \in BOOLEAN :
       LET targets == {c \in Child : Listed(c) /\ c.service \in services}
       IN  stop' = [at |-> IF targets = {} THEN "done" ELSE IF mode = "process" /\ force THEN "kill" ELSE "mark",
                    targets |-> targets,
                    todo |-> targets,
                    now |-> {}]
  /\ given' = given + 1
  /\ UNCHANGED <<mode, foreign, redis, runs, instances, registry>>

\* Process mode: all targets are marked, drained, terminated, then unregistered.
StopMark ==
  /\ stop.at = "mark" /\ ~Marking
  /\ \/ \E c \in Foremost(stop.todo) :
          /\ mode = "podman" => stop.now = {}
          /\ Mark(c)
          /\ stop' = [stop EXCEPT !.todo = @ \ {c}, !.now = IF mode = "podman" THEN {c} ELSE {}]
     \/ /\ stop.todo = {} /\ stop.now = {}
        /\ stop' = [stop EXCEPT !.at = IF mode = "process" THEN "kill" ELSE "done", !.todo = stop.targets]
        /\ UNCHANGED pending
  /\ UNCHANGED <<mode, foreign, redis, runs, instances, record, beating, given>>

StopKill(c) ==
  /\ stop.at = "kill" /\ c \in stop.todo /\ Live(c)
  /\ proc' = [proc EXCEPT ![c] = "killed"]
  /\ UNCHANGED <<mode, foreign, redis, runs, port, registry, stop, given>>

StopForget(c) ==
  /\ stop.at = "kill" /\ c \in stop.todo /\ ~Live(c)
  /\ record' = [record EXCEPT ![c] = "none"]
  /\ stop' = [stop EXCEPT !.todo = @ \ {c}, !.at = IF stop.todo = {c} THEN "done" ELSE @]
  /\ UNCHANGED <<mode, foreign, redis, runs, instances, pending, beating, given>>

\* Podman mode: each target in turn is marked, stopped if podman can, and
\* unregistered.
StopContainer(c) ==
  /\ c \in stop.now /\ ~Marking
  /\ record' = [record EXCEPT ![c] = "none"]
  /\ \/ proc' = [proc EXCEPT ![c] = IF Live(c) THEN "killed" ELSE @]
     \/ IsContainer(c) /\ c.service \in Flaky /\ UNCHANGED proc
  /\ stop' = [stop EXCEPT !.now = {}]
  /\ UNCHANGED <<mode, foreign, redis, runs, port, pending, beating, given>>

-----------------------------------------------------------------------------
Launching(r) ==
  \/ Probe(r) \/ Decline(r) \/ Install(r)
  \/ ListExisting(r) \/ FreeExisting(r) \/ DropExisting(r) \/ Reconcile(r)
  \/ ForceFree(r) \/ Spawn(r) \/ Register(r) \/ Finish(r)
  \/ EnsureNetwork(r) \/ PlanContainers(r) \/ RunContainer(r)

Stopping(r) == DrainContainer(r) \/ DrainTime(r) \/ StopOne(r) \/ Stopped(r)

Command == StopList \/ StopMark \/ \E c \in Child : StopKill(c) \/ StopForget(c) \/ StopContainer(c)

Next ==
  \/ \E r \in Runs : Start(r) \/ Launching(r) \/ StopAll(r) \/ Stopping(r) \/ Crash(r)
  \/ \E c \in Child : Bind(c) \/ Die(c) \/ Exit(c) \/ Beat(c) \/ \E s \in Alive : Store(c, s)
  \/ Expire
  \/ Command

Spec == Init /\ [][Next]_vars

\* A question is answered, children bind, exits are seen, stores are carried
\* out, time passes, and the commands go on; nobody has to crash or exit.
FairSpec ==
  /\ Spec
  /\ \A r \in Runs : WF_vars(Launching(r)) /\ WF_vars(Stopping(r))
  /\ \A c \in Child : WF_vars(Bind(c)) /\ WF_vars(Exit(c)) /\ \A s \in Alive : WF_vars(Store(c, s))
  /\ WF_vars(Expire) /\ WF_vars(StopMark)
  /\ \A c \in Child : WF_vars(StopKill(c)) /\ WF_vars(StopForget(c)) /\ WF_vars(StopContainer(c))

-----------------------------------------------------------------------------
TypeOK ==
  /\ mode \in Modes /\ foreign \subseteq Foreign /\ redis \in BOOLEAN
  /\ pc \in [Runs -> States]
  /\ picked \in [Runs -> SUBSET Services]
  /\ plan \in [Runs -> SUBSET Child] /\ seen \in [Runs -> SUBSET Child]
  /\ found \in [Runs -> SUBSET Child]
  /\ port \in [Child -> AllPorts \cup {None}]
  /\ proc \in [Child -> {"none", "starting", "up", "killed", "ended", "gone"}]
  /\ record \in [Child -> Alive \cup {"never", "none", "expired"}]
  /\ pending \in [Child -> SUBSET Alive]
  /\ beating \subseteq Child
  /\ stop \in Stops
  /\ given \in 0..Commands

\* The ports that only instances of s ask for.
OwnPort(s, p) ==
  /\ p \notin From..To
  /\ s # Router => p # RouterPort
  /\ \A t \in Services \ {s} : Preferred[t] # p

SiblingsApart ==
  \A c, d \in Child :
    /\ c # d /\ c.run = d.run /\ port[c] # None
    /\ Router \in {c.service, d.service} => OwnPort(Router, RouterPort)
    => port[c] # port[d]

SiblingsSpared ==
  \A c \in Child :
    Spawning(c.run, c) =>
      \A p \in Forced(c) : OwnPort(c.service, p) => \A d \in Of(c.run) : Live(d) => port[d] # p

\* Whatever ports are configured, a run gives no port to two instances of its
\* services, although those that have yet to bind theirs are not seen when ports
\* are probed.  The router's port is not known to the allocator: it is the
\* router's alone when it lies outside the range and no service prefers it.  A
\* run frees no port by force that it has given to an instance of its own, if
\* the port is nobody else's; of a preferred port inside the range, or shared
\* with a service started earlier, nothing is promised: a sibling that holds it
\* is killed (PortAllocator.reservePreferred, PodmanPlan.build,
\* ProcessInstanceSpawner.spawn).
PortsApart == TypeOK /\ SiblingsApart /\ SiblingsSpared

TakenOver ==
  \A r \in Runs :
    mode = "process" /\ pc[r] \in {"start", "register", "up"} => \A c \in found[r] : ~Live(c)

\* In process mode several instances of a realtime service run only if Redis
\* has answered (ProcessRedisPreflight.prepare).
RealtimeHasRedis ==
  \A c \in Child :
    mode = "process" /\ c.service \in Realtime /\ c.index > 0 /\ proc[c] # "none" => redis

StopAllIsClean ==
  \A r \in Runs :
    pc[r] = "stopped" /\ stop.at \in {"idle", "done"} => \A c \in Of(r) : ~Listed(c)

\* Runs leave nothing of each other behind.  In process mode an instance of
\* another run that was up and on record with a port, for a service this run
\* starts, when the run read the registry, is down once it has reconciled, even
\* if several runs launch, reconcile and are killed at once.  Nothing is promised
\* of an instance that has not bound its port by then: the port is found free,
\* and the instance is forgotten alive; nor of one whose record had expired or
\* did not exist yet.  stopAll of podman mode leaves no record, whatever
\* heartbeats were under way, once a `mesh stop' given at the same time has ended
\* too (reconcilePreexistingInstances, PodmanSupervisor.stopAll).
NothingLeftBehind == TakenOver /\ StopAllIsClean

\* What `mesh stop' has stopped in process mode stays off the registry and
\* down for good, although the supervisor still beats for it until it sees it
\* exit (StopCommand.run, MeshProcessSupervisor.bindExit).
StoppedIsForgotten ==
  mode = "process" /\ stop.at = "done" ~> [](\A c \in stop.targets : ~Listed(c) /\ ~Live(c))
==============================================================================
