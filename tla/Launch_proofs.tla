----------------------------- MODULE Launch_proofs -----------------------------
(***************************************************************************)
(* Proofs about Launch, for any services, numbers of instances and ports:   *)
(* each run keeps to ports of its own, takes over what it has found up,      *)
(* leaves no record, and starts realtime services with their Redis.         *)
(***************************************************************************)
EXTENDS Launch, WellFoundedInduction, TLAPS

USE ServicesAssumption

Early == {"idle", "preflight", "ask", "again", "list", "reconcile", "network", "plan"}
Started == {"start", "register"}

(* No record comes from nowhere: nothing is stored for an instance that was  *)
(* never registered or has expired, and nobody has heard of the former.      *)
NoneToStore == \A c \in Child : record[c] \in {"never", "expired"} => pending[c] = {}

Known(c) == record[c] # "never"
Heard ==
  /\ \A c \in beating \cup stop.targets \cup stop.todo \cup stop.now : Known(c)
  /\ \A r \in Runs : \A c \in seen[r] \cup found[r] : Known(c)

RecordsInv == NoneToStore /\ Heard

(* What is in a plan is the run's own.                                       *)
PlansOwn == \A r \in Runs : plan[r] \subseteq Of(r)

(* An instance has nothing before its run comes to it.                       *)
Waiting(c) == record[c] = "never" /\ (proc[c] = "none" \/ (pc[c.run] = "register" /\ At(c.run, c)))

Unstarted ==
  \A c \in Child :
    /\ pc[c.run] \in Early => proc[c] = "none" /\ port[c] = None /\ record[c] = "never"
    /\ pc[c.run] \in Started /\ c \in plan[c.run] => Waiting(c)

(* The ports an instance may get.                                            *)
PortsOf(c) ==
  IF c.service = Router THEN {RouterPort}
  ELSE IF c.service \in Workers THEN {}
  ELSE (From..To) \cup IF c.index = 0 THEN {Preferred[c.service]} ELSE {}

PortsKept == \A c \in Child : port[c] \in PortsOf(c) \cup {None}

(* Two instances the allocator keeps apart: the router's port is not its own. *)
KeptApart(c, d) == c # d /\ (Router \in {c.service, d.service} => OwnPort(Router, RouterPort))

PortsInv == PlansOwn /\ Unstarted /\ PortsKept /\ SiblingsApart

Asking == {"preflight", "ask", "again"}

RedisInv ==
  /\ \A r \in Runs : pc[r] \in {"network", "plan"} => mode = "podman"
  /\ \A r \in Runs : \A c \in plan[r] :
       mode = "process" /\ c.service \in Realtime /\ c.index > 0 => redis

(* stopAll is for podman mode only, and so is what `mesh stop' has in hand.     *)
PodmanStops ==
  /\ \A r \in Runs : pc[r] \in {"draining", "stopping", "stopped"} => mode = "podman"
  /\ stop.now # {} => mode = "podman" /\ stop.at = "mark"

(* What a run has found up was not going to bind any more.                  *)
FoundUp == \A r \in Runs : \A c \in found[r] : port[c] # None /\ proc[c] # "starting"

ToTakeOver ==
  \A r \in Runs :
    mode = "process" /\ pc[r] = "reconcile" => \A c \in found[r] : c \in seen[r] \/ ~Live(c)

TakeOverInv == PodmanStops /\ FoundUp /\ ToTakeOver /\ TakenOver

(* After stopAll: what has a record, or is to get one, is in the hands of    *)
(* mesh stop.                                                                *)
LastRecords ==
  /\ \A c, d \in stop.now : c = d
  /\ \A r \in Runs : pc[r] = "draining" => seen[r] \subseteq Of(r)
  /\ \A c \in Child :
       /\ pc[c.run] \in {"draining", "stopping", "stopped"} => c \notin beating
       /\ pc[c.run] \in {"stopping", "stopped"} =>
            /\ pending[c] \subseteq {"draining"}
            /\ pending[c] # {} => c \in stop.now
            /\ Listed(c) => c \in stop.now \/ (pc[c.run] = "stopping" /\ c \in seen[c.run])

-------------------------------------------------------------------------------
(* Instances and ports *)

LEMMA ChildFields ==
  /\ \A c \in Child : c.run \in Runs /\ c.service \in Services \cup {Router} /\ c.index \in Nat
  /\ \A c \in Child : c.service = Router => c.index = 0
  /\ \A c, d \in Child : c.run = d.run /\ c.service = d.service /\ c.index = d.index => c = d
<1>1. ASSUME NEW c \in Child
      PROVE  /\ c.run \in Runs /\ c.service \in Services \cup {Router} /\ c.index \in Numbers(c.service)
             /\ c = [run |-> c.run, service |-> c.service, index |-> c.index]
  BY DEF Child
<1>2. \A s \in Services \cup {Router} : Numbers(s) \subseteq Nat
  BY DEF Numbers
<1>3. ASSUME NEW c \in Child, NEW d \in Child, c.run = d.run, c.service = d.service, c.index = d.index
      PROVE  c = d
  BY <1>1, <1>3, Zenon
<1>4. \A c \in Child : c.service = Router => c.index = 0
  BY <1>1 DEF Numbers
<1>. QED
  BY <1>1, <1>2, <1>3, <1>4

LEMMA Positions ==
  /\ \A c \in Child : Position(c) \in Nat
  /\ \A c, d \in Child : Position(c) = Position(d) => c.service = d.service
<1>1. ASSUME NEW c \in Child, c.service # Router
      PROVE  Position(c) \in 1..Len(Order) /\ Order[Position(c)] = c.service
  BY <1>1, ChildFields DEF Position, Range
<1>2. ASSUME NEW c \in Child, c.service = Router
      PROVE  Position(c) = Len(Order) + 1
  BY <1>2 DEF Position
<1>3. \A c \in Child : Position(c) \in Nat /\ Position(c) \in 1..(Len(Order) + 1)
  <2>1. Len(Order) \in Nat
    OBVIOUS
  <2>. QED
    BY <1>1, <1>2, <2>1
<1>4. ASSUME NEW c \in Child, NEW d \in Child, Position(c) = Position(d)
      PROVE  c.service = d.service
  <2>1. Len(Order) \in Nat
    OBVIOUS
  <2>. QED
    BY <1>1, <1>2, <1>4, <2>1
<1>. QED
  BY <1>3, <1>4

(* One is before the other, and only one.                                    *)
LEMMA InOrder ==
  ASSUME NEW c \in Child, NEW d \in Child
  PROVE  /\ ~(Earlier(c, d) /\ Earlier(d, c))
         /\ c # d => Earlier(c, d) \/ Earlier(d, c)
<1>1. /\ c.run \in Nat /\ d.run \in Nat /\ c.index \in Nat /\ d.index \in Nat
      /\ Position(c) \in Nat /\ Position(d) \in Nat
      /\ Position(c) = Position(d) => c.service = d.service
      /\ c.service = d.service => Position(c) = Position(d)
      /\ c # d => c.run # d.run \/ c.service # d.service \/ c.index # d.index
  <2>1. c.service = d.service => Position(c) = Position(d)
    BY DEF Position
  <2>2. Runs \subseteq Nat
    OBVIOUS
  <2>. QED
    BY <2>1, <2>2, ChildFields, Positions
<1>. QED
  BY <1>1 DEF Earlier

LEMMA OneIsForemost ==
  ASSUME NEW r \in Runs, plan[r] \subseteq Of(r), NEW c, NEW d, At(r, c), At(r, d)
  PROVE  c = d /\ c \in plan[r] /\ c \in Child /\ c.run = r
BY InOrder DEF At, Foremost, Of

LEMMA InRangePort ==
  ASSUME NEW taken, FromRange(taken) # None
  PROVE  FromRange(taken) \in (From..To) \ taken
<1>. DEFINE S == InRange(taken)
<1>1. S # {} /\ S \subseteq From..To /\ S \cap taken = {}
  BY PortsAssumption DEF FromRange, InRange
<1>2. S \subseteq Nat
  BY <1>1, PortsAssumption
<1>3. PICK p \in S : \A q \in S : ~(<<q, p>> \in OpToRel(<, Nat))
  <2>. HIDE DEF S
  <2>. QED
    BY <1>1, <1>2, NatLessThanWellFounded, WFMin
<1>4. \A q \in S : p <= q
  <2>1. ASSUME NEW q \in S, q < p
        PROVE  FALSE
    <3>1. <<q, p>> \in OpToRel(<, Nat)
      BY <1>2, <2>1 DEF OpToRel
    <3>. QED
      BY <1>3, <3>1
  <2>. QED
    BY <1>2, <2>1
<1>5. Min(S) \in S
  BY <1>3, <1>4 DEF Min
<1>. QED
  BY <1>1, <1>5 DEF FromRange

LEMMA PortForFacts ==
  ASSUME NEW c \in Child, c.service \in Services \ Workers, NEW taken, PortFor(c, taken) # None
  PROVE  PortFor(c, taken) \in PortsOf(c) \ taken
BY InRangePort DEF PortFor, PortsOf

LEMMA PortsOfFacts ==
  ASSUME NEW c \in Child
  PROVE  PortsOf(c) \subseteq AllPorts \cup {None}
<1>1. CASE c.service = Router \/ c.service \in Workers
  BY <1>1 DEF PortsOf, AllPorts
<1>2. CASE c.service \in Services
  <2>1. Preferred[c.service] \in AllPorts \cup {None}
    BY <1>2, PortsAssumption DEF AllPorts, Range
  <2>. QED
    BY <1>1, <1>2, <2>1 DEF PortsOf, AllPorts
<1>. QED
  BY <1>1, <1>2, ChildFields

-------------------------------------------------------------------------------
(* Types *)

LEMMA PortForType ==
  ASSUME NEW c \in Child, c.service \in Services \ Workers, NEW taken
  PROVE  PortFor(c, taken) \in AllPorts \cup {None}
BY PortForFacts, PortsOfFacts

LEMMA PlannedFacts == \A r \in Runs : \A counts : Planned(counts, r) \subseteq Of(r)
BY DEF Planned

LEMMA TypeStep == TypeOK /\ [Next]_vars => TypeOK'
<1>. SUFFICES ASSUME TypeOK, [Next]_vars PROVE TypeOK'
  OBVIOUS
<1>. USE DEF TypeOK
<1>0. \A r \in Runs : Of(r) \subseteq Child
  BY DEF Of
<1>1. ASSUME NEW r \in Runs, Start(r) PROVE TypeOK'
  BY <1>1, ServicesAssumption DEF Start, instances, registry, States, Ended
<1>2. ASSUME NEW r \in Runs,
             \/ Probe(r) \/ Decline(r) \/ Install(r) \/ ListExisting(r) \/ Reconcile(r) \/ Finish(r)
             \/ EnsureNetwork(r)
      PROVE  TypeOK'
  <2>. USE <1>0, PlannedFacts DEF instances, registry, States, Ended
  <2>0. ASSUME NEW counts, GoOn(r, counts)
        PROVE  pc' \in [Runs -> States] /\ plan' \in [Runs -> SUBSET Child]
    BY <2>0 DEF GoOn
  <2>1. CASE Probe(r)
    <3>1. pc' \in [Runs -> States] /\ plan' \in [Runs -> SUBSET Child]
      BY <2>0, <2>1 DEF Probe
    <3>. QED
      BY <2>1, <3>1 DEF Probe
  <2>2. CASE Decline(r) \/ Install(r)
    <3>1. pc' \in [Runs -> States] /\ plan' \in [Runs -> SUBSET Child]
      BY <2>0, <2>2 DEF Decline, Install
    <3>2. redis' \in BOOLEAN
      BY <2>2 DEF Decline, Install
    <3>. QED
      BY <2>2, <3>1, <3>2 DEF Decline, Install
  <2>3. CASE ListExisting(r)
    BY <2>3 DEF ListExisting, Reconciled
  <2>4. CASE Reconcile(r) \/ Finish(r) \/ EnsureNetwork(r)
    BY <2>4 DEF Reconcile, Finish, EnsureNetwork
  <2>. QED
    BY <1>2, <2>1, <2>2, <2>3, <2>4
<1>3. ASSUME NEW r \in Runs, FreeExisting(r) \/ ForceFree(r) PROVE TypeOK'
  <2>1. ASSUME NEW p, Kill(p) PROVE proc' \in [Child -> {"none", "starting", "up", "killed", "ended", "gone"}]
    BY <2>1 DEF Kill
  <2>2. CASE FreeExisting(r)
    BY <2>1, <2>2 DEF FreeExisting, registry, States, Ended
  <2>3. CASE ForceFree(r)
    BY <2>1, <2>3 DEF ForceFree, registry, States, Ended
  <2>. QED
    BY <1>3, <2>2, <2>3
<1>4. ASSUME NEW r \in Runs, DropExisting(r) \/ StopOne(r) PROVE TypeOK'
  <2>1. CASE DropExisting(r)
    BY <2>1 DEF DropExisting, Foremost, States, instances
  <2>2. CASE StopOne(r)
    BY <2>2 DEF StopOne, Foremost
  <2>. QED
    BY <1>4, <2>1, <2>2
<1>5. ASSUME NEW r \in Runs, Spawn(r) PROVE TypeOK'
  <2>1. PICK c \in Of(r) : SpawnWorker(c) \/ SpawnServer(c) \/ SpawnRouter(c)
    BY <1>5 DEF Spawn
  <2>2. c \in Child /\ c.run = r
    BY DEF Of
  <2>3. c.service \in Services \ Workers => PortFor(c, Reserved(c.run)) \in AllPorts \cup {None}
    BY <2>2, PortForType
  <2>5. RouterPort \in AllPorts
    BY DEF AllPorts
  <2>6. ASSUME NEW p \in AllPorts \cup {None}, NEW state \in {"up", "starting"}, Spawned(c, p, state)
        PROVE  /\ port' \in [Child -> AllPorts \cup {None}]
               /\ proc' \in [Child -> {"none", "starting", "up", "killed", "ended", "gone"}]
               /\ pc' \in [Runs -> States]
    BY <2>2, <2>6 DEF Spawned, States
  <2>7. /\ port' \in [Child -> AllPorts \cup {None}]
        /\ proc' \in [Child -> {"none", "starting", "up", "killed", "ended", "gone"}]
        /\ pc' \in [Runs -> States]
    BY <2>1, <2>2, <2>3, <2>5, <2>6 DEF SpawnWorker, SpawnServer, SpawnRouter, instances, States, Ended
  <2>. QED
    BY <1>5, <2>7 DEF Spawn, registry, States
<1>6. ASSUME NEW r \in Runs, Register(r) \/ RunContainer(r) PROVE TypeOK'
  <2>1. CASE Register(r)
    BY <1>0, <2>1 DEF Register, States, instances, Alive
  <2>2. CASE RunContainer(r)
    <3>1. proc' \in [Child -> {"none", "starting", "up", "killed", "ended", "gone"}]
      BY <1>0, <2>2 DEF RunContainer
    <3>2. pc' \in [Runs -> States]
      BY <2>2 DEF RunContainer, States, Ended
    <3>. QED
      BY <2>2, <3>1, <3>2 DEF RunContainer, registry
  <2>. QED
    BY <1>6, <2>1, <2>2
<1>7. ASSUME NEW r \in Runs, PlanContainers(r) PROVE TypeOK'
  <2>1. Planned(Instances, r) \subseteq Child
    BY <1>0, PlannedFacts
  <2>2. PICK ports : /\ ports \in PlannedPorts({c \in Planned(Instances, r) : c.service \in Services \ Workers})
                     /\ \/ pc' = [pc EXCEPT ![r] = "failed"] /\ UNCHANGED <<plan, port>>
                        \/ /\ pc' = [pc EXCEPT ![r] = "start"]
                           /\ plan' = [plan EXCEPT ![r] = Planned(Instances, r)]
                           /\ port' = [c \in Child |-> IF c \in DOMAIN ports THEN ports[c] ELSE port[c]]
    BY <1>7 DEF PlanContainers
  <2>3. port' \in [Child -> AllPorts \cup {None}]
    BY <2>2 DEF PlannedPorts
  <2>4. plan' \in [Runs -> SUBSET Child]
    BY <2>1, <2>2
  <2>5. pc' \in [Runs -> States]
    BY <2>2 DEF States, Ended
  <2>. QED
    BY <1>7, <2>3, <2>4, <2>5 DEF PlanContainers, registry
<1>8. ASSUME NEW r \in Runs, StopAll(r) \/ DrainContainer(r) \/ DrainTime(r) \/ Stopped(r) PROVE TypeOK'
  <2>1. CASE StopAll(r)
    BY <2>1 DEF StopAll, StopTimers, Containers, Of, States, instances
  <2>2. CASE DrainContainer(r)
    BY <2>2 DEF DrainContainer, Foremost, Mark, instances, Alive
  <2>3. CASE DrainTime(r)
    <3>1. {c \in Of(r) : record[c] # "never"} \subseteq Child
      BY DEF Of
    <3>. QED
      BY <2>3, <3>1 DEF DrainTime, instances, registry, States
  <2>4. CASE Stopped(r)
    BY <2>4 DEF Stopped, instances, registry, States, Ended
  <2>. QED
    BY <1>8, <2>1, <2>2, <2>3, <2>4
<1>9. ASSUME NEW r \in Runs, Crash(r) PROVE TypeOK'
  BY <1>9 DEF Crash, StopTimers, instances, States, Ended
<1>10. ASSUME NEW c \in Child, Bind(c) \/ Die(c) \/ Exit(c) \/ Beat(c) PROVE TypeOK'
  <2>1. CASE Bind(c) \/ Die(c)
    BY <2>1 DEF Bind, Die, runs, registry
  <2>2. CASE Exit(c)
    <3>1. pending' \in [Child -> SUBSET Alive] /\ record' \in [Child -> Alive \cup {"never", "none", "expired"}]
      <4>1. CASE proc[c] = "ended" \/ mode = "podman"
        BY <2>2, <4>1 DEF Exit
      <4>2. CASE ~(proc[c] = "ended" \/ mode = "podman")
        <5>1. /\ pending' = [pending EXCEPT ![c] = @ \cup (IF Listed(c) THEN {"failed"} ELSE {})]
              /\ UNCHANGED record
          BY <2>2, <4>2 DEF Exit
        <5>. QED
          BY <5>1 DEF Alive
      <4>. QED
        BY <4>1, <4>2
    <3>. QED
      BY <2>2, <3>1 DEF Exit, Silence, runs
  <2>3. CASE Beat(c)
    BY <2>3 DEF Beat, Listed, runs, instances
  <2>. QED
    BY <1>10, <2>1, <2>2, <2>3
<1>11. ASSUME NEW c \in Child, NEW s \in Alive, Store(c, s) PROVE TypeOK'
  BY <1>11 DEF Store, runs, instances
<1>12. CASE Expire
  BY <1>12 DEF Expire, runs, instances
<1>13. CASE StopList
  BY <1>13, ServicesAssumption DEF StopList, Stops, runs, instances, registry
<1>14. CASE StopMark
  <2>1. ASSUME NEW c \in Foremost(stop.todo), Mark(c),
               stop' = [stop EXCEPT !.todo = @ \ {c}, !.now = IF mode = "podman" THEN {c} ELSE {}]
        PROVE  pending' \in [Child -> SUBSET Alive] /\ stop' \in Stops
    <3>1. c \in Child
      BY DEF Foremost, Stops
    <3>2. pending' \in [Child -> SUBSET Alive]
      BY <2>1, <3>1 DEF Mark, Alive
    <3>3. stop' \in Stops
      BY <2>1, <3>1 DEF Stops
    <3>. QED
      BY <3>2, <3>3
  <2>2. ASSUME stop' = [stop EXCEPT !.at = IF mode = "process" THEN "kill" ELSE "done", !.todo = stop.targets]
        PROVE  stop' \in Stops
    BY <2>2 DEF Stops
  <2>3. pending' \in [Child -> SUBSET Alive] /\ stop' \in Stops
    BY <1>14, <2>1, <2>2 DEF StopMark
  <2>. QED
    BY <1>14, <2>3 DEF StopMark, Stops, runs, instances
<1>15. ASSUME NEW c \in Child, StopKill(c) \/ StopForget(c) \/ StopContainer(c) PROVE TypeOK'
  <2>1. CASE StopKill(c)
    BY <2>1 DEF StopKill, runs, registry
  <2>2. CASE StopForget(c)
    BY <2>2 DEF StopForget, Stops, runs, instances
  <2>3. CASE StopContainer(c)
    BY <2>3 DEF StopContainer, Stops, runs
  <2>. QED
    BY <1>15, <2>1, <2>2, <2>3
<1>16. CASE UNCHANGED vars
  BY <1>16 DEF vars, runs, instances, registry
<1>. QED
  BY <1>1, <1>2, <1>3, <1>4, <1>5, <1>6, <1>7, <1>8, <1>9, <1>10, <1>11, <1>12, <1>13, <1>14, <1>15, <1>16
     DEF Next, Launching, Stopping, Command

-------------------------------------------------------------------------------
(* Records *)

LEMMA RecordsStep == TypeOK /\ RecordsInv /\ [Next]_vars => RecordsInv'
<1>. SUFFICES ASSUME TypeOK, RecordsInv, [Next]_vars PROVE RecordsInv'
  OBVIOUS
<1>. USE DEF TypeOK, RecordsInv, NoneToStore, Heard, Known
<1>1. ASSUME NEW r \in Runs,
             \/ Start(r) \/ Probe(r) \/ Decline(r) \/ Install(r) \/ Reconcile(r) \/ Finish(r) \/ EnsureNetwork(r)
             \/ FreeExisting(r) \/ ForceFree(r) \/ Spawn(r) \/ PlanContainers(r) \/ RunContainer(r)
      PROVE  RecordsInv'
  <2>1. UNCHANGED <<record, pending, beating, stop, seen, found>>
    BY <1>1 DEF Start, Probe, Decline, Install, Reconcile, Finish, EnsureNetwork, FreeExisting, ForceFree, Spawn,
                PlanContainers, RunContainer, registry
  <2>. QED
    BY <2>1
<1>2. ASSUME NEW r \in Runs, ListExisting(r) \/ StopAll(r) \/ DrainTime(r) \/ Stopped(r) PROVE RecordsInv'
  <2>1. \A c \in Reconciled(r) \cup Containers(r) \cup {d \in Of(r) : record[d] # "never"} : Known(c)
    BY DEF Reconciled, Containers, Listed, Alive
  <2>2. UNCHANGED <<record, pending, stop>> /\ beating' \subseteq beating
    BY <1>2 DEF ListExisting, StopAll, StopTimers, DrainTime, Stopped, registry
  <2>3. \A q \in Runs : \A c \in seen'[q] \cup found'[q] : Known(c)
    <3>1. CASE ListExisting(r)
      <4>. DEFINE up == {c \in Reconciled(r) : proc[c] = "up" /\ port[c] # None}
      <4>1. seen' = [seen EXCEPT ![r] = Reconciled(r)] /\ found' = [found EXCEPT ![r] = up] /\ up \subseteq Reconciled(r)
        BY <3>1 DEF ListExisting
      <4>. QED
        BY <2>1, <4>1
    <3>2. CASE StopAll(r) \/ DrainTime(r) \/ Stopped(r)
      BY <2>1, <3>2 DEF StopAll, DrainTime, Stopped
    <3>. QED
      BY <1>2, <3>1, <3>2
  <2>. QED
    BY <2>2, <2>3
<1>3. ASSUME NEW r \in Runs, DropExisting(r) \/ StopOne(r) \/ Register(r) PROVE RecordsInv'
  <2>1. PICK c \in Child, status \in {"none", "running"} :
          /\ record' = [record EXCEPT ![c] = status]
          /\ UNCHANGED <<pending, stop>> /\ beating' \subseteq beating \cup (IF status = "running" THEN {c} ELSE {})
    BY <1>3 DEF DropExisting, StopOne, Register, Foremost, Of
  <2>2. found' = found /\ \A q \in Runs : seen'[q] \subseteq seen[q]
    BY <1>3 DEF DropExisting, StopOne, Register
  <2>. QED
    BY <2>1, <2>2
<1>4. ASSUME NEW r \in Runs, Crash(r) PROVE RecordsInv'
  BY <1>4 DEF Crash, StopTimers
<1>5. ASSUME NEW r \in Runs, DrainContainer(r) PROVE RecordsInv'
  BY <1>5 DEF DrainContainer, Mark, Listed, Alive, Foremost
<1>6. ASSUME NEW c \in Child, Bind(c) \/ Die(c) \/ StopKill(c) PROVE RecordsInv'
  BY <1>6 DEF Bind, Die, StopKill, runs, registry
<1>7. ASSUME NEW c \in Child, Exit(c) PROVE RecordsInv'
  <2>1. UNCHANGED <<stop, seen, found>> /\ beating' \subseteq beating
    BY <1>7 DEF Exit, Silence, runs
  <2>2. CASE record' = [record EXCEPT ![c] = "none"] /\ UNCHANGED pending
    BY <2>1, <2>2
  <2>3. CASE /\ pending' = [pending EXCEPT ![c] = @ \cup (IF Listed(c) THEN {"failed"} ELSE {})]
             /\ UNCHANGED record
    BY <2>1, <2>3 DEF Listed, Alive
  <2>. QED
    BY <1>7, <2>2, <2>3 DEF Exit
<1>8. ASSUME NEW c \in Child, Beat(c) PROVE RecordsInv'
  BY <1>8 DEF Beat, Listed, Alive, runs
<1>9. ASSUME NEW c \in Child, NEW s \in Alive, Store(c, s) PROVE RecordsInv'
  BY <1>9 DEF Store, Alive, runs
<1>10. CASE Expire
  <2>1. UNCHANGED <<pending, beating, stop, seen, found>>
    BY <1>10 DEF Expire, runs
  <2>2. \A c \in Child : record'[c] = record[c] \/ (record'[c] = "expired" /\ pending[c] = {})
    BY <1>10 DEF Expire, Unattended
  <2>3. \A c \in Child : record'[c] = "never" => record[c] = "never"
    BY <2>2
  <2>. QED
    BY <2>1, <2>2, <2>3 DEF Stops
<1>11. CASE StopList
  BY <1>11 DEF StopList, Listed, Alive, runs, registry
<1>12. CASE StopMark
  <2>1. UNCHANGED <<record, beating, seen, found>>
    BY <1>12 DEF StopMark, runs
  <2>2. CASE \E c \in Foremost(stop.todo) :
               Mark(c) /\ stop' = [stop EXCEPT !.todo = @ \ {c}, !.now = IF mode = "podman" THEN {c} ELSE {}]
    <3>1. PICK c \in stop.todo :
            Mark(c) /\ stop' = [stop EXCEPT !.todo = @ \ {c}, !.now = IF mode = "podman" THEN {c} ELSE {}]
      BY <2>2 DEF Foremost
    <3>2. c \in Child
      BY DEF Stops
    <3>3. stop'.targets \cup stop'.todo \cup stop'.now \subseteq stop.targets \cup stop.todo
      BY <3>1 DEF Stops
    <3>4. \A d \in Child : pending'[d] # {} => pending[d] # {} \/ Listed(d)
      BY <3>1, <3>2 DEF Mark
    <3>. QED
      BY <2>1, <3>3, <3>4 DEF Listed, Alive
  <2>3. CASE /\ stop' = [stop EXCEPT !.at = IF mode = "process" THEN "kill" ELSE "done", !.todo = stop.targets]
             /\ UNCHANGED pending
    <3>1. stop'.targets \cup stop'.todo \cup stop'.now \subseteq stop.targets \cup stop.now
      BY <2>3 DEF Stops
    <3>. QED
      BY <2>1, <2>3, <3>1
  <2>. QED
    BY <1>12, <2>2, <2>3 DEF StopMark
<1>13. ASSUME NEW c \in Child, StopForget(c) \/ StopContainer(c) PROVE RecordsInv'
  <2>1. UNCHANGED <<pending, beating, seen, found>> /\ record' = [record EXCEPT ![c] = "none"]
    BY <1>13 DEF StopForget, StopContainer, runs
  <2>2. CASE StopForget(c)
    <3>1. stop'.targets \cup stop'.todo \cup stop'.now \subseteq stop.targets \cup stop.todo \cup stop.now
      BY <2>2 DEF StopForget, Stops
    <3>. QED
      BY <2>1, <3>1
  <2>3. CASE StopContainer(c)
    <3>1. stop'.targets \cup stop'.todo \cup stop'.now \subseteq stop.targets \cup stop.todo \cup stop.now
      BY <2>3 DEF StopContainer, Stops
    <3>. QED
      BY <2>1, <3>1
  <2>. QED
    BY <1>13, <2>2, <2>3
<1>14. CASE UNCHANGED vars
  BY <1>14 DEF vars, runs, registry
<1>. QED
  BY <1>1, <1>2, <1>3, <1>4, <1>5, <1>6, <1>7, <1>8, <1>9, <1>10, <1>11, <1>12, <1>13, <1>14
     DEF Next, Launching, Stopping, Command

-------------------------------------------------------------------------------
(* Ports *)

(* Most actions: nobody gets a port, a process or a first record.            *)
NothingNew ==
  /\ port' = port
  /\ \A c \in Child : /\ proc[c] = "none" => proc'[c] = "none"
                      /\ Waiting(c) => record'[c] = "never"

(* Its run begins, fails or ends, but comes to no new instance.              *)
GoesOn(r) ==
  /\ \A q \in Runs \ {r} : pc'[q] = pc[q] /\ plan'[q] = plan[q]
  /\ pc'[r] \in Early \cup {"start"} => pc[r] \in Early
  /\ pc'[r] # "register"
  /\ plan'[r] \subseteq Of(r)

LEMMA Unmoved ==
  ASSUME TypeOK, RecordsInv, [Next]_vars
  PROVE  \/ NothingNew /\ UNCHANGED <<pc, plan>>
         \/ \E r \in Runs : NothingNew /\ (plan[r] \subseteq Of(r) => GoesOn(r))
         \/ \E r \in Runs : Spawn(r) \/ Register(r) \/ PlanContainers(r) \/ RunContainer(r)
<1>. USE DEF TypeOK, RecordsInv, Heard, Known, Waiting
<1>1. ASSUME NEW p, Kill(p) PROVE \A c \in Child : proc[c] = "none" => proc'[c] = "none"
  BY <1>1 DEF Kill, Holders
<1>2. ASSUME NEW r \in Runs, Start(r) PROVE NothingNew /\ (plan[r] \subseteq Of(r) => GoesOn(r))
  BY <1>2 DEF Start, NothingNew, GoesOn, Early, instances, registry
<1>3. ASSUME NEW r \in Runs, Probe(r) \/ Decline(r) \/ Install(r)
      PROVE  NothingNew /\ (plan[r] \subseteq Of(r) => GoesOn(r))
  <2>1. NothingNew
    BY <1>3 DEF Probe, Decline, Install, NothingNew, instances, registry
  <2>2. ASSUME NEW counts, GoOn(r, counts), pc[r] \in Early PROVE GoesOn(r)
    BY <2>2, PlannedFacts DEF GoOn, GoesOn, Early
  <2>. QED
    BY <1>3, <2>1, <2>2 DEF Probe, Decline, Install, GoesOn, Early
<1>4. ASSUME NEW r \in Runs, ListExisting(r) \/ Reconcile(r) \/ Finish(r) \/ EnsureNetwork(r)
      PROVE  NothingNew /\ (plan[r] \subseteq Of(r) => GoesOn(r))
  BY <1>4 DEF ListExisting, Reconcile, Finish, EnsureNetwork, NothingNew, GoesOn, Early, instances, registry
<1>5. ASSUME NEW r \in Runs, FreeExisting(r) \/ ForceFree(r)
      PROVE  NothingNew /\ (UNCHANGED <<pc, plan>> \/ (plan[r] \subseteq Of(r) => GoesOn(r)))
  <2>1. NothingNew
    BY <1>1, <1>5 DEF FreeExisting, ForceFree, NothingNew, registry
  <2>2. UNCHANGED plan /\ (UNCHANGED pc \/ pc' = [pc EXCEPT ![r] = "failed"])
    BY <1>5 DEF FreeExisting, ForceFree
  <2>. QED
    BY <2>1, <2>2 DEF GoesOn, Early
<1>6. ASSUME NEW r \in Runs, DropExisting(r) \/ StopOne(r)
      PROVE  NothingNew /\ UNCHANGED <<pc, plan>>
  <2>1. PICK c \in seen[r] :
          /\ record' = [record EXCEPT ![c] = "none"]
          /\ UNCHANGED proc \/ proc' = [proc EXCEPT ![c] = IF Live(c) THEN "killed" ELSE @]
    BY <1>6 DEF DropExisting, StopOne, Foremost, instances
  <2>2. UNCHANGED <<pc, plan, port>>
    BY <1>6 DEF DropExisting, StopOne, instances
  <2>. QED
    BY <2>1, <2>2 DEF NothingNew, Live
<1>7. ASSUME NEW r \in Runs, StopAll(r) \/ DrainTime(r) \/ Stopped(r) \/ Crash(r)
      PROVE  NothingNew /\ (plan[r] \subseteq Of(r) => GoesOn(r))
  BY <1>7 DEF StopAll, StopTimers, DrainTime, Stopped, Crash, NothingNew, GoesOn, Early, instances, registry
<1>8. ASSUME NEW r \in Runs, DrainContainer(r) PROVE NothingNew /\ UNCHANGED <<pc, plan>>
  BY <1>8 DEF DrainContainer, NothingNew, instances
<1>9. ASSUME NEW c \in Child, Bind(c) \/ Die(c) \/ Beat(c) \/ StopKill(c) PROVE NothingNew /\ UNCHANGED <<pc, plan>>
  BY <1>9 DEF Bind, Die, Beat, StopKill, Live, NothingNew, runs, instances, registry
<1>10. ASSUME NEW c \in Child, Exit(c) PROVE NothingNew /\ UNCHANGED <<pc, plan>>
  BY <1>10 DEF Exit, NothingNew, runs
<1>11. ASSUME NEW c \in Child, NEW s \in Alive, Store(c, s) PROVE NothingNew /\ UNCHANGED <<pc, plan>>
  BY <1>11 DEF Store, NothingNew, NoneToStore, runs, instances
<1>12. CASE Expire
  BY <1>12 DEF Expire, Unattended, Listed, Alive, NothingNew, runs, instances
<1>13. CASE StopList \/ StopMark
  BY <1>13 DEF StopList, StopMark, NothingNew, runs, instances, registry
<1>14. ASSUME NEW c \in Child, StopForget(c) \/ StopContainer(c) PROVE NothingNew /\ UNCHANGED <<pc, plan>>
  BY <1>14 DEF StopForget, StopContainer, Live, NothingNew, runs, instances
<1>15. CASE UNCHANGED vars
  BY <1>15 DEF vars, NothingNew, runs, instances, registry
<1>. QED
  BY <1>2, <1>3, <1>4, <1>5, <1>6, <1>7, <1>8, <1>9, <1>10, <1>11, <1>12, <1>13, <1>14, <1>15
     DEF Next, Launching, Stopping, Command

LEMMA UnstartedStep ==
  ASSUME TypeOK, RecordsInv, PlansOwn, Unstarted, [Next]_vars
  PROVE  PlansOwn' /\ Unstarted'
<1>. USE DEF TypeOK, PlansOwn, Unstarted, Waiting
<1>1. CASE NothingNew /\ UNCHANGED <<pc, plan>>
  BY <1>1 DEF NothingNew, At, Foremost, Of
<1>2. ASSUME NEW r \in Runs, NothingNew, GoesOn(r)
      PROVE  PlansOwn' /\ Unstarted'
  <2>1. PlansOwn'
    BY <1>2 DEF GoesOn, Of
  <2>2. ASSUME NEW c \in Child, c.run # r
        PROVE  /\ pc'[c.run] = pc[c.run] /\ plan'[c.run] = plan[c.run]
               /\ At(c.run, c)' <=> At(c.run, c)
    <3>1. pc'[c.run] = pc[c.run] /\ plan'[c.run] = plan[c.run]
      BY <1>2, <2>2, ChildFields DEF GoesOn
    <3>2. At(c.run, c)' <=> At(c.run, c)
      BY <3>1 DEF At, Foremost
    <3>. QED
      BY <3>1, <3>2
  <2>3. ASSUME NEW c \in Child, c.run = r
        PROVE  /\ pc'[r] \in Early \cup Started => pc[r] \in Early
    BY <1>2 DEF GoesOn, Started
  <2>4. \A c \in Child : pc[c.run] \in Early => Waiting(c)
    OBVIOUS
  <2>5. ASSUME NEW c \in Child, c.run = r
        PROVE  /\ pc'[r] \in Early => proc'[c] = "none" /\ port'[c] = None /\ record'[c] = "never"
               /\ pc'[r] \in Started => Waiting(c)'
    BY <1>2, <2>3, <2>4, <2>5 DEF NothingNew
  <2>6. ASSUME NEW c \in Child, c.run # r
        PROVE  /\ pc'[c.run] \in Early => proc'[c] = "none" /\ port'[c] = None /\ record'[c] = "never"
               /\ pc'[c.run] \in Started /\ c \in plan'[c.run] => Waiting(c)'
    BY <1>2, <2>2, <2>4, <2>6 DEF NothingNew
  <2>. QED
    BY <2>1, <2>5, <2>6
<1>3. ASSUME NEW r \in Runs, Spawn(r)
      PROVE  PlansOwn' /\ Unstarted'
  <2>1. PICK c \in Of(r) : /\ Spawning(r, c)
                           /\ \/ \E p, state : Spawned(c, p, state)
                              \/ pc' = [pc EXCEPT ![r] = "failed"] /\ UNCHANGED instances
    BY <1>3 DEF Spawn, SpawnWorker, SpawnServer, SpawnRouter, Of
  <2>2. UNCHANGED <<plan, record>>
    BY <1>3 DEF Spawn, registry
  <2>3. c \in Child /\ c.run = r /\ pc[r] = "start" /\ At(r, c)
    BY <2>1 DEF Of, Spawning
  <2>4. CASE pc' = [pc EXCEPT ![r] = "failed"] /\ UNCHANGED instances
    BY <2>2, <2>4 DEF instances, Early, Started, At, Foremost
  <2>5. ASSUME NEW p, NEW state, Spawned(c, p, state)
        PROVE  PlansOwn' /\ Unstarted'
    BY <2>2, <2>3, <2>5, ChildFields DEF Spawned, Early, Started, At, Foremost
  <2>. QED
    BY <2>1, <2>4, <2>5
<1>4. ASSUME NEW r \in Runs, Register(r)
      PROVE  PlansOwn' /\ Unstarted'
  <2>1. PICK c \in Of(r) : /\ At(r, c)
                           /\ record' = [record EXCEPT ![c] = "running"]
                           /\ plan' = [plan EXCEPT ![r] = @ \ {c}]
    BY <1>4 DEF Register
  <2>2. pc[r] = "register" /\ pc' = [pc EXCEPT ![r] = "start"] /\ UNCHANGED instances
    BY <1>4 DEF Register
  <2>3. \A d \in plan[r] : d \in Child /\ d.run = r /\ (At(r, d) => d = c)
    BY <2>1, OneIsForemost DEF Of
  <2>. QED
    BY <2>1, <2>2, <2>3, ChildFields DEF instances, Early, Started, At, Foremost, Of
<1>5. ASSUME NEW r \in Runs, PlanContainers(r)
      PROVE  PlansOwn' /\ Unstarted'
  <2>1. CASE pc' = [pc EXCEPT ![r] = "failed"] /\ UNCHANGED <<plan, port>>
    BY <1>5, <2>1 DEF PlanContainers, registry, Early, Started, At, Foremost
  <2>2. CASE /\ pc' = [pc EXCEPT ![r] = "start"]
             /\ plan' = [plan EXCEPT ![r] = Planned(Instances, r)]
             /\ \A c \in Child \ Of(r) : port'[c] = port[c]
    BY <1>5, <2>2, PlannedFacts DEF PlanContainers, registry, Early, Started, At, Foremost, Of
  <2>3. PICK ports : /\ ports \in PlannedPorts({c \in Planned(Instances, r) : c.service \in Services \ Workers})
                     /\ \/ pc' = [pc EXCEPT ![r] = "failed"] /\ UNCHANGED <<plan, port>>
                        \/ /\ pc' = [pc EXCEPT ![r] = "start"]
                           /\ plan' = [plan EXCEPT ![r] = Planned(Instances, r)]
                           /\ port' = [c \in Child |-> IF c \in DOMAIN ports THEN ports[c] ELSE port[c]]
    BY <1>5 DEF PlanContainers
  <2>4. DOMAIN ports \subseteq Of(r)
    BY <2>3, PlannedFacts DEF PlannedPorts
  <2>. QED
    BY <2>1, <2>2, <2>3, <2>4
<1>6. ASSUME NEW r \in Runs, RunContainer(r)
      PROVE  PlansOwn' /\ Unstarted'
  <2>1. PICK c \in Of(r) : /\ At(r, c)
                           /\ \/ pc' = [pc EXCEPT ![r] = "failed"] /\ UNCHANGED proc
                              \/ /\ pc' = [pc EXCEPT ![r] = "register"]
                                 /\ proc' = [proc EXCEPT ![c] = "up"] \/ UNCHANGED proc
    BY <1>6 DEF RunContainer
  <2>2. pc[r] = "start" /\ UNCHANGED <<plan, port, record>>
    BY <1>6 DEF RunContainer, registry
  <2>3. PlansOwn'
    BY <2>2 DEF Of
  <2>4. ASSUME NEW d \in Child, d # c
        PROVE  proc'[d] = proc[d] /\ record'[d] = record[d] /\ port'[d] = port[d] /\ (At(d.run, d)' <=> At(d.run, d))
    BY <2>1, <2>2, <2>4 DEF At, Foremost
  <2>5. c \in Child /\ c.run = r /\ At(r, c)'
    BY <2>1, <2>2 DEF Of, At, Foremost
  <2>6. pc[r] = "start" /\ (pc' = [pc EXCEPT ![r] = "failed"] \/ pc' = [pc EXCEPT ![r] = "register"])
    BY <2>1, <2>2
  <2>7. ASSUME NEW d \in Child, d # c
        PROVE  /\ pc'[d.run] \in Early => proc'[d] = "none" /\ port'[d] = None /\ record'[d] = "never"
               /\ pc'[d.run] \in Started /\ d \in plan'[d.run] => Waiting(d)'
    <3>1. pc'[d.run] \in Early => pc[d.run] \in Early
      BY <2>6, ChildFields DEF Early
    <3>2. pc'[d.run] \in Started => pc[d.run] \in Started /\ (pc[d.run] = "register" => pc'[d.run] = "register")
      BY <2>6, ChildFields DEF Started
    <3>. QED
      BY <2>2, <2>4, <2>7, <3>1, <3>2
  <2>8. pc'[r] \notin Early /\ (pc'[r] \in Started => pc'[r] = "register" /\ record'[c] = "never")
    <3>1. c \in plan[r]
      BY <2>1 DEF At, Foremost
    <3>. QED
      BY <2>2, <2>5, <2>6, <3>1 DEF Early, Started
  <2>. QED
    BY <2>3, <2>5, <2>7, <2>8
<1>. QED
  BY <1>1, <1>2, <1>3, <1>4, <1>5, <1>6, Unmoved

(* A port that is new to an instance is one it may have, and none of its     *)
(* siblings'.                                                                *)
LEMMA NewPort ==
  ASSUME PortsKept, SiblingsApart, NEW r \in Runs,
         \A c \in Child \ Of(r) : port'[c] = port[c],
         \A c \in Of(r) : port'[c] \in PortsOf(c) \cup {None},
         \A c, d \in Of(r) : KeptApart(c, d) /\ port'[c] # None => port'[c] # port'[d]
  PROVE  PortsKept' /\ SiblingsApart'
<1>1. PortsKept'
  BY DEF PortsKept, PortsOf
<1>2. SiblingsApart'
  BY DEF SiblingsApart, KeptApart, OwnPort, Of
<1>. QED
  BY <1>1, <1>2

LEMMA PortsStep ==
  ASSUME TypeOK, RecordsInv, PlansOwn, Unstarted, PortsKept, SiblingsApart, [Next]_vars
  PROVE  PortsKept' /\ SiblingsApart'
<1>. USE DEF TypeOK
<1>1. CASE UNCHANGED port
  BY <1>1 DEF PortsKept, PortsOf, SiblingsApart, OwnPort
<1>2. ASSUME NEW r \in Runs, Spawn(r), port' # port
      PROVE  PortsKept' /\ SiblingsApart'
  <2>1. PICK c \in Of(r) : SpawnWorker(c) \/ SpawnServer(c) \/ SpawnRouter(c)
    BY <1>2 DEF Spawn
  <2>2. c \in Child /\ c.run = r
    BY DEF Of
  <2>3. ASSUME NEW p \in PortsOf(c) \cup {None}, port' = [port EXCEPT ![c] = p],
               p # None => \A d \in Of(r) : KeptApart(c, d) => port[d] # p
        PROVE  PortsKept' /\ SiblingsApart'
    <3>1. \A d \in Child : port'[d] = IF d = c THEN p ELSE port[d]
      BY <2>2, <2>3
    <3>2. \A d \in Child \ Of(r) : port'[d] = port[d]
      BY <3>1
    <3>3. \A d \in Of(r) : port'[d] \in PortsOf(d) \cup {None}
      BY <2>3, <3>1 DEF Of, PortsKept
    <3>4. ASSUME NEW d \in Of(r), NEW e \in Of(r), KeptApart(d, e), port'[d] # None
          PROVE  port'[d] # port'[e]
      <4>1. KeptApart(e, d) /\ d \in Child /\ e \in Child /\ d.run = e.run
        BY <3>4 DEF KeptApart, Of
      <4>2. port[d] # None => port[d] # port[e]
        BY <3>4, <4>1 DEF KeptApart, SiblingsApart
      <4>. QED
        BY <2>2, <2>3, <3>1, <3>4, <4>1, <4>2 DEF KeptApart
    <3>. QED
      BY <3>2, <3>3, <3>4, NewPort
  <2>4. CASE SpawnWorker(c)
    BY <2>3, <2>4 DEF SpawnWorker, Spawned
  <2>5. CASE SpawnServer(c)
    <3>. DEFINE p == PortFor(c, Reserved(c.run))
    <3>1. p # None /\ port' = [port EXCEPT ![c] = p] /\ c.service \in Services \ Workers
      BY <1>2, <2>5 DEF SpawnServer, Spawned, instances
    <3>2. p \in PortsOf(c) /\ p \notin Reserved(r)
      BY <2>2, <3>1, PortForFacts
    <3>3. ASSUME NEW d \in Of(r), KeptApart(c, d) PROVE port[d] # p
      <4>0. d # c
        BY <3>3 DEF KeptApart
      <4>1. CASE d.service # Router
        BY <3>2, <4>1 DEF Reserved, Of
      <4>2. CASE d.service = Router
        <5>1. port[d] \in {RouterPort, None}
          BY <4>2 DEF Of, PortsKept, PortsOf
        <5>2. RouterPort \notin PortsOf(c)
          BY <3>1, <3>3, <4>2 DEF PortsOf, KeptApart, OwnPort
        <5>. QED
          BY <3>1, <3>2, <5>1, <5>2
      <4>. QED
        BY <4>1, <4>2
    <3>. HIDE DEF p
    <3>. QED
      BY <2>3, <3>1, <3>2, <3>3
  <2>6. CASE SpawnRouter(c)
    <3>1. port' = [port EXCEPT ![c] = RouterPort] /\ c.service = Router
      BY <2>6 DEF SpawnRouter, Spawned
    <3>2. RouterPort \in PortsOf(c)
      BY <3>1 DEF PortsOf
    <3>3. ASSUME NEW d \in Of(r), KeptApart(c, d) PROVE port[d] # RouterPort
      <4>1. d \in Child /\ d.service \in Services
        BY <2>2, <3>1, <3>3, ChildFields DEF Of, KeptApart
      <4>2. RouterPort # None /\ RouterPort \notin PortsOf(d)
        BY <3>1, <3>3, <4>1, PortsAssumption DEF PortsOf, KeptApart, OwnPort
      <4>. QED
        BY <4>1, <4>2 DEF PortsKept
    <3>. QED
      BY <2>3, <3>1, <3>2, <3>3
  <2>. QED
    BY <2>1, <2>4, <2>5, <2>6
<1>3. ASSUME NEW r \in Runs, PlanContainers(r), port' # port
      PROVE  PortsKept' /\ SiblingsApart'
  <2>. DEFINE published == {c \in Planned(Instances, r) : c.service \in Services \ Workers}
  <2>1. PICK ports \in PlannedPorts(published) :
          /\ \A c \in DOMAIN ports : ports[c] # None
          /\ port' = [c \in Child |-> IF c \in DOMAIN ports THEN ports[c] ELSE port[c]]
    BY <1>3 DEF PlanContainers
  <2>2. published \subseteq Of(r) /\ \A c \in Of(r) : c \in Child /\ port[c] = None
    BY <1>3, PlannedFacts DEF PlanContainers, Unstarted, Early, Of
  <2>3. \A c \in published : ports[c] = PortFor(c, {ports[d] : d \in {e \in published : Earlier(e, c)}})
    BY <2>1 DEF PlannedPorts
  <2>4. DOMAIN ports = published
    BY <2>1 DEF PlannedPorts
  <2>5. ASSUME NEW c \in published
        PROVE  ports[c] \in PortsOf(c) /\ \A d \in published : Earlier(d, c) => ports[d] # ports[c]
    <3>1. ports[c] # None
      BY <2>1, <2>4
    <3>. DEFINE taken == {ports[d] : d \in {e \in published : Earlier(e, c)}}
    <3>2. c \in Child /\ c.service \in Services \ Workers /\ ports[c] = PortFor(c, taken)
      BY <2>2, <2>3 DEF Of
    <3>3. ports[c] \in PortsOf(c) \ taken
      <4>. HIDE DEF taken
      <4>. QED
        BY <3>1, <3>2, PortForFacts
    <3>. QED
      BY <3>3
  <2>6. \A c, d \in published : c # d => ports[c] # ports[d]
    BY <2>2, <2>5, InOrder
  <2>. HIDE DEF published
  <2>7. \A c \in Child : port'[c] = IF c \in published THEN ports[c] ELSE port[c]
    BY <2>1, <2>4
  <2>. QED
    BY <2>2, <2>5, <2>6, <2>7, <2>1, <2>4, NewPort DEF KeptApart
<1>4. CASE NothingNew
  BY <1>1, <1>4 DEF NothingNew
<1>5. ASSUME NEW r \in Runs, Register(r) \/ RunContainer(r) PROVE UNCHANGED port
  BY <1>5 DEF Register, RunContainer, instances
<1>. QED
  BY <1>1, <1>2, <1>3, <1>4, <1>5, Unmoved

(* Freeing the port of an instance that is yet to be started hits no sibling: *)
(* only that instance may have the port, if it is its own.                   *)
LEMMA Spared == TypeOK /\ PlansOwn /\ Unstarted /\ PortsKept => SiblingsSpared
<1>. SUFFICES ASSUME TypeOK, PlansOwn, Unstarted, PortsKept,
                     NEW c \in Child, Spawning(c.run, c), NEW p \in Forced(c), OwnPort(c.service, p),
                     NEW d \in Of(c.run), port[d] = p
              PROVE  ~Live(d)
  BY DEF SiblingsSpared
<1>1. c \in plan[c.run] /\ pc[c.run] = "start" /\ d \in Child /\ d.run = c.run
  BY DEF Spawning, At, Foremost, Of
<1>2. ~Live(c)
  BY <1>1 DEF Unstarted, Waiting, Started, Live
<1>3. p # None /\ p \in PortsOf(d)
  <2>1. RouterPort # None
    BY PortsAssumption
  <2>. QED
    BY <1>1, <2>1 DEF PortsKept, Forced
<1>4. d.service = Router => p = RouterPort
  BY <1>3 DEF PortsOf
<1>5. ASSUME d.service # Router
      PROVE  d.service \in Services /\ d.index = 0 /\ p = Preferred[d.service]
  BY <1>1, <1>3, <1>5, ChildFields DEF PortsOf, OwnPort
<1>6. d.service = c.service
  <2>1. CASE d.service = Router
    BY <1>4, <2>1 DEF OwnPort
  <2>2. CASE d.service # Router
    BY <1>5, <2>2 DEF OwnPort
  <2>. QED
    BY <2>1, <2>2
<1>7. c.index = 0 /\ d.index = 0
  BY <1>1, <1>5, ChildFields DEF Forced
<1>. QED
  BY <1>1, <1>2, <1>6, <1>7, ChildFields

LEMMA BaseInit == Init => TypeOK /\ RecordsInv /\ PortsInv
<1>. SUFFICES ASSUME Init PROVE TypeOK /\ RecordsInv /\ PortsInv
  OBVIOUS
<1>1. TypeOK
  BY ServicesAssumption DEF Init, TypeOK, Stops, States
<1>2. RecordsInv
  BY DEF Init, RecordsInv, NoneToStore, Heard
<1>3. PortsInv
  <2>1. PlansOwn /\ PortsKept /\ SiblingsApart
    BY DEF Init, PlansOwn, PortsKept, SiblingsApart
  <2>2. \A c \in Child : pc[c.run] = "idle" /\ proc[c] = "none" /\ port[c] = None /\ record[c] = "never"
    BY ChildFields DEF Init
  <2>3. Unstarted
    BY <2>2 DEF Unstarted, Started
  <2>. QED
    BY <2>1, <2>3 DEF PortsInv
<1>. QED
  BY <1>1, <1>2, <1>3

LEMMA BaseStep == TypeOK /\ RecordsInv /\ PortsInv /\ [Next]_vars => (TypeOK /\ RecordsInv /\ PortsInv)'
BY TypeStep, RecordsStep, UnstartedStep, PortsStep DEF PortsInv

(* Whatever ports are configured, a run gives none of its instances a port   *)
(* that another one of them has, bound or not (PortAllocator.reservePreferred, *)
(* PodmanPlan.build), the router's aside, which the allocator does not know;  *)
(* and it frees no sibling's by force where the port is the instance's own    *)
(* (ProcessInstanceSpawner.spawn).  What the inductive invariant adds is that *)
(* only the first instance of a service ever gets its preferred port, and     *)
(* that a run has not started what it has yet to start.                       *)
THEOREM PortsOfARunApart == Spec => []PortsApart
<1>1. TypeOK /\ PortsInv => PortsApart
  BY Spared DEF PortsInv, PortsApart
<1>. QED
  BY <1>1, BaseInit, BaseStep, PTL DEF Spec

-------------------------------------------------------------------------------
(* Redis for realtime services *)

(* Most actions: nobody asks anew, plans more or starts an instance.         *)
Nobody ==
  /\ UNCHANGED <<mode, redis>>
  /\ \A r \in Runs : /\ pc'[r] \in Asking => pc'[r] = pc[r]
                     /\ pc'[r] \in {"network", "plan"} => pc[r] \in {"network", "plan"}
                     /\ plan'[r] \subseteq plan[r]
  /\ \A c \in Child : proc'[c] # "none" => proc[c] # "none"

LEMMA NobodyElse ==
  ASSUME TypeOK, [Next]_vars
  PROVE  \/ Nobody
         \/ \E r \in Runs : \/ Start(r) \/ Probe(r) \/ Decline(r) \/ Install(r)
                            \/ Spawn(r) \/ PlanContainers(r) \/ RunContainer(r)
<1>. USE DEF TypeOK, Asking
<1>1. ASSUME NEW p, Kill(p) PROVE \A c \in Child : proc'[c] # "none" => proc[c] # "none"
  BY <1>1 DEF Kill, Holders
<1>2. ASSUME NEW r \in Runs, ListExisting(r) \/ Reconcile(r) \/ Finish(r) \/ EnsureNetwork(r) \/ Register(r)
      PROVE  Nobody
  BY <1>2 DEF ListExisting, Reconcile, Finish, EnsureNetwork, Register, Nobody, instances
<1>3. ASSUME NEW r \in Runs, FreeExisting(r) \/ ForceFree(r)
      PROVE  Nobody
  <2>1. \A c \in Child : proc'[c] # "none" => proc[c] # "none"
    BY <1>1, <1>3 DEF FreeExisting, ForceFree
  <2>2. UNCHANGED <<mode, redis, plan>> /\ (UNCHANGED pc \/ pc' = [pc EXCEPT ![r] = "failed"])
    BY <1>3 DEF FreeExisting, ForceFree
  <2>. QED
    BY <2>1, <2>2 DEF Nobody
<1>4. ASSUME NEW r \in Runs, DropExisting(r) \/ StopOne(r)
      PROVE  Nobody
  BY <1>4 DEF DropExisting, StopOne, Foremost, Nobody, Live, instances
<1>5. ASSUME NEW r \in Runs, StopAll(r) \/ DrainContainer(r) \/ DrainTime(r) \/ Stopped(r) \/ Crash(r)
      PROVE  Nobody
  BY <1>5 DEF StopAll, DrainContainer, DrainTime, Stopped, Crash, Nobody, instances, registry
<1>6. ASSUME NEW c \in Child, Bind(c) \/ Die(c) \/ Exit(c) \/ Beat(c) \/ StopKill(c) \/ StopForget(c) \/ StopContainer(c)
      PROVE  Nobody
  BY <1>6 DEF Bind, Die, Exit, Beat, StopKill, StopForget, StopContainer, Live, Nobody, runs, instances, registry
<1>7. CASE Expire \/ StopList \/ StopMark \/ \E c \in Child, s \in Alive : Store(c, s)
  BY <1>7 DEF Expire, StopList, StopMark, Store, Nobody, runs, instances
<1>8. CASE UNCHANGED vars
  BY <1>8 DEF vars, Nobody, runs, instances
<1>. QED
  BY <1>2, <1>3, <1>4, <1>5, <1>6, <1>7, <1>8 DEF Next, Launching, Stopping, Command

(* A plan that is made while Redis does not answer has one instance of each  *)
(* realtime service.                                                         *)
LEMMA PlannedWithRedis ==
  ASSUME NEW r \in Runs, NEW counts,
         \/ counts = Instances /\ (Requiring(r) = {} \/ redis)
         \/ counts = Fallback(r),
         NEW c \in Planned(counts, r), c.service \in Realtime, c.index > 0
  PROVE  redis
<1>1. c \in Child /\ c.service \in picked[r] /\ c.index < counts[c.service] /\ c.service \in Services
  BY DEF Planned, Of
<1>2. c.index \in Nat /\ Instances[c.service] \in Nat
  BY <1>1, ChildFields
<1>3. Instances[c.service] > 1 => c.service \in Requiring(r)
  BY <1>1 DEF Requiring
<1>4. CASE counts = Instances /\ (Requiring(r) = {} \/ redis)
  BY <1>1, <1>2, <1>3, <1>4
<1>5. CASE counts = Fallback(r)
  BY <1>1, <1>2, <1>3, <1>5 DEF Fallback
<1>. QED
  BY <1>4, <1>5

LEMMA RedisStep ==
  ASSUME TypeOK, PlansOwn, RedisInv, RealtimeHasRedis, [Next]_vars
  PROVE  RedisInv' /\ RealtimeHasRedis'
<1>. USE DEF TypeOK, RedisInv, RealtimeHasRedis
<1>1. CASE Nobody
  BY <1>1 DEF Nobody, Asking
<1>2. ASSUME NEW r \in Runs, Start(r) PROVE RedisInv' /\ RealtimeHasRedis'
  <2>1. UNCHANGED <<mode, redis, plan, proc>>
    BY <1>2 DEF Start, instances
  <2>2. /\ pc'[r] = "network" => mode = "podman"
        /\ pc'[r] # "plan" /\ \A q \in Runs \ {r} : pc'[q] = pc[q]
    BY <1>2 DEF Start
  <2>. QED
    BY <2>1, <2>2
<1>3. ASSUME NEW r \in Runs, NEW counts, GoOn(r, counts), UNCHANGED <<mode, redis, instances>>,
             \/ counts = Instances /\ (Requiring(r) = {} \/ redis)
             \/ counts = Fallback(r)
      PROVE  RedisInv' /\ RealtimeHasRedis'
  <2>1. pc' = [pc EXCEPT ![r] = "list"] /\ plan' = [plan EXCEPT ![r] = Planned(counts, r)]
    BY <1>3 DEF GoOn
  <2>2. \A c \in Planned(counts, r) : c.service \in Realtime /\ c.index > 0 => redis
    BY <1>3, PlannedWithRedis
  <2>. HIDE DEF GoOn
  <2>. QED
    BY <1>3, <2>1, <2>2 DEF Asking, instances
<1>4. ASSUME NEW r \in Runs, Probe(r) PROVE RedisInv' /\ RealtimeHasRedis'
  <2>1. UNCHANGED <<mode, redis, instances>> /\ pc[r] \in Asking
    BY <1>4 DEF Probe, Asking
  <2>2. CASE pc' = [pc EXCEPT ![r] = "ask"] /\ UNCHANGED plan /\ ~redis
    BY <2>1, <2>2 DEF Asking, instances
  <2>. QED
    BY <1>3, <1>4, <2>1, <2>2 DEF Probe
<1>5. ASSUME NEW r \in Runs, Decline(r) PROVE RedisInv' /\ RealtimeHasRedis'
  BY <1>3, <1>5 DEF Decline
<1>6. ASSUME NEW r \in Runs, Install(r) PROVE RedisInv' /\ RealtimeHasRedis'
  <2>1. UNCHANGED <<mode, plan, proc>> /\ (redis => redis')
    BY <1>6 DEF Install, instances
  <2>2. \A q \in Runs : pc'[q] \in {pc[q], "again"}
    BY <1>6 DEF Install
  <2>. QED
    BY <2>1, <2>2
<1>7. ASSUME NEW r \in Runs, Spawn(r) PROVE RedisInv' /\ RealtimeHasRedis'
  <2>1. PICK c \in Of(r) : /\ Spawning(r, c)
                           /\ \/ \E p, state : Spawned(c, p, state)
                              \/ pc' = [pc EXCEPT ![r] = "failed"] /\ UNCHANGED instances
    BY <1>7 DEF Spawn, SpawnWorker, SpawnServer, SpawnRouter, Of
  <2>2. c \in plan[r] /\ c.run = r /\ c \in Child
    BY <2>1 DEF Spawning, At, Foremost, Of
  <2>3. UNCHANGED <<mode, redis, plan>>
    BY <1>7 DEF Spawn
  <2>4. \A d \in Child : proc'[d] # "none" => proc[d] # "none" \/ d = c
    BY <2>1, <2>2 DEF Spawned, instances
  <2>5. \A q \in Runs : pc'[q] = pc[q] \/ pc'[q] \in {"register", "failed"}
    BY <2>1, <2>2 DEF Spawned
  <2>. QED
    BY <2>2, <2>3, <2>4, <2>5 DEF Asking
<1>8. ASSUME NEW r \in Runs, PlanContainers(r) PROVE RedisInv' /\ RealtimeHasRedis'
  <2>1. UNCHANGED <<mode, redis, proc>> /\ mode = "podman"
    BY <1>8 DEF PlanContainers
  <2>2. \A q \in Runs : pc'[q] = pc[q] \/ pc'[q] \in {"start", "failed"}
    BY <1>8 DEF PlanContainers
  <2>. QED
    BY <2>1, <2>2 DEF Asking
<1>9. ASSUME NEW r \in Runs, RunContainer(r) PROVE RedisInv' /\ RealtimeHasRedis'
  <2>1. UNCHANGED <<mode, redis, plan>> /\ mode = "podman"
    BY <1>9 DEF RunContainer, IsContainer
  <2>2. \A q \in Runs : pc'[q] = pc[q] \/ pc'[q] \in {"register", "failed"}
    BY <1>9 DEF RunContainer
  <2>. QED
    BY <2>1, <2>2 DEF Asking
<1>. QED
  BY <1>1, <1>2, <1>4, <1>5, <1>6, <1>7, <1>8, <1>9, NobodyElse

(* In process mode more than one instance of a realtime service runs only    *)
(* with a Redis that answered, however probe, question and installation end  *)
(* (ProcessRedisPreflight.prepare).  The invariant looks at what has yet to  *)
(* be started, too: an instance is let off when the plan is made.            *)
THEOREM RealtimeWaitsForRedis == Spec => []RealtimeHasRedis
<1>1. Init => RedisInv /\ RealtimeHasRedis
  BY DEF Init, RedisInv, RealtimeHasRedis, Asking
<1>2. TypeOK /\ PortsInv /\ RedisInv /\ RealtimeHasRedis /\ [Next]_vars => (RedisInv /\ RealtimeHasRedis)'
  BY RedisStep DEF PortsInv
<1>. QED
  BY <1>1, <1>2, BaseInit, BaseStep, PTL DEF Spec

-------------------------------------------------------------------------------
(* Taking over from other runs *)

LEMMA StartsOnly ==
  ASSUME TypeOK, NEW r \in Runs,
         FreeExisting(r) \/ ForceFree(r) \/ Spawn(r) \/ PlanContainers(r) \/ RunContainer(r),
         NEW q \in Runs
  PROVE  pc'[q] = pc[q] \/ pc'[q] \in {"failed", "register", "start"}
BY ChildFields DEF TypeOK, FreeExisting, ForceFree, Spawn, SpawnWorker, SpawnServer, SpawnRouter, Spawned,
   PlanContainers, RunContainer, Of

LEMMA PodmanStopsStep == TypeOK /\ PodmanStops /\ [Next]_vars => PodmanStops' /\ mode' = mode
<1>. SUFFICES ASSUME TypeOK, PodmanStops, [Next]_vars PROVE PodmanStops' /\ mode' = mode
  OBVIOUS
<1>. USE DEF TypeOK, PodmanStops
<1>1. ASSUME NEW r \in Runs, Start(r) \/ ListExisting(r) \/ Reconcile(r) \/ Finish(r) \/ EnsureNetwork(r) \/ Register(r)
      PROVE  PodmanStops' /\ mode' = mode
  BY <1>1 DEF Start, ListExisting, Reconcile, Finish, EnsureNetwork, Register
<1>2. ASSUME NEW r \in Runs, Probe(r) \/ Decline(r) \/ Install(r)
      PROVE  PodmanStops' /\ mode' = mode
  BY <1>2 DEF Probe, Decline, Install, GoOn
<1>3. ASSUME NEW r \in Runs, FreeExisting(r) \/ ForceFree(r) \/ Spawn(r) \/ PlanContainers(r) \/ RunContainer(r)
      PROVE  PodmanStops' /\ mode' = mode
  <2>1. UNCHANGED <<mode, stop>>
    BY <1>3 DEF FreeExisting, ForceFree, Spawn, PlanContainers, RunContainer
  <2>2. \A q \in Runs : pc'[q] = pc[q] \/ pc'[q] \in {"failed", "register", "start"}
    BY <1>3, StartsOnly
  <2>. QED
    BY <2>1, <2>2
<1>4. ASSUME NEW r \in Runs, DropExisting(r) \/ StopOne(r) \/ DrainContainer(r)
      PROVE  PodmanStops' /\ mode' = mode
  BY <1>4 DEF DropExisting, StopOne, DrainContainer
<1>5. ASSUME NEW r \in Runs, StopAll(r) \/ DrainTime(r) \/ Stopped(r) \/ Crash(r)
      PROVE  PodmanStops' /\ mode' = mode
  BY <1>5 DEF StopAll, DrainTime, Stopped, Crash
<1>6. ASSUME NEW c \in Child, Bind(c) \/ Die(c) \/ Exit(c) \/ Beat(c) \/ StopKill(c)
      PROVE  PodmanStops' /\ mode' = mode
  BY <1>6 DEF Bind, Die, Exit, Beat, StopKill, runs
<1>7. ASSUME NEW c \in Child, StopForget(c) \/ StopContainer(c)
      PROVE  PodmanStops' /\ mode' = mode
  BY <1>7 DEF StopForget, StopContainer, runs, Stops
<1>8. CASE StopList
  BY <1>8 DEF StopList, runs
<1>9. CASE StopMark
  <2>1. UNCHANGED <<mode, pc>> /\ stop.at = "mark"
    BY <1>9 DEF StopMark, runs
  <2>2. \/ \E c : stop' = [stop EXCEPT !.todo = @ \ {c}, !.now = IF mode = "podman" THEN {c} ELSE {}]
        \/ /\ stop.now = {}
           /\ stop' = [stop EXCEPT !.at = IF mode = "process" THEN "kill" ELSE "done", !.todo = stop.targets]
    BY <1>9 DEF StopMark
  <2>3. stop'.now # {} => mode = "podman" /\ stop'.at = "mark"
    BY <2>1, <2>2 DEF Stops
  <2>. QED
    BY <2>1, <2>3
<1>10. CASE Expire \/ \E c \in Child, s \in Alive : Store(c, s)
  BY <1>10 DEF Expire, Store, runs
<1>11. CASE UNCHANGED vars
  BY <1>11 DEF vars, runs
<1>. QED
  BY <1>1, <1>2, <1>3, <1>4, <1>5, <1>6, <1>7, <1>8, <1>9, <1>10, <1>11
     DEF Next, Launching, Stopping, Command

(* The way of a run in process mode.                                         *)
LEMMA Course ==
  ASSUME TypeOK, RedisInv, PodmanStops, [Next]_vars, mode = "process", NEW r \in Runs
  PROVE  /\ pc'[r] \in {"start", "register", "up"} =>
              /\ found'[r] = found[r]
              /\ \/ pc[r] \in {"start", "register", "up"}
                 \/ pc[r] = "reconcile" /\ seen[r] = {}
         /\ pc'[r] = "reconcile" =>
              \/ found'[r] \subseteq seen'[r]
              \/ /\ pc[r] = "reconcile" /\ found'[r] = found[r]
                 /\ \A c \in seen[r] \ seen'[r] : MayDrop(c) /\ UNCHANGED instances
<1>. USE DEF TypeOK
<1>. DEFINE Goes(q) ==
       /\ pc'[q] \in {"start", "register", "up"} =>
            /\ found'[q] = found[q]
            /\ \/ pc[q] \in {"start", "register", "up"}
               \/ pc[q] = "reconcile" /\ seen[q] = {}
       /\ pc'[q] = "reconcile" =>
            \/ found'[q] \subseteq seen'[q]
            \/ /\ pc[q] = "reconcile" /\ found'[q] = found[q]
               /\ \A c \in seen[q] \ seen'[q] : MayDrop(c) /\ UNCHANGED instances
<1>. SUFFICES Goes(r)
  OBVIOUS
<1>1. ASSUME NEW q \in Runs, Start(q) PROVE Goes(r)
  BY <1>1 DEF Start
<1>2. ASSUME NEW q \in Runs, Probe(q) \/ Decline(q) \/ Install(q) PROVE Goes(r)
  BY <1>2 DEF Probe, Decline, Install, GoOn
<1>3. ASSUME NEW q \in Runs, ListExisting(q) PROVE Goes(r)
  BY <1>3 DEF ListExisting
<1>4. ASSUME NEW q \in Runs, Reconcile(q) \/ Finish(q) \/ EnsureNetwork(q) \/ Register(q) PROVE Goes(r)
  BY <1>4 DEF Reconcile, Finish, EnsureNetwork, Register
<1>5. ASSUME NEW q \in Runs, FreeExisting(q) \/ ForceFree(q) \/ Spawn(q) \/ RunContainer(q) PROVE Goes(r)
  <2>1. UNCHANGED <<found, seen>>
    BY <1>5 DEF FreeExisting, ForceFree, Spawn, RunContainer
  <2>2. pc'[r] # pc[r] => pc[r] \in {"start", "reconcile"} /\ pc'[r] \in {"failed", "register"}
                          /\ (pc[r] = "reconcile" => pc'[r] = "failed")
    BY <1>5, ChildFields DEF FreeExisting, ForceFree, Spawn, SpawnWorker, SpawnServer, SpawnRouter, Spawned, Spawning,
                RunContainer, Of
  <2>. QED
    BY <2>1, <2>2
<1>6. ASSUME NEW q \in Runs, DropExisting(q) PROVE Goes(r)
  <2>1. PICK c \in seen[q] : MayDrop(c) /\ seen' = [seen EXCEPT ![q] = @ \ {c}]
    BY <1>6 DEF DropExisting, Foremost
  <2>. QED
    BY <1>6, <2>1 DEF DropExisting
<1>7. ASSUME NEW q \in Runs, PlanContainers(q) PROVE FALSE
  BY <1>7 DEF PlanContainers, RedisInv
<1>8. ASSUME NEW q \in Runs, StopAll(q) \/ DrainTime(q) \/ Stopped(q) \/ StopOne(q) \/ DrainContainer(q) PROVE FALSE
  BY <1>8 DEF StopAll, DrainTime, Stopped, StopOne, DrainContainer, PodmanStops
<1>9. ASSUME NEW q \in Runs, Crash(q) PROVE Goes(r)
  BY <1>9 DEF Crash
<1>10. CASE UNCHANGED runs
  BY <1>10 DEF runs
<1>11. CASE \/ Expire \/ Command
            \/ \E c \in Child : Bind(c) \/ Die(c) \/ Exit(c) \/ Beat(c) \/ \E s \in Alive : Store(c, s)
  BY <1>10, <1>11 DEF Expire, Command, StopList, StopMark, StopKill, StopForget, StopContainer,
                      Bind, Die, Exit, Beat, Store
<1>. QED
  BY <1>1, <1>2, <1>3, <1>4, <1>5, <1>6, <1>7, <1>8, <1>9, <1>10, <1>11
     DEF Next, Launching, Stopping, vars

(* What has once been on record is not started any more.                     *)
LEMMA NotRevived ==
  ASSUME TypeOK, PlansOwn, Unstarted, [Next]_vars, NEW c \in Child, record[c] # "never"
  PROVE  port'[c] = port[c] /\ (Live(c)' => Live(c)) /\ (proc'[c] = "starting" => proc[c] = "starting")
<1>. USE DEF TypeOK, Live
<1>. DEFINE Kept == /\ port'[c] = port[c] /\ (Live(c)' => Live(c))
                    /\ proc'[c] = "starting" => proc[c] = "starting"
<1>1. CASE UNCHANGED instances
  BY <1>1 DEF instances
<1>2. ASSUME NEW r \in Runs, FreeExisting(r) \/ ForceFree(r)
      PROVE  Kept
  <2>1. UNCHANGED port /\ (UNCHANGED proc \/ \E p : Kill(p))
    BY <1>2 DEF FreeExisting, ForceFree
  <2>. QED
    BY <2>1 DEF Kill
<1>3. ASSUME NEW r \in Runs, Spawn(r) \/ RunContainer(r)
      PROVE  Kept
  <2>1. PICK d \in Of(r) : /\ pc[r] = "start" /\ At(r, d)
                           /\ \A e \in Child \ {d} : proc'[e] = proc[e] /\ port'[e] = port[e]
    BY <1>3 DEF Spawn, SpawnWorker, SpawnServer, SpawnRouter, Spawned, Spawning, RunContainer, Of, instances
  <2>2. d # c
    BY <2>1 DEF Unstarted, Waiting, Started, At, Foremost, Of
  <2>. QED
    BY <2>1, <2>2
<1>4. ASSUME NEW r \in Runs, PlanContainers(r)
      PROVE  Kept
  <2>1. c.run # r
    BY <1>4 DEF PlanContainers, Unstarted, Early
  <2>. DEFINE published == {d \in Planned(Instances, r) : d.service \in Services \ Workers}
  <2>2. PICK ports \in PlannedPorts(published) :
          port' = port \/ port' = [d \in Child |-> IF d \in DOMAIN ports THEN ports[d] ELSE port[d]]
    BY <1>4 DEF PlanContainers
  <2>3. c \notin DOMAIN ports
    BY <2>1, <2>2, PlannedFacts DEF PlannedPorts, Of
  <2>4. UNCHANGED proc
    BY <1>4 DEF PlanContainers
  <2>. QED
    BY <2>2, <2>3, <2>4
<1>5. ASSUME NEW r \in Runs, StopOne(r)
      PROVE  Kept
  BY <1>5 DEF StopOne
<1>6. ASSUME NEW d \in Child, Bind(d) \/ Die(d) \/ Exit(d) \/ StopKill(d) \/ StopContainer(d)
      PROVE  Kept
  BY <1>6 DEF Bind, Die, Exit, StopKill, StopContainer
<1>7. ASSUME NEW r \in Runs, \/ Start(r) \/ Probe(r) \/ Decline(r) \/ Install(r) \/ ListExisting(r) \/ DropExisting(r)
                             \/ Reconcile(r) \/ Register(r) \/ Finish(r) \/ EnsureNetwork(r)
                             \/ StopAll(r) \/ DrainContainer(r) \/ DrainTime(r) \/ Stopped(r) \/ Crash(r)
      PROVE  UNCHANGED instances
  BY <1>7 DEF Start, Probe, Decline, Install, ListExisting, DropExisting, Reconcile, Register, Finish, EnsureNetwork,
              StopAll, DrainContainer, DrainTime, Stopped, Crash
<1>8. ASSUME NEW d \in Child, Beat(d) \/ StopForget(d) \/ \E s \in Alive : Store(d, s)
      PROVE  UNCHANGED instances
  BY <1>8 DEF Beat, StopForget, Store
<1>9. CASE Expire \/ StopList \/ StopMark \/ UNCHANGED vars
  BY <1>1, <1>9 DEF Expire, StopList, StopMark, vars
<1>. QED
  BY <1>1, <1>2, <1>3, <1>4, <1>5, <1>6, <1>7, <1>8, <1>9
     DEF Next, Launching, Stopping, Command

LEMMA FoundStep ==
  ASSUME TypeOK, RecordsInv, PlansOwn, Unstarted, FoundUp, [Next]_vars
  PROVE  FoundUp'
<1>. SUFFICES ASSUME NEW r \in Runs, NEW c \in found'[r] PROVE port'[c] # None /\ proc'[c] # "starting"
  BY DEF FoundUp
<1>1. CASE c \in found[r]
  <2>1. c \in Child /\ record[c] # "never"
    BY <1>1 DEF TypeOK, RecordsInv, Heard, Known
  <2>. QED
    BY <1>1, <2>1, NotRevived DEF FoundUp
<1>2. CASE c \notin found[r]
  <2>1. PICK q \in Runs : ListExisting(q)
    <3>. SUFFICES ASSUME \A q \in Runs : ~ListExisting(q)
                  PROVE  FALSE
      OBVIOUS
    <3>1. ASSUME NEW q \in Runs, \/ Start(q) \/ Launching(q) \/ StopAll(q) \/ Stopping(q) \/ Crash(q)
          PROVE  UNCHANGED found
      BY <3>1 DEF Start, Launching, Probe, Decline, Install, FreeExisting, DropExisting, Reconcile, ForceFree, Spawn,
                  Register, Finish, EnsureNetwork, PlanContainers, RunContainer, StopAll, Stopping, DrainContainer,
                  DrainTime, StopOne, Stopped, Crash
    <3>2. ASSUME \/ Expire \/ Command \/ UNCHANGED vars
                 \/ \E d \in Child : Bind(d) \/ Die(d) \/ Exit(d) \/ Beat(d) \/ \E s \in Alive : Store(d, s)
          PROVE  UNCHANGED found
      BY <3>2 DEF Expire, Command, StopList, StopMark, StopKill, StopForget, StopContainer,
                  Bind, Die, Exit, Beat, Store, vars, runs
    <3>3. found' # found
      BY <1>2
    <3>. QED
      BY <3>1, <3>2, <3>3 DEF Next
  <2>2. found' = [found EXCEPT ![q] = {d \in Reconciled(q) : proc[d] = "up" /\ port[d] # None}] /\ UNCHANGED instances
    BY <2>1 DEF ListExisting
  <2>3. proc[c] = "up" /\ port[c] # None
    BY <1>2, <2>2 DEF TypeOK
  <2>. QED
    BY <2>2, <2>3 DEF instances
<1>. QED
  BY <1>1, <1>2

(* A record is dropped only when the port of what was found up is free again, *)
(* and what has gone down stays down.                                        *)
LEMMA ToTakeOverStep ==
  ASSUME TypeOK, RecordsInv, PlansOwn, Unstarted, RedisInv, PodmanStops, FoundUp, ToTakeOver, [Next]_vars
  PROVE  ToTakeOver'
<1>. SUFFICES ASSUME NEW r \in Runs, mode' = "process", pc'[r] = "reconcile", NEW c \in found'[r], c \notin seen'[r]
              PROVE  ~Live(c)'
  BY DEF ToTakeOver, Live
<1>1. mode = "process"
  BY PodmanStopsStep
<1>2. /\ pc[r] = "reconcile" /\ c \in found[r]
      /\ c \in seen[r] => MayDrop(c) /\ UNCHANGED instances
  BY <1>1, Course
<1>3. c \in Child /\ record[c] # "never" /\ port[c] # None /\ proc[c] # "starting"
  BY <1>2 DEF TypeOK, RecordsInv, Heard, Known, FoundUp
<1>4. CASE c \in seen[r]
  BY <1>2, <1>3, <1>4 DEF MayDrop, Available, Holders, Live, instances
<1>5. CASE c \notin seen[r]
  BY <1>1, <1>2, <1>3, <1>5, NotRevived DEF ToTakeOver
<1>. QED
  BY <1>4, <1>5

LEMMA TakenOverStep ==
  ASSUME TypeOK, RecordsInv, PlansOwn, Unstarted, RedisInv, PodmanStops, ToTakeOver, TakenOver, [Next]_vars
  PROVE  TakenOver'
<1>. SUFFICES ASSUME NEW r \in Runs, mode' = "process", pc'[r] \in {"start", "register", "up"}, NEW c \in found'[r]
              PROVE  ~Live(c)'
  BY DEF TakenOver, Live
<1>1. mode = "process"
  BY PodmanStopsStep
<1>2. /\ c \in found[r]
      /\ pc[r] \in {"start", "register", "up"} \/ (pc[r] = "reconcile" /\ seen[r] = {})
  BY <1>1, Course
<1>3. c \in Child /\ record[c] # "never"
  BY <1>2 DEF TypeOK, RecordsInv, Heard, Known
<1>4. ~Live(c)
  BY <1>1, <1>2 DEF TakenOver, ToTakeOver
<1>. QED
  BY <1>3, <1>4, NotRevived

-------------------------------------------------------------------------------
(* Leaving no record *)

Final == {"draining", "stopping", "stopped"}

LEMMA LastRecordsStep ==
  ASSUME TypeOK, PodmanStops, LastRecords, [Next]_vars
  PROVE  LastRecords'
<1>. USE DEF TypeOK, LastRecords, Listed
<1>. DEFINE Steady == \A q \in Runs : pc'[q] \in Final => pc'[q] = pc[q] /\ seen'[q] = seen[q]
<1>1. ASSUME NEW r \in Runs, \/ Start(r) \/ Probe(r) \/ Decline(r) \/ Install(r) \/ ListExisting(r)
                             \/ FreeExisting(r) \/ Reconcile(r) \/ ForceFree(r) \/ Spawn(r) \/ Finish(r)
                             \/ EnsureNetwork(r) \/ PlanContainers(r) \/ RunContainer(r)
      PROVE  Steady /\ UNCHANGED <<registry, stop>>
  <2>1. CASE Start(r) \/ ListExisting(r) \/ Reconcile(r) \/ Finish(r) \/ EnsureNetwork(r)
    <3>1. CASE ListExisting(r)
      BY <3>1 DEF ListExisting, Final
    <3>2. CASE Start(r) \/ Reconcile(r) \/ Finish(r) \/ EnsureNetwork(r)
      BY <3>2 DEF Start, Reconcile, Finish, EnsureNetwork, Final
    <3>. QED
      BY <2>1, <3>1, <3>2
  <2>2. CASE Probe(r) \/ Decline(r) \/ Install(r)
    <3>1. UNCHANGED <<seen, registry, stop>>
      BY <2>2 DEF Probe, Decline, Install
    <3>2. pc' = [pc EXCEPT ![r] = "list"] \/ pc' = [pc EXCEPT ![r] = "ask"] \/ pc' = [pc EXCEPT ![r] = "again"]
      BY <2>2 DEF Probe, Decline, Install, GoOn
    <3>. QED
      BY <3>1, <3>2 DEF Final
  <2>3. CASE FreeExisting(r) \/ ForceFree(r) \/ Spawn(r) \/ PlanContainers(r) \/ RunContainer(r)
    <3>1. UNCHANGED <<seen, registry, stop>>
      BY <2>3 DEF FreeExisting, ForceFree, Spawn, PlanContainers, RunContainer
    <3>2. \A q \in Runs : pc'[q] = pc[q] \/ pc'[q] \in {"failed", "register", "start"}
      BY <2>3, StartsOnly
    <3>. QED
      BY <3>1, <3>2 DEF Final
  <2>. QED
    BY <1>1, <2>1, <2>2, <2>3
<1>2. CASE Steady /\ UNCHANGED <<registry, stop>>
  <2>1. UNCHANGED <<record, pending, beating, stop>>
    BY <1>2 DEF registry
  <2>2. \A q \in Runs : pc'[q] \in Final => pc'[q] = pc[q] /\ seen'[q] = seen[q]
    BY <1>2
  <2>3. \A r \in Runs : pc'[r] = "draining" => seen'[r] \subseteq Of(r)
    BY <2>2 DEF Final, Of
  <2>4. ASSUME NEW c \in Child
        PROVE  /\ pc'[c.run] \in Final => c \notin beating
               /\ pc'[c.run] \in {"stopping", "stopped"} =>
                    /\ pending[c] \subseteq {"draining"}
                    /\ pending[c] # {} => c \in stop.now
                    /\ Listed(c) => c \in stop.now \/ (pc'[c.run] = "stopping" /\ c \in seen'[c.run])
    <3>1. c.run \in Runs
      BY ChildFields
    <3>2. CASE pc'[c.run] \in Final
      <4>1. pc'[c.run] = pc[c.run] /\ seen'[c.run] = seen[c.run]
        BY <2>2, <3>1, <3>2
      <4>. QED
        BY <4>1 DEF Final
    <3>. QED
      BY <3>2 DEF Final
  <2>. QED
    BY <2>1, <2>3, <2>4 DEF Final, Of
<1>3. ASSUME NEW r \in Runs, Register(r) PROVE LastRecords'
  <2>1. PICK c \in Of(r) : record' = [record EXCEPT ![c] = "running"] /\ beating' = beating \cup {c}
    BY <1>3 DEF Register
  <2>. QED
    BY <1>3, <2>1, ChildFields DEF Register, Of
<1>4. ASSUME NEW r \in Runs, DropExisting(r) PROVE LastRecords'
  <2>1. PICK c : /\ record' = [record EXCEPT ![c] = "none"] /\ seen' = [seen EXCEPT ![r] = @ \ {c}]
    BY <1>4 DEF DropExisting
  <2>. QED
    BY <1>4, <2>1, ChildFields DEF DropExisting, Alive
<1>5. ASSUME NEW r \in Runs, StopAll(r) PROVE LastRecords'
  BY <1>5, ChildFields DEF StopAll, StopTimers, Containers, Of
<1>6. ASSUME NEW r \in Runs, DrainContainer(r) PROVE LastRecords'
  <2>1. PICK c \in seen[r] : Mark(c) /\ seen' = [seen EXCEPT ![r] = @ \ {c}]
    BY <1>6 DEF DrainContainer, Foremost
  <2>2. c.run = r
    BY <1>6 DEF DrainContainer, Of
  <2>. QED
    BY <1>6, <2>1, <2>2, ChildFields DEF DrainContainer, Mark
<1>7. ASSUME NEW r \in Runs, DrainTime(r) PROVE LastRecords'
  BY <1>7, ChildFields DEF DrainTime, Quiet, Of, Alive, registry
<1>8. ASSUME NEW r \in Runs, StopOne(r) PROVE LastRecords'
  <2>1. PICK c : /\ record' = [record EXCEPT ![c] = "none"] /\ seen' = [seen EXCEPT ![r] = @ \ {c}]
    BY <1>8 DEF StopOne
  <2>. QED
    BY <1>8, <2>1, ChildFields DEF StopOne, Alive
<1>9. ASSUME NEW r \in Runs, Stopped(r) PROVE LastRecords'
  BY <1>9, ChildFields DEF Stopped, registry
<1>10. ASSUME NEW r \in Runs, Crash(r) PROVE LastRecords'
  BY <1>10, ChildFields DEF Crash, StopTimers, Of
<1>11. ASSUME NEW c \in Child, Bind(c) \/ Die(c) \/ StopKill(c) PROVE LastRecords'
  BY <1>11 DEF Bind, Die, StopKill, runs, registry
<1>12. ASSUME NEW c \in Child, Exit(c) PROVE LastRecords'
  <2>1. UNCHANGED <<pc, seen, stop, mode>> /\ beating' \subseteq beating
    BY <1>12 DEF Exit, Silence, runs
  <2>2. CASE record' = [record EXCEPT ![c] = "none"] /\ UNCHANGED pending
    BY <2>1, <2>2 DEF Alive
  <2>3. CASE mode # "podman" /\ UNCHANGED record /\ \A d \in Child : d # c => pending'[d] = pending[d]
    BY <2>1, <2>3, ChildFields DEF PodmanStops
  <2>. QED
    BY <1>12, <2>2, <2>3 DEF Exit
<1>13. ASSUME NEW c \in Child, Beat(c) PROVE LastRecords'
  BY <1>13 DEF Beat, runs
<1>14. ASSUME NEW c \in Child, NEW s \in Alive, Store(c, s) PROVE LastRecords'
  BY <1>14 DEF Store, runs
<1>15. CASE Expire
  BY <1>15 DEF Expire, Unattended, Alive, runs
<1>16. CASE StopList
  <2>1. stop.now = {} /\ stop'.now = {}
    BY <1>16 DEF StopList, PodmanStops
  <2>. QED
    BY <1>16, <2>1 DEF StopList, runs, registry
<1>17. CASE StopMark
  <2>1. UNCHANGED <<mode, pc, seen, record, beating>>
    BY <1>17 DEF StopMark, runs
  <2>2. CASE stop'.now = stop.now /\ UNCHANGED pending
    BY <2>1, <2>2
  <2>3. ASSUME NEW c \in Child, mode = "podman" => stop.now = {}, Mark(c),
               stop'.now = IF mode = "podman" THEN {c} ELSE {}
        PROVE  LastRecords'
    <3>1. CASE mode = "podman"
      <4>1. stop.now = {} /\ stop'.now = {c}
        BY <2>3, <3>1
      <4>2. \A d \in Child : pending'[d] = pending[d] \/ (d = c /\ pending'[d] \subseteq pending[d] \cup {"draining"})
        BY <2>3 DEF Mark
      <4>. QED
        BY <2>1, <4>1, <4>2 DEF Of
    <3>2. CASE mode # "podman"
      <4>1. \A q \in Runs : pc'[q] \notin Final
        BY <2>1, <3>2 DEF PodmanStops, Final
      <4>. QED
        BY <2>1, <2>3, <3>2, <4>1, ChildFields DEF Final
    <3>. QED
      BY <3>1, <3>2
  <2>4. \/ stop.now = {} /\ stop'.now = {} /\ UNCHANGED pending
        \/ \E c \in Child : /\ mode = "podman" => stop.now = {}
                            /\ Mark(c) /\ stop'.now = IF mode = "podman" THEN {c} ELSE {}
    <3>1. CASE \E c \in Foremost(stop.todo) :
                 /\ mode = "podman" => stop.now = {}
                 /\ Mark(c)
                 /\ stop' = [stop EXCEPT !.todo = @ \ {c}, !.now = IF mode = "podman" THEN {c} ELSE {}]
      <4>1. PICK c \in Child :
                 /\ mode = "podman" => stop.now = {}
                 /\ Mark(c)
                 /\ stop' = [stop EXCEPT !.todo = @ \ {c}, !.now = IF mode = "podman" THEN {c} ELSE {}]
        BY <3>1 DEF Foremost, Stops
      <4>2. stop'.now = IF mode = "podman" THEN {c} ELSE {}
        BY <4>1 DEF Stops
      <4>. QED
        BY <4>1, <4>2
    <3>2. CASE /\ stop.todo = {} /\ stop.now = {}
               /\ stop' = [stop EXCEPT !.at = IF mode = "process" THEN "kill" ELSE "done", !.todo = stop.targets]
               /\ UNCHANGED pending
      BY <3>2 DEF Stops
    <3>. QED
      BY <1>17, <3>1, <3>2 DEF StopMark
  <2>. QED
    BY <2>2, <2>3, <2>4
<1>18. ASSUME NEW c \in Child, StopForget(c) PROVE LastRecords'
  <2>1. stop'.now = stop.now
    BY <1>18 DEF StopForget, Stops
  <2>. QED
    BY <1>18, <2>1 DEF StopForget, Alive, runs
<1>19. ASSUME NEW c \in Child, StopContainer(c) PROVE LastRecords'
  <2>1. stop'.now = {} /\ stop.now = {c}
    BY <1>19 DEF StopContainer, Stops
  <2>2. \A d \in Child : "draining" \notin pending[d]
    BY <1>19 DEF StopContainer, Marking
  <2>. QED
    BY <1>19, <2>1, <2>2 DEF StopContainer, Alive, runs
<1>20. CASE UNCHANGED vars
  BY <1>20 DEF vars, runs, registry
<1>. QED
  BY <1>1, <1>2, <1>3, <1>4, <1>5, <1>6, <1>7, <1>8, <1>9, <1>10, <1>11, <1>12, <1>13, <1>14, <1>15, <1>16,
     <1>17, <1>18, <1>19, <1>20
     DEF Next, Launching, Stopping, Command

LEMMA NothingListed == TypeOK /\ PodmanStops /\ LastRecords => StopAllIsClean
BY ChildFields DEF TypeOK, PodmanStops, LastRecords, StopAllIsClean, Of

EndInv == RedisInv /\ RealtimeHasRedis /\ TakeOverInv /\ LastRecords

(* Once a run of process mode has reconciled, no instance of another run that *)
(* it found up on its list is up any more, whichever runs launch, reconcile  *)
(* or are killed beside it (reconcilePreexistingInstances); and stopAll of   *)
(* podman mode leaves no record, however many heartbeats had read theirs     *)
(* before, unless a `mesh stop' is still at it (PodmanSupervisor.stopAll).   *)
(* The first rests on what has been down once staying down, the second on    *)
(* the sleep between marks and stops, in which the stores of the heartbeats  *)
(* arrive.  An instance that had not bound its port by then is not meant.    *)
THEOREM LeavesNothing == Spec => []NothingLeftBehind
<1>1. Init => EndInv
  BY ChildFields DEF Init, EndInv, RedisInv, RealtimeHasRedis, Asking, TakeOverInv, PodmanStops, FoundUp,
     ToTakeOver, TakenOver, LastRecords
<1>2. TypeOK /\ RecordsInv /\ PortsInv /\ EndInv /\ [Next]_vars => EndInv'
  BY RedisStep, PodmanStopsStep, FoundStep, ToTakeOverStep, TakenOverStep, LastRecordsStep
     DEF PortsInv, EndInv, TakeOverInv
<1>3. TypeOK /\ EndInv => NothingLeftBehind
  BY NothingListed DEF EndInv, TakeOverInv, NothingLeftBehind
<1>. QED
  BY <1>1, <1>2, <1>3, BaseInit, BaseStep, PTL DEF Spec
================================================================================
