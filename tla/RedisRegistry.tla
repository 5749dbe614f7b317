---------------------------- MODULE RedisRegistry -----------------------------
(***************************************************************************)
(* RedisMeshRegistry with the nodes that register in it (MeshNode and its   *)
(* HeartbeatLoop) and the routers that list it.                             *)
(*                                                                         *)
(* An action is one command as Redis executes it, with what its caller does *)
(* until its next command.  Every command has a connection of its own, so   *)
(* commands of one process in flight together run in any order, and those   *)
(* of different processes interleave freely.  A process that dies leaves    *)
(* the command it has sent, which may still run.  Signatures are left out:  *)
(* all parties share the secret.                                            *)
(***************************************************************************)
EXTENDS FiniteSets

CONSTANTS
  Nodes,    \* instance ids, each used by one MeshNode at a time
  Beats,    \* heartbeats of a node that may be in flight together
  Listers,  \* routers and tools that call list
  Late      \* nodes whose heartbeats may all fail for a whole ttl

ASSUME LateAssumption == Late \subseteq Nodes

VARIABLES
  index,      \* the set of registered ids
  record,     \* the status in the key of each id; "none" when there is no key
  node,       \* the command of its life cycle each node waits for
  beat,       \* what each heartbeat waits for: its GET, or a SET of this status
  list,       \* the ids each lister has yet to read, and those it misses
  overtaken   \* auxiliary: nodes that drained while a beat was to SET "running"

vars == <<index, record, node, beat, list, overtaken>>

(* A lister that has nothing to read or remove: no list is in progress.      *)
Idle == [todo |-> {}, missing |-> {}]

Init ==
  /\ index = {}
  /\ record = [n \in Nodes |-> "none"]
  /\ node = [n \in Nodes |-> "off"]
  /\ beat = [n \in Nodes |-> [b \in Beats |-> "none"]]
  /\ list = [l \in Listers |-> Idle]
  /\ overtaken = {}

Goes(n, from, to) ==
  /\ node[n] = from
  /\ node' = [node EXCEPT ![n] = to]

Store(n, status) == record' = [record EXCEPT ![n] = status]

-------------------------------------------------------------------------------
(* MeshNode.start, drain and stop *)

(* The process starts, perhaps not for the first time.                       *)
Start(n) ==
  /\ node[n] \in {"off", "stopped", "crashed"}
  /\ node' = [node EXCEPT ![n] = "SADD"]
  /\ overtaken' = overtaken \ {n}
  /\ UNCHANGED <<index, record, beat, list>>

RegisterAdd(n) ==
  /\ Goes(n, "SADD", "SET")
  /\ index' = index \cup {n}
  /\ UNCHANGED <<record, beat, list, overtaken>>

(* The record is stored and heartbeats begin.                                *)
RegisterSet(n) ==
  /\ Goes(n, "SET", "up")
  /\ Store(n, "running")
  /\ UNCHANGED <<index, beat, list, overtaken>>

Drain(n) ==
  /\ Goes(n, "up", "drainGet")
  /\ UNCHANGED <<index, record, beat, list, overtaken>>

(* The drain is over; a heartbeat that read the record before may be about   *)
(* to write it back.                                                         *)
Drained(n) ==
  overtaken' = IF \E b \in Beats : beat[n][b] = "running"
               THEN overtaken \cup {n} ELSE overtaken \ {n}

(* markDraining gets the record and leaves the rest to heartbeat, which gets *)
(* it again; a record that is gone is not drained.                           *)
DrainGet(n) ==
  \/ /\ record[n] # "none"
     /\ Goes(n, "drainGet", "drainGetAgain") \/ Goes(n, "drainGetAgain", "drainSet")
     /\ UNCHANGED <<index, record, beat, list, overtaken>>
  \/ /\ record[n] = "none"
     /\ Goes(n, "drainGet", "drained") \/ Goes(n, "drainGetAgain", "drained")
     /\ Drained(n)
     /\ UNCHANGED <<index, record, beat, list>>

DrainSet(n) ==
  /\ Goes(n, "drainSet", "drained")
  /\ Store(n, "draining")
  /\ Drained(n)
  /\ UNCHANGED <<index, beat, list>>

(* A command of the drain fails.                                             *)
DrainFails(n) ==
  /\ node[n] \in {"drainGet", "drainGetAgain", "drainSet"}
  /\ node' = [node EXCEPT ![n] = "up"]
  /\ UNCHANGED <<index, record, beat, list, overtaken>>

(* Heartbeats stop being sent; those in flight go on.                        *)
Stop(n) ==
  /\ Goes(n, "up", "DEL") \/ Goes(n, "drained", "DEL")
  /\ UNCHANGED <<index, record, beat, list, overtaken>>

UnregisterDelete(n) ==
  /\ Goes(n, "DEL", "SREM")
  /\ Store(n, "none")
  /\ UNCHANGED <<index, beat, list, overtaken>>

UnregisterRemove(n) ==
  /\ Goes(n, "SREM", "stopped")
  /\ index' = index \ {n}
  /\ UNCHANGED <<record, beat, list, overtaken>>

(* The process dies, or gives up when its start or stop fails.               *)
Crash(n) ==
  /\ node[n] \notin {"off", "stopped", "crashed"}
  /\ node' = [node EXCEPT ![n] = "crashed"]
  /\ beat' = [beat EXCEPT ![n] = [b \in Beats |-> IF @[b] = "GET" THEN "none" ELSE @[b]]]
  /\ UNCHANGED <<index, record, list, overtaken>>

-------------------------------------------------------------------------------
(* HeartbeatLoop *)

Beating(n) == node[n] \in {"up", "drainGet", "drainGetAgain", "drainSet", "drained"}

BeatBecomes(n, b, from, to) ==
  /\ beat[n][b] = from
  /\ beat' = [beat EXCEPT ![n][b] = to]

BeatSend(n, b) ==
  /\ Beating(n)
  /\ BeatBecomes(n, b, "none", "GET")
  /\ UNCHANGED <<index, record, node, list, overtaken>>

(* Mutant of BeatGet: what was read is not looked at but for being there.    *)
BeatGetRefreshed(n, b) ==
  /\ BeatBecomes(n, b, "GET", IF record[n] = "none" THEN "none" ELSE "running")
  /\ UNCHANGED <<index, record, node, list, overtaken>>

(* The record as read will be written back; without one the beat is over.    *)
BeatGet(n, b) ==
  /\ BeatBecomes(n, b, "GET", record[n])
  /\ UNCHANGED <<index, record, node, list, overtaken>>

(* Mutant of BeatSet: the heartbeat also renews the index entry.             *)
BeatSetIndexed(n, b) ==
  /\ beat[n][b] \in {"running", "draining"}
  /\ Store(n, beat[n][b])
  /\ index' = index \cup {n}
  /\ BeatBecomes(n, b, beat[n][b], "none")
  /\ UNCHANGED <<node, list, overtaken>>

BeatSet(n, b) ==
  /\ beat[n][b] \in {"running", "draining"}
  /\ Store(n, beat[n][b])
  /\ BeatBecomes(n, b, beat[n][b], "none")
  /\ UNCHANGED <<index, node, list, overtaken>>

BeatFails(n, b) ==
  /\ beat[n][b] # "none"
  /\ BeatBecomes(n, b, beat[n][b], "none")
  /\ UNCHANGED <<index, record, node, list, overtaken>>

(* The key of an instance that nobody has written for its ttl is dropped.    *)
Expire(n) ==
  /\ record[n] # "none"
  /\ ~ Beating(n) \/ n \in Late
  /\ Store(n, "none")
  /\ UNCHANGED <<index, node, beat, list, overtaken>>

-------------------------------------------------------------------------------
(* RedisMeshRegistry.list *)

ListBegin(l) ==
  /\ list[l] = Idle
  /\ index # {}
  /\ list' = [list EXCEPT ![l] = [todo |-> index, missing |-> {}]]
  /\ UNCHANGED <<index, record, node, beat, overtaken>>

(* Mutant of ListGet: an instance that is not running counts as missing.     *)
ListGetRunning(l, n) ==
  /\ n \in list[l].todo
  /\ list' = [list EXCEPT ![l] =
       [todo |-> @.todo \ {n},
        missing |-> IF record[n] = "running" THEN @.missing ELSE @.missing \cup {n}]]
  /\ UNCHANGED <<index, record, node, beat, overtaken>>

(* The records are read in parallel, in any order.                           *)
ListGet(l, n) ==
  /\ n \in list[l].todo
  /\ list' = [list EXCEPT ![l] =
       [todo |-> @.todo \ {n},
        missing |-> IF record[n] = "none" THEN @.missing \cup {n} ELSE @.missing]]
  /\ UNCHANGED <<index, record, node, beat, overtaken>>

Removing(l) == list[l].todo = {} /\ list[l].missing # {}

(* Mutant of ListRemove: list leaves the index alone.                        *)
ListLeavesIndex(l) ==
  /\ Removing(l)
  /\ list' = [list EXCEPT ![l] = Idle]
  /\ UNCHANGED <<index, record, node, beat, overtaken>>

(* All are read: what was missing is removed from the index.                 *)
ListRemove(l) ==
  /\ Removing(l)
  /\ index' = index \ list[l].missing
  /\ list' = [list EXCEPT ![l] = Idle]
  /\ UNCHANGED <<record, node, beat, overtaken>>

-------------------------------------------------------------------------------
LifeCycle(n) ==
  \/ RegisterAdd(n) \/ RegisterSet(n)
  \/ DrainGet(n) \/ DrainSet(n)
  \/ UnregisterDelete(n) \/ UnregisterRemove(n)

Listing(l) == ListBegin(l) \/ ListRemove(l) \/ \E n \in Nodes : ListGet(l, n)

Next ==
  \/ \E n \in Nodes :
       \/ Start(n) \/ Drain(n) \/ Stop(n) \/ Crash(n)
       \/ LifeCycle(n) \/ DrainFails(n) \/ Expire(n)
       \/ \E b \in Beats : BeatSend(n, b) \/ BeatGet(n, b) \/ BeatSet(n, b) \/ BeatFails(n, b)
  \/ \E l \in Listers : Listing(l)

Spec == Init /\ [][Next]_vars

(* Commands that were sent run, heartbeats are sent again and again, keys of *)
(* nodes that do not beat expire, and routers list for every request.        *)
Fairness ==
  /\ \A n \in Nodes :
       /\ WF_vars(LifeCycle(n))
       /\ WF_vars(~ Beating(n) /\ Expire(n))
       /\ \A b \in Beats :
            WF_vars(BeatSend(n, b)) /\ WF_vars(BeatGet(n, b) \/ BeatSet(n, b))
  /\ \A l \in Listers : WF_vars(Listing(l))

FairSpec == Spec /\ Fairness

-------------------------------------------------------------------------------
(* Properties *)

(* The type invariant. *)
TypeOK ==
  /\ index \subseteq Nodes
  /\ record \in [Nodes -> {"none", "running", "draining"}]
  /\ node \in [Nodes -> {"off", "SADD", "SET", "up", "drainGet", "drainGetAgain", "drainSet",
                         "drained", "DEL", "SREM", "stopped", "crashed"}]
  /\ beat \in [Nodes -> [Beats -> {"none", "GET", "running", "draining"}]]
  /\ list \in [Listers -> [todo : SUBSET Nodes, missing : SUBSET Nodes]]
  /\ overtaken \subseteq Nodes

(* MeshNode.stop: an instance that stopped is out of the index, and none of  *)
(* its heartbeats, which may still be in flight, brings it back.             *)
StoppedIsUnlisted == \A n \in Nodes : node[n] = "stopped" => n \notin index

(* A drain sticks: unless a heartbeat had read the record before the drain   *)
(* wrote it, no heartbeat, failure or expiry makes the instance routable     *)
(* again.                                                                    *)
DrainHolds ==
  \A n \in Nodes : node[n] = "drained" /\ n \notin overtaken => record[n] # "running"

(* A live instance is known, and once it is listed and no list in progress   *)
(* has missed it, no later list takes it for gone.                           *)
Established(n) ==
  /\ Beating(n) /\ n \notin Late
  /\ record[n] # "none" /\ n \in index
  /\ \A l \in Listers : n \notin list[l].missing

ListedStaysListed ==
  [][\A n \in Nodes : Established(n) /\ Beating(n)' => Established(n)']_vars

(* An instance that crashed or stopped is forgotten unless it starts again:  *)
(* its key expires and a list drops its index entry.                         *)
GoneIsForgotten ==
  \A n \in Nodes :
    node[n] \in {"stopped", "crashed"}
    ~> node[n] \notin {"stopped", "crashed"} \/ (n \notin index /\ record[n] = "none")
===============================================================================
