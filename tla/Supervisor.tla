------------------------------ MODULE Supervisor ------------------------------
(***************************************************************************)
(* MeshProcessSupervisor with the file registry: children are spawned and   *)
(* registered one after the other, heartbeats keep their records fresh, an  *)
(* exit handler follows each child, and stopAll drains, terminates, kills   *)
(* and unregisters them.                                                    *)
(*                                                                         *)
(* The registry gets a record by reading the state file at once and changes *)
(* it by a mutation that waits in the queue of the supervisor's own state   *)
(* store (see StateStore), so that the record written back may be older     *)
(* than the one it replaces.  An action is one turn of the event loop, one  *)
(* mutation, or something that happens to a child.  File accesses end       *)
(* before the sleeps and the ttl that begin before them do; nothing else is *)
(* assumed of time.  What earlier runs left behind, and failing file        *)
(* accesses, are left out.                                                  *)
(***************************************************************************)
EXTENDS Naturals, Sequences

CONSTANTS
  Children,  \* the instances to start, the router included
  Beats,     \* heartbeats of a child that may be in flight together
  NoChild    \* the child stopAll drains while it drains none

Others == {"register", "exit", "drain", "stop"}

ASSUME NamesAssumption ==
  /\ NoChild \notin Children
  /\ Beats \cap Others = {}

VARIABLES
  record,    \* the status in the record of each child; "none" without one
  fresh,     \* the children whose record has not expired
  mutations, \* those the store has yet to run, in order
  proc,      \* the child processes
  managed,   \* the children whose registration is complete
  beating,   \* the children whose heartbeat timer runs
  beat,      \* what each heartbeat is to do: read ("get"), write the status it
             \* has read, or wait for that write ("set")
  handler,   \* what the exit handler of each child does next
  main,      \* where run and stopAll are
  todo,      \* the children the loop of stopAll has yet to come to
  at,        \* the child it drains
  stopping   \* the children stopAll stops

vars == <<record, fresh, mutations, proc, managed, beating, beat, handler, main, todo, at, stopping>>

registry == <<record, fresh>>
stop == <<main, todo, at, stopping>>

Init ==
  /\ record = [c \in Children |-> "none"]
  /\ fresh = {}
  /\ mutations = <<>>
  /\ proc = [c \in Children |-> "none"]
  /\ managed = {}
  /\ beating = {}
  /\ beat = [c \in Children |-> [b \in Beats |-> "none"]]
  /\ handler = [c \in Children |-> "none"]
  /\ main = "running"
  /\ todo = {}
  /\ at = NoChild
  /\ stopping = {}

-------------------------------------------------------------------------------
(* FileMeshRegistry *)

(* A mutation writes the record of a child, or removes it (status "none"),   *)
(* for a heartbeat or one of the Others.                                     *)
Enqueue(c, status, by) == mutations' = Append(mutations, [child |-> c, status |-> status, by |-> by])

(* run and stopAll go on when the mutation they wait for has run.            *)
Answered == \A k \in 1 .. Len(mutations) : mutations[k].by \notin {"register", "drain", "stop"}

(* Registrations and heartbeats set a new expiry, a drain keeps the old one. *)
Mutate ==
  /\ mutations # <<>>
  /\ LET m == Head(mutations) IN
       /\ record' = [record EXCEPT ![m.child] = m.status]
       /\ fresh' = CASE m.status = "none" -> fresh \ {m.child}
                     [] m.by = "drain" -> fresh
                     [] OTHER -> fresh \cup {m.child}
       /\ beat' = IF m.by \in Beats THEN [beat EXCEPT ![m.child][m.by] = "none"] ELSE beat
  /\ mutations' = Tail(mutations)
  /\ UNCHANGED <<proc, managed, beating, handler>> /\ UNCHANGED stop

InFlight(c) ==
  \/ \E b \in Beats : beat[c][b] # "none"
  \/ \E k \in 1 .. Len(mutations) : mutations[k].child = c

Expire(c) ==
  /\ c \in fresh
  /\ c \notin beating /\ ~ InFlight(c)
  /\ fresh' = fresh \ {c}
  /\ UNCHANGED <<record, mutations, proc, managed, beating, beat, handler>> /\ UNCHANGED stop

-------------------------------------------------------------------------------
(* run *)

Spawn(c) ==
  /\ main = "running"
  /\ proc[c] = "none"
  /\ \A d \in Children : proc[d] # "none" => d \in managed
  /\ proc' = [proc EXCEPT ![c] = "alive"]
  /\ Enqueue(c, "running", "register")
  /\ UNCHANGED <<managed, beating, beat, handler>> /\ UNCHANGED registry /\ UNCHANGED stop

(* The registration is answered and its event published: heartbeats begin    *)
(* and the exit handler is bound, whether the child is alive or not.         *)
Manage(c) ==
  /\ proc[c] # "none" /\ c \notin managed
  /\ Answered
  /\ managed' = managed \cup {c}
  /\ beating' = beating \cup {c}
  /\ UNCHANGED <<mutations, proc, beat, handler>> /\ UNCHANGED registry /\ UNCHANGED stop

-------------------------------------------------------------------------------
(* HeartbeatLoop *)

BeatBecomes(c, b, from, to) ==
  /\ beat[c][b] = from
  /\ beat' = [beat EXCEPT ![c][b] = to]

BeatSend(c, b) ==
  /\ c \in beating
  /\ BeatBecomes(c, b, "none", "get")
  /\ UNCHANGED <<mutations, proc, managed, beating, handler>> /\ UNCHANGED registry /\ UNCHANGED stop

(* The record as read will be written back; without one the beat is over.    *)
BeatGet(c, b) ==
  /\ BeatBecomes(c, b, "get", record[c])
  /\ UNCHANGED <<mutations, proc, managed, beating, handler>> /\ UNCHANGED registry /\ UNCHANGED stop

BeatSet(c, b) ==
  /\ beat[c][b] \notin {"none", "get", "set"}
  /\ BeatBecomes(c, b, beat[c][b], "set")
  /\ Enqueue(c, beat[c][b], b)
  /\ UNCHANGED <<proc, managed, beating, handler>> /\ UNCHANGED registry /\ UNCHANGED stop

-------------------------------------------------------------------------------
(* bindExit *)

(* Mutant of HeartbeatsStop: the heartbeat of a child outlives it.           *)
HeartbeatsGoOn(c) == UNCHANGED beating

HeartbeatsStop(c) == beating' = beating \ {c}

(* A child exits.  Its handler, if it is bound by now, takes a child that    *)
(* exits on its own with an error for failed, any other for stopped.         *)
Exit(c) ==
  /\ proc[c] = "alive"
  /\ proc' = [proc EXCEPT ![c] = "exited"]
  /\ \/ /\ c \in managed
        /\ HeartbeatsStop(c)
        /\ \/ handler' = [handler EXCEPT ![c] = "unregister"]
           \/ main = "running" /\ handler' = [handler EXCEPT ![c] = "failGet"]
     \/ /\ c \notin managed
        /\ UNCHANGED <<beating, handler>>
  /\ UNCHANGED <<mutations, managed, beat>> /\ UNCHANGED registry /\ UNCHANGED stop

Handles(c, from, to) ==
  /\ handler[c] = from
  /\ handler' = [handler EXCEPT ![c] = to]

ExitUnregister(c) ==
  /\ Handles(c, "unregister", "done")
  /\ Enqueue(c, "none", "exit")
  /\ UNCHANGED <<proc, managed, beating, beat>> /\ UNCHANGED registry /\ UNCHANGED stop

ExitFailGet(c) ==
  /\ Handles(c, "failGet", IF record[c] = "none" THEN "done" ELSE "failSet")
  /\ UNCHANGED <<mutations, proc, managed, beating, beat>> /\ UNCHANGED registry /\ UNCHANGED stop

ExitFailSet(c) ==
  /\ Handles(c, "failSet", "done")
  /\ Enqueue(c, "failed", "exit")
  /\ UNCHANGED <<proc, managed, beating, beat>> /\ UNCHANGED registry /\ UNCHANGED stop

-------------------------------------------------------------------------------
(* stopAll *)

(* A signal arrives: handlers for it are installed when run has started all. *)
StopAll ==
  /\ main = "running"
  /\ managed = Children
  /\ main' = "draining"
  /\ stopping' = {c \in Children : handler[c] = "none"}
  /\ todo' = stopping'
  /\ UNCHANGED <<mutations, proc, managed, beating, beat, handler, at>> /\ UNCHANGED registry

DrainBegin(c) ==
  /\ main = "draining" /\ at = NoChild /\ Answered
  /\ c \in todo
  /\ HeartbeatsStop(c)
  /\ main' = "drainGet"
  /\ todo' = todo \ {c}
  /\ at' = c
  /\ UNCHANGED <<mutations, proc, managed, beat, handler, stopping>> /\ UNCHANGED registry

DrainGet ==
  /\ main = "drainGet"
  /\ \/ /\ record[at] # "none"
        /\ main' = "drainSet"
        /\ UNCHANGED at
     \/ /\ record[at] = "none"
        /\ main' = "draining"
        /\ at' = NoChild
  /\ UNCHANGED <<mutations, proc, managed, beating, beat, handler, todo, stopping>>
  /\ UNCHANGED registry

DrainSet ==
  /\ main = "drainSet"
  /\ Enqueue(at, "draining", "drain")
  /\ main' = "draining"
  /\ at' = NoChild
  /\ UNCHANGED <<proc, managed, beating, beat, handler, todo, stopping>> /\ UNCHANGED registry

MainBecomes(from, to) ==
  /\ main = from
  /\ main' = to
  /\ UNCHANGED <<mutations, proc, managed, beating, beat, handler, at, stopping>>
  /\ UNCHANGED registry

(* All are drained and the sleep that follows, longer than any file access,  *)
(* is over: who is alive gets SIGTERM.                                       *)
Terminate ==
  /\ at = NoChild /\ todo = {} /\ Answered
  /\ \A c \in stopping : \A b \in Beats : beat[c][b] = "none"
  /\ MainBecomes("draining", "waiting")
  /\ UNCHANGED todo

AllExited == \A c \in stopping : proc[c] = "exited"

(* Mutant of Kill: waitForChildren has no timeout.                           *)
KillOnceExited ==
  /\ AllExited
  /\ MainBecomes("waiting", "killing")
  /\ UNCHANGED todo

(* waitForChildren timed out: who is alive gets SIGKILL.                     *)
Kill ==
  /\ ~ AllExited
  /\ MainBecomes("waiting", "killing")
  /\ UNCHANGED todo

(* All have exited, or were killed and the second wait timed out.            *)
WaitIsOver ==
  /\ \/ MainBecomes("waiting", "unregistering") /\ AllExited
     \/ MainBecomes("killing", "unregistering")
  /\ todo' = stopping

(* Mutant of Unregister: children that have exited are left to their handler. *)
UnregisterAlive(c) ==
  /\ main = "unregistering" /\ Answered
  /\ c \in todo
  /\ todo' = todo \ {c}
  /\ IF proc[c] = "alive" THEN Enqueue(c, "none", "stop") ELSE UNCHANGED mutations
  /\ UNCHANGED <<proc, managed, beating, beat, handler, main, at, stopping>>
  /\ UNCHANGED registry

Unregister(c) ==
  /\ main = "unregistering" /\ Answered
  /\ c \in todo
  /\ todo' = todo \ {c}
  /\ Enqueue(c, "none", "stop")
  /\ UNCHANGED <<proc, managed, beating, beat, handler, main, at, stopping>>
  /\ UNCHANGED registry

Stopped ==
  /\ todo = {} /\ Answered
  /\ MainBecomes("unregistering", "stopped")
  /\ UNCHANGED todo

-------------------------------------------------------------------------------
Handler(c) == ExitUnregister(c) \/ ExitFailGet(c) \/ ExitFailSet(c)

Stopping ==
  \/ \E c \in Children : DrainBegin(c) \/ Unregister(c)
  \/ DrainGet \/ DrainSet \/ Terminate \/ Kill \/ WaitIsOver \/ Stopped

Next ==
  \/ Mutate
  \/ \E c \in Children :
       \/ Spawn(c) \/ Manage(c) \/ Exit(c) \/ Handler(c) \/ Expire(c)
       \/ \E b \in Beats : BeatSend(c, b) \/ BeatGet(c, b) \/ BeatSet(c, b)
  \/ StopAll
  \/ Stopping

Spec == Init /\ [][Next]_vars

(* The event loop runs every continuation, file accesses and sleeps end,     *)
(* heartbeats are sent again and again, and records that are not touched     *)
(* expire.  No child has to exit and nobody has to stop the mesh.            *)
Fairness ==
  /\ WF_vars(Mutate)
  /\ WF_vars(Stopping)
  /\ \A c \in Children :
       /\ WF_vars(Manage(c)) /\ WF_vars(Handler(c)) /\ WF_vars(Expire(c))
       /\ \A b \in Beats : WF_vars(BeatSend(c, b) \/ BeatGet(c, b) \/ BeatSet(c, b))

FairSpec == Spec /\ Fairness

-------------------------------------------------------------------------------
(* Properties *)

Statuses == {"none", "running", "draining", "failed"}

(* The type invariant. *)
TypeOK ==
  /\ record \in [Children -> Statuses]
  /\ fresh \subseteq Children
  /\ mutations \in Seq([child : Children, status : Statuses,
                    by : Beats \cup Others])
  /\ proc \in [Children -> {"none", "alive", "exited"}]
  /\ managed \subseteq Children
  /\ beating \subseteq managed
  /\ beat \in [Children -> [Beats -> Statuses \cup {"get", "set"}]]
  /\ handler \in [Children -> {"none", "unregister", "failGet", "failSet", "done"}]
  /\ main \in {"running", "draining", "drainGet", "drainSet", "waiting", "killing",
               "unregistering", "stopped"}
  /\ todo \subseteq stopping
  /\ at \in Children \cup {NoChild}
  /\ stopping \subseteq Children

Routable(c) == record[c] = "running" /\ c \in fresh

(* stopAll: when it is over none of the children it stopped has a record,    *)
(* and none of their heartbeats, drains or exit handlers brings one back.    *)
StopIsClean == TypeOK /\ (main = "stopped" => \A c \in stopping : record[c] = "none")

(* A child whose exit was noticed is not routed to for good: whatever the    *)
(* heartbeats in flight when it exited write back after its exit handler     *)
(* expires.                                                                  *)
DeadIsForgotten == \A c \in Children : handler[c] # "none" ~> [](~ Routable(c))

(* stopAll comes to an end, even if a child ignores every signal.            *)
StopEnds == main = "draining" ~> main = "stopped"
===============================================================================
