-------------------------------- MODULE Streams --------------------------------
(***************************************************************************)
(* Streams: what a MeshNode publishes and what subscribers get of it, in    *)
(* memory (MemoryMeshStream) and over Redis (RedisMeshStream and its        *)
(* RedisPubSubConnection); and subscriptions through RedisMeshEventBus.     *)
(*                                                                         *)
(* A node is used by its application, which starts it, emits events, drains *)
(* and stops it, and by the handler of a signal, which drains and stops it  *)
(* whenever the signal comes.  Each of the two awaits what it calls; neither *)
(* waits for the other, and nobody awaits a chunk of a log.                 *)
(*                                                                         *)
(* In memory a handler is called before publish returns.  Over Redis every  *)
(* PUBLISH has a connection of its own, so that only the answer to one      *)
(* orders it before the next.  A subscription is a socket whose buffer a    *)
(* loop takes messages from, one per turn.                                 *)
(***************************************************************************)
EXTENDS Naturals, SequencesExt

CONSTANTS
  Backends,     \* the values of streaming.backend to look at, "none" if it is off
  Subscribers,
  Wants,        \* the types and kinds each subscriber asks for
  Kinds,        \* the kinds it lets through, all if none
  ByBus,        \* the subscribers that use RedisMeshEventBus
  Throwing,     \* the subscribers whose handler may throw
  Leaving,      \* the subscribers that may unsubscribe
  Subscribing,  \* bound: how many of them subscribe, by backend
  AppCalls,     \* bound: what the application publishes
  Logs,         \* bound: chunks logged
  Losses        \* bound: PUBLISH commands that fail

ASSUME SubscribersAssumption ==
  /\ ByBus \cup Throwing \cup Leaving \subseteq Subscribers
  /\ Wants \in [Subscribers -> SUBSET {"*", "mesh.log", "log", "event", "lifecycle", "job", "stopped"}]
  /\ Kinds \in [Subscribers -> SUBSET {"log", "event", "lifecycle"}]
  /\ \A s \in ByBus : Kinds[s] = {"event"}
  /\ Subscribing \in [Backends -> Nat]
  /\ AppCalls \in Nat /\ Logs \in Nat /\ Losses \in Nat

\* Those that await what they publish, and the chunks of a log.
Callers == {"app", "signal"}
Publishers == Callers \cup {"logs"}

Types == {"started", "job", "draining", "stopped", "mesh.log"}
KindOf(m) ==
  IF m.type = "mesh.log" THEN "log" ELSE IF m.type = "job" THEN "event" ELSE "lifecycle"

VARIABLES
  backend,
  record,     \* whether the node has its record
  signal,     \* how far the handler of a signal is
  sent,       \* how much each publisher has published
  flying,     \* the messages on their way to Redis
  failed,     \* those whose PUBLISH has failed, executed or not
  sub,        \* each subscription
  told,       \* the subscribers Redis sends messages to
  inbox,      \* the messages in the buffer of each socket
  reading,    \* what the read loop of each does
  got,        \* the messages each handler was called with
  off,        \* the subscribers that have unsubscribed
  late        \* how many messages they were called with since

publishing == <<record, signal, sent>>
channel == <<flying, failed>>
subs == <<sub, told, inbox, reading, off, late, got>>
vars == <<backend, publishing, channel, subs>>

\* The n-th that a publisher publishes.
Message(type, by, n) == [type |-> type, by |-> by, n |-> n]

Init ==
  /\ backend \in Backends
  /\ record = FALSE /\ signal = "none" /\ sent = [p \in Publishers |-> 0]
  /\ flying = {} /\ failed = {}
  /\ sub = [s \in Subscribers |-> "none"]
  /\ told = {}
  /\ inbox = [s \in Subscribers |-> <<>>]
  /\ reading = [s \in Subscribers |-> "none"]
  /\ got = [s \in Subscribers |-> <<>>]
  /\ off = {}
  /\ late = [s \in Subscribers |-> 0]

-----------------------------------------------------------------------------
(* Publishing: MemoryMeshStream, RedisMeshStream and MeshNode              *)

\* The filters of StreamCommand, and the event bus's: events only.
Matches(s, m) == Kinds[s] = {} \/ KindOf(m) \in Kinds[s]

\* RedisMeshStream compares type and kind.
Wanted(s, m) == Matches(s, m) /\ ({"*", m.type, KindOf(m)} \cap Wants[s] # {} \/ Wants[s] = {})

\* MemoryMeshStream emits the type, then "*": a subscriber to both is called
\* twice, and kinds are not known.
Calls(s, m) ==
  IF sub[s] # "ready" \/ ~Matches(s, m) THEN 0
  ELSE Cardinality({m.type, "*"} \cap (IF Wants[s] = {} THEN {"*"} ELSE Wants[s]))

\* A handler that throws ends emit: those after it are not called, and publish
\* rejects.
Emit(m) ==
  \E calls \in [Subscribers -> 0..2] :
    /\ \A s \in Subscribers : calls[s] <= Calls(s, m)
    /\ (\A s \in Subscribers : calls[s] = Calls(s, m)) \/ (\E s \in Throwing : calls[s] > 0)
    /\ got' = [s \in Subscribers |-> got[s] \o [i \in 1..calls[s] |-> m]]

\* The message goes out on its way, or to the handlers at once.
Publish(p, type) ==
  LET m == Message(type, p, sent[p] + 1)
  IN /\ sent' = [sent EXCEPT ![p] = @ + 1]
     /\ IF backend = "memory" THEN Emit(m) ELSE UNCHANGED got
     /\ flying' = IF backend = "redis" THEN flying \cup {m} ELSE flying
     /\ UNCHANGED <<backend, failed, sub, told, inbox, reading, off, late>>

\* Mutant of Awaits: a caller goes on without the answer.
AwaitsNothing(c) == FALSE

\* A caller awaits the PUBLISH it has called, until it is answered or fails.
Awaits(c) == \E m \in flying : m.by = c /\ m \notin failed

\* What the application does next, one call after another.
App(type) ==
  /\ ~Awaits("app") /\ sent["app"] < AppCalls
  /\ Publish("app", type)
  /\ UNCHANGED signal

\* start sets the record and publishes; drain and stop do nothing without one.
NodeStart == ~record /\ App("started") /\ record' = TRUE
NodeEmit == App("job") /\ UNCHANGED record
NodeDrain == record /\ App("draining") /\ UNCHANGED record
NodeStop == record /\ App("stopped") /\ UNCHANGED record

\* gracefulSignalStop: drain, the hooks and stop.
SignalStep(from, to, type) ==
  /\ signal = from /\ ~Awaits("signal")
  /\ signal' = to
  /\ IF record THEN Publish("signal", type) ELSE UNCHANGED <<backend, sent, channel, subs>>
  /\ UNCHANGED record

SignalDrain == SignalStep("none", "drained", "draining")
SignalStop == SignalStep("drained", "stopped", "stopped")

\* log(): nobody awaits it, a chunk of the supervisor's children neither.
NodeLog ==
  /\ sent["logs"] < Logs
  /\ Publish("logs", "mesh.log")
  /\ UNCHANGED <<record, signal>>

\* What comes in after the loop has ended stays in the buffer, unread.
Heard(s) == s \in told /\ reading[s] # "ended"

\* Redis passes a message on to those it sends messages to, and answers.
Arrive(m) ==
  /\ m \in flying
  /\ flying' = flying \ {m}
  /\ inbox' = [s \in Subscribers |-> IF Heard(s) THEN Append(inbox[s], m) ELSE inbox[s]]
  /\ reading' = [s \in Subscribers |-> IF Heard(s) THEN "reads" ELSE reading[s]]
  /\ UNCHANGED <<backend, publishing, failed, sub, told, got, off, late>>

\* The command fails, and its caller goes on: it was not executed, or it is
\* still to be, its connection having failed after it was written.
Lose(m) ==
  /\ m \in flying \ failed /\ Cardinality(failed) < Losses
  /\ failed' = failed \cup {m}
  /\ flying' \in {flying, flying \ {m}}
  /\ UNCHANGED <<backend, publishing, subs>>

-----------------------------------------------------------------------------
(* Subscribing                                                              *)

Subscribe(s) ==
  /\ sub[s] = "none" /\ backend # "none"
  /\ Cardinality({t \in Subscribers : sub[t] # "none"}) < Subscribing[backend]
  /\ sub' = [sub EXCEPT ![s] = IF backend = "memory" THEN "ready" ELSE "connecting"]
  /\ UNCHANGED <<backend, publishing, channel, told, inbox, reading, got, off, late>>

\* The socket connects and SUBSCRIBE is written; subscribe returns before
\* Redis has seen it.
Connected(s) ==
  /\ sub[s] = "connecting"
  /\ \/ sub' = [sub EXCEPT ![s] = "ready"] /\ reading' = [reading EXCEPT ![s] = "waits"]
     \/ sub' = [sub EXCEPT ![s] = "failed"] /\ UNCHANGED reading
  /\ UNCHANGED <<backend, publishing, channel, told, inbox, got, off, late>>

Confirm(s) ==
  /\ backend = "redis" /\ sub[s] = "ready" /\ s \notin told
  /\ told' = told \cup {s}
  /\ UNCHANGED <<backend, publishing, channel, sub, inbox, reading, got, off, late>>

\* The function subscribe has returned; the one `on' has returned does nothing
\* while the subscription is under way.
Unsubscribe(s) ==
  /\ s \in Leaving \ off
  /\ sub[s] = "ready" \/ (s \in ByBus /\ sub[s] = "connecting")
  /\ off' = off \cup {s}
  /\ sub' = [sub EXCEPT ![s] = IF @ = "ready" THEN "closed" ELSE @]
  /\ UNCHANGED <<backend, publishing, channel, told, inbox, reading, got, late>>

\* Redis sees UNSUBSCRIBE, or the end of the socket.
Forget(s) ==
  /\ sub[s] \in {"closed", "broken"} /\ s \in told
  /\ told' = told \ {s}
  /\ UNCHANGED <<backend, publishing, channel, sub, inbox, reading, got, off, late>>

\* Mutant of NextRead: the loop waits for more data after every message.
NextWaits(s, rest) == IF sub[s] # "ready" THEN "ended" ELSE "waits"

\* What the loop does after a message: it ends if the subscription is closed,
\* otherwise it parses what is left and waits only if that is nothing.
NextRead(s, rest) == IF sub[s] # "ready" THEN "ended" ELSE IF rest = <<>> THEN "waits" ELSE "reads"

Rest(s) == Tail(inbox[s])

Handle(s, m) ==
  IF Wanted(s, m)
  THEN /\ got' = [got EXCEPT ![s] = Append(@, m)]
       /\ late' = [late EXCEPT ![s] = IF sub[s] = "closed" THEN @ + 1 ELSE @]
  ELSE UNCHANGED <<got, late>>

\* A turn of the read loop: closed is looked at before a read and not after
\* it.  A handler that throws closes the subscription.
Read(s) ==
  /\ reading[s] = "reads" /\ inbox[s] # <<>>
  /\ Handle(s, Head(inbox[s]))
  /\ \/ reading' = [reading EXCEPT ![s] = NextRead(s, Rest(s))] /\ UNCHANGED sub
     \/ /\ s \in Throwing /\ Wanted(s, Head(inbox[s]))
        /\ sub' = [sub EXCEPT ![s] = "broken"] /\ reading' = [reading EXCEPT ![s] = "ended"]
  /\ inbox' = [inbox EXCEPT ![s] = IF reading'[s] = "ended" THEN <<>> ELSE Rest(s)]
  /\ UNCHANGED <<backend, publishing, channel, told, off>>

\* The socket fails or is closed: the loop ends, nobody is told.
Break(s) ==
  /\ backend = "redis" /\ sub[s] \in {"ready", "closed"} /\ reading[s] = "waits"
  /\ sub' = [sub EXCEPT ![s] = "broken"]
  /\ reading' = [reading EXCEPT ![s] = "ended"]
  /\ UNCHANGED <<backend, publishing, channel, told, inbox, got, off, late>>

-----------------------------------------------------------------------------
Node == NodeStart \/ NodeEmit \/ NodeDrain \/ NodeStop \/ SignalDrain \/ SignalStop \/ NodeLog

Next ==
  \/ Node
  \/ \E m \in flying : Arrive(m) \/ Lose(m)
  \/ \E s \in Subscribers :
       \/ Subscribe(s) \/ Connected(s) \/ Confirm(s) \/ Unsubscribe(s) \/ Forget(s)
       \/ Read(s) \/ Break(s)

Spec == Init /\ [][Next]_vars

-----------------------------------------------------------------------------
Messages == [type : Types, by : Publishers, n : Nat]

TypeOK ==
  /\ backend \in Backends
  /\ record \in BOOLEAN /\ signal \in {"none", "drained", "stopped"}
  /\ sent \in [Publishers -> Nat]
  /\ flying \cup failed \subseteq Messages
  /\ sub \in [Subscribers -> {"none", "connecting", "ready", "failed", "closed", "broken"}]
  /\ told \cup off \subseteq Subscribers
  /\ reading \in [Subscribers -> {"none", "reads", "waits", "ended"}]
  /\ \A s \in Subscribers :
       /\ Range(inbox[s]) \cup Range(got[s]) \subseteq Messages
       /\ reading[s] = "reads" => inbox[s] # <<>>

\* What comes to a handler after a later message of its caller is one whose
\* PUBLISH had failed.
CallersInOrder ==
  \A s \in Subscribers : \A i, j \in DOMAIN got[s] :
    /\ i < j /\ got[s][i].by = got[s][j].by /\ got[s][i].by \in Callers
    /\ got[s][i].n > got[s][j].n
    => got[s][j] \in failed

\* In memory one that asks for "*" and a type gets those of the type twice.
DeliveredOnce ==
  \A s \in Subscribers :
    Cardinality(Wants[s]) <= 1 =>
      \A i, j \in DOMAIN got[s] : i # j => got[s][i] # got[s][j]

LateByOne == \A s \in Subscribers : late[s] <= 1

\* What one caller of a node publishes comes to a subscriber in the order of
\* the calls, though each is published over a connection of its own, unless a
\* PUBLISH failed and is executed late; across callers, and for the chunks of a
\* log, no order is promised.  Each message is handed over at most once to one
\* that asks for one type; and once it has unsubscribed its handler is called at
\* most once more, with the message a read was waiting for (MeshNode.start,
\* gracefulSignalStop, RespStreamReader.read, RedisPubSubConnection.readLoop).
DeliveryHolds == TypeOK /\ CallersInOrder /\ DeliveredOnce /\ LateByOne

\* What has come in on an open subscription is handed over, also when several
\* messages came in one chunk, or the subscription ends (RespStreamReader.read).
ReadOn ==
  \A s \in Subscribers : inbox[s] # <<>> ~> inbox[s] = <<>> \/ reading[s] = "ended"
===============================================================================
