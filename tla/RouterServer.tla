----------------------------- MODULE RouterServer -----------------------------
(***************************************************************************)
(* MeshRouterServer: the life of a proxied request or upgrade, the counters *)
(* kept for it by ActiveConnectionTracker and LoadBalancer, and the         *)
(* graceful close of the router.                                            *)
(*                                                                         *)
(* A connection carries one request at a time.  An action is one turn of    *)
(* the event loop: what happens between two awaits of handle,               *)
(* routeAndProxyHttp, handleUpgrade or drainAndClose.  Requests answered in *)
(* one turn (management, error pages, 503 while draining, 508) leave no     *)
(* state behind and are not shown.  Timeouts and sleeps may end at any      *)
(* time.  What node:http and the sockets do is external.                    *)
(***************************************************************************)
EXTENDS Integers, FiniteSets

CONSTANTS
  Conns,      \* client connections
  Instances,  \* instances requests can be routed to
  NoTarget,   \* the target of a connection that has none
  Attempts,   \* config.router.targetRetry.attempts
  Faults      \* the rare events that may happen: see the actions named below

ASSUME RouterAssumption ==
  /\ IsFiniteSet(Conns)
  /\ NoTarget \notin Instances
  /\ Attempts \in Nat \ {0}
  /\ Faults \subseteq {"stall", "cut", "reset"}

VARIABLES
  conn,      \* is the client connection open
  req,       \* the state of the request or upgrade it carries
  attempt,   \* the retries that request has behind it
  target,    \* the instance it was routed to
  headSent,  \* the connections whose response has begun
  http,      \* ActiveConnectionTracker: proxied requests of each instance
  sockets,   \* ActiveConnectionTracker: tunnels of each instance
  active,    \* LoadBalancer: work in progress of each instance
  drain,     \* where drainAndClose is
  up,        \* has no exception escaped the handlers
  calm       \* auxiliary: has no response stalled and no routed upgrade been reset

vars == <<conn, req, attempt, target, headSent, http, sockets, active, drain, up, calm>>

requestVars == <<conn, req, attempt, target, headSent>>
counters == <<http, sockets, active>>

Init ==
  /\ conn = [c \in Conns |-> "closed"]
  /\ req = [c \in Conns |-> "none"]
  /\ attempt = [c \in Conns |-> 0]
  /\ target = [c \in Conns |-> NoTarget]
  /\ headSent = {}
  /\ http = [i \in Instances |-> 0]
  /\ sockets = [i \in Instances |-> {}]
  /\ active = [i \in Instances |-> 0]
  /\ drain = "serving"
  /\ up = TRUE
  /\ calm = TRUE

draining == drain # "serving"

-------------------------------------------------------------------------------
(* Counters *)

Idle == \A i \in Instances : http[i] = 0 /\ sockets[i] = {}

(* notifyIfIdle: whoever waits for the tracker goes on when it is empty.     *)
NotifyIfIdle ==
  drain' = IF Idle' /\ drain \in {"httpWait", "socketWait"} THEN "done" ELSE drain

BeginHttp(i) ==
  /\ active' = [active EXCEPT ![i] = @ + 1]
  /\ http' = [http EXCEPT ![i] = @ + 1]
  /\ UNCHANGED sockets

Decrement(n) == IF n > 0 THEN n - 1 ELSE 0

EndHttp(i) ==
  /\ http' = [http EXCEPT ![i] = Decrement(@)]
  /\ active' = [active EXCEPT ![i] = Decrement(@)]
  /\ UNCHANGED sockets
  /\ NotifyIfIdle

(* Mutant of BeginSocket: the balancer is not told. *)
BeginSocketUncounted(i, c) ==
  /\ sockets' = [sockets EXCEPT ![i] = @ \cup {c}]
  /\ UNCHANGED <<http, active>>

BeginSocket(i, c) ==
  /\ active' = [active EXCEPT ![i] = @ + 1]
  /\ sockets' = [sockets EXCEPT ![i] = @ \cup {c}]
  /\ UNCHANGED http

(* Mutant of EndSocket: waiters are told only of requests that end. *)
EndSocketSilently(i, c) ==
  /\ sockets' = [sockets EXCEPT ![i] = @ \ {c}]
  /\ active' = [active EXCEPT ![i] = Decrement(@)]
  /\ UNCHANGED <<http, drain>>

EndSocket(i, c) ==
  /\ sockets' = [sockets EXCEPT ![i] = @ \ {c}]
  /\ active' = [active EXCEPT ![i] = Decrement(@)]
  /\ UNCHANGED http
  /\ NotifyIfIdle

-------------------------------------------------------------------------------
(* Connections *)

Become(c, state) == req' = [req EXCEPT ![c] = state]

(* The handler of a request is over: nothing of it is kept.                  *)
Over(c) ==
  /\ Become(c, "none")
  /\ attempt' = [attempt EXCEPT ![c] = 0]
  /\ target' = [target EXCEPT ![c] = NoTarget]
  /\ headSent' = headSent \ {c}
  /\ UNCHANGED conn

Connect(c) ==
  /\ drain = "serving"
  /\ conn[c] = "closed" /\ req[c] = "none"
  /\ conn' = [conn EXCEPT ![c] = "open"]
  /\ UNCHANGED <<req, attempt, target, headSent, drain, up, calm>> /\ UNCHANGED counters

(* A connection without a request is closed by its keep-alive timeout, or at *)
(* once by server.close.                                                     *)
IdleClose(c) ==
  /\ conn[c] = "open" /\ req[c] = "none"
  /\ conn' = [conn EXCEPT ![c] = "closed"]
  /\ UNCHANGED <<req, attempt, target, headSent, drain, up, calm>> /\ UNCHANGED counters

(* The client goes away.  A tunnel ends with its socket; any other handler   *)
(* goes on without a client.  A socket that fails before handleUpgrade has   *)
(* put its error listeners on it takes the process down (fault "reset").     *)
ClientCloses(c) ==
  /\ conn[c] = "open" /\ req[c] # "none"
  /\ conn' = [conn EXCEPT ![c] = "closed"]
  /\ UNCHANGED attempt
  /\ \/ /\ req[c] \in {"tunnel", "dying"}
        /\ EndSocket(target[c], c)
        /\ Become(c, "none")
        /\ target' = [target EXCEPT ![c] = NoTarget]
        /\ UNCHANGED <<headSent, up, calm>>
     \/ /\ req[c] = "halfClosed"
        /\ Become(c, "none")
        /\ UNCHANGED <<target, headSent, drain, up, calm>> /\ UNCHANGED counters
     \/ /\ req[c] \notin {"tunnel", "dying", "halfClosed"}
        /\ up' \in {TRUE, ~ ("reset" \in Faults /\ req[c] \in {"upRouting", "upSelected"})}
        /\ calm' = (calm /\ up')
        /\ UNCHANGED <<req, target, headSent, drain>> /\ UNCHANGED counters

-------------------------------------------------------------------------------
(* Requests *)

Arrive(c, state) ==
  /\ ~ draining
  /\ conn[c] = "open" /\ req[c] = "none"
  /\ Become(c, state)
  /\ UNCHANGED <<conn, attempt, target, headSent, drain, up, calm>> /\ UNCHANGED counters

(* respond: setting a header of a response that has begun throws, and the    *)
(* promise of handle has no catch: the rejection takes the process down.     *)
Respond(c) ==
  /\ Over(c)
  /\ up' = (c \notin headSent)

(* selectTarget found an instance.  A sticky cookie that goes with it cannot *)
(* be set on a response that has begun: that ends like any other answer.     *)
Routed(c, i) ==
  /\ req[c] \in {"routing", "upRouting"}
  /\ Become(c, IF req[c] = "routing" THEN "selected" ELSE "upSelected")
  /\ target' = [target EXCEPT ![c] = i]
  /\ up' \in {TRUE, c \notin headSent}
  /\ UNCHANGED <<conn, attempt, headSent, drain, calm>> /\ UNCHANGED counters

(* The rest of an attempt: sleep and try again, or give up.                  *)
RetryOrElse(c, GiveUp) ==
  IF attempt[c] < Attempts - 1
  THEN /\ Become(c, "pause")
       /\ attempt' = [attempt EXCEPT ![c] = @ + 1]
       /\ target' = [target EXCEPT ![c] = NoTarget]
       /\ UNCHANGED <<conn, headSent, up>>
  ELSE GiveUp

NotRouted(c) ==
  /\ req[c] = "routing"
  /\ RetryOrElse(c, Respond(c))
  /\ UNCHANGED <<drain, calm>> /\ UNCHANGED counters

(* The registry cannot be asked: selectTarget throws, and the catch answers  *)
(* 502; the socket of an upgrade is destroyed.                               *)
SelectionFails(c) ==
  /\ \/ req[c] = "routing" /\ Respond(c)
     \/ /\ req[c] = "upRouting" /\ Become(c, "none")
        /\ attempt' = [attempt EXCEPT ![c] = 0]
        /\ conn' = [conn EXCEPT ![c] = "closed"]
        /\ UNCHANGED <<target, headSent, up>>
  /\ UNCHANGED <<drain, calm>> /\ UNCHANGED counters

(* Mutant of Resume: a router that drains starts no further attempt. *)
ResumeUnlessDraining(c) ==
  /\ ~ draining
  /\ req[c] \in {"pause", "upPause"}
  /\ Become(c, IF req[c] = "pause" THEN "routing" ELSE "upRouting")
  /\ UNCHANGED <<conn, attempt, target, headSent, drain, up, calm>> /\ UNCHANGED counters

Resume(c) ==
  /\ req[c] \in {"pause", "upPause"}
  /\ Become(c, IF req[c] = "pause" THEN "routing" ELSE "upRouting")
  /\ UNCHANGED <<conn, attempt, target, headSent, drain, up, calm>> /\ UNCHANGED counters

(* The counters go up and the request is sent to the target.                 *)
Begin(c) ==
  /\ req[c] = "selected"
  /\ BeginHttp(target[c])
  /\ Become(c, "waiting")
  /\ UNCHANGED <<conn, attempt, target, headSent, drain, up, calm>>

(* The target's response begins: setting its headers on a response that has  *)
(* begun already throws out of the response callback.                        *)
ResponseBegins(c) ==
  /\ req[c] = "waiting"
  /\ Become(c, "streaming")
  /\ headSent' = headSent \cup {c}
  /\ up' = (c \notin headSent)
  /\ UNCHANGED <<conn, attempt, target, drain, calm>> /\ UNCHANGED counters

ResponseEnds(c) ==
  /\ req[c] = "streaming"
  /\ EndHttp(target[c])
  /\ Over(c)
  /\ UNCHANGED <<up, calm>>

(* The target has failed c: before its response, or in the middle of one     *)
(* that stops flowing, because the target stalls or the client has gone      *)
(* (fault "stall").                                                          *)
TargetFails(c) ==
  \/ /\ req[c] = "waiting"
     /\ UNCHANGED calm
  \/ /\ req[c] = "streaming" /\ "stall" \in Faults
     /\ calm' = FALSE

(* Refused, reset or timed out: the attempt ends and is retried.             *)
TransientError(c) ==
  /\ TargetFails(c)
  /\ EndHttp(target[c])
  /\ RetryOrElse(c, Respond(c))

(* Any other error of the target is answered with 502.                       *)
OtherError(c) ==
  /\ TargetFails(c)
  /\ EndHttp(target[c])
  /\ Respond(c)

(* Mutant of Cut: the dropped response rejects as a transient error, which   *)
(* is retried although the response has begun.                               *)
CutRejects(c) ==
  /\ "cut" \in Faults
  /\ req[c] = "streaming"
  /\ EndHttp(target[c])
  /\ RetryOrElse(c, Respond(c))
  /\ UNCHANGED calm

(* The target drops the connection in the middle of its response: proxyRes   *)
(* neither ends nor fails the request, so proxyHttp never returns (fault     *)
(* "cut").                                                                   *)
Cut(c) ==
  /\ "cut" \in Faults
  /\ req[c] = "streaming"
  /\ Become(c, "cut")
  /\ UNCHANGED <<conn, attempt, target, headSent, drain, up, calm>> /\ UNCHANGED counters

-------------------------------------------------------------------------------
(* Upgrades *)

NoUpgradeTarget(c) ==
  /\ req[c] = "upRouting"
  /\ IF attempt[c] < Attempts - 1
     THEN /\ Become(c, "upPause")
          /\ attempt' = [attempt EXCEPT ![c] = @ + 1]
          /\ UNCHANGED conn
     ELSE /\ Become(c, "none")
          /\ attempt' = [attempt EXCEPT ![c] = 0]
          /\ conn' = [conn EXCEPT ![c] = "closed"]
  /\ UNCHANGED <<target, headSent, drain, up, calm>> /\ UNCHANGED counters

(* Both sockets are tracked and piped into each other.                       *)
OpenTunnel(c) ==
  /\ req[c] = "upSelected"
  /\ BeginSocket(target[c], c)
  /\ Become(c, "tunnel")
  /\ attempt' = [attempt EXCEPT ![c] = 0]
  /\ UNCHANGED <<conn, target, headSent, drain, up, calm>>

(* The target's socket closes, with an error or after ending its side; then  *)
(* the client's socket is destroyed, or stays half open.                     *)
TargetCloses(c) ==
  /\ req[c] \in {"tunnel", "dying"}
  /\ EndSocket(target[c], c)
  /\ target' = [target EXCEPT ![c] = NoTarget]
  /\ \/ /\ Become(c, "none")
        /\ conn' = [conn EXCEPT ![c] = "closed"]
     \/ /\ conn[c] = "open"
        /\ Become(c, "halfClosed")
        /\ UNCHANGED conn
  /\ UNCHANGED <<attempt, headSent, up, calm>>

-------------------------------------------------------------------------------
(* drainAndClose *)

StartDrain ==
  /\ drain = "serving"
  /\ drain' = "closing"
  /\ UNCHANGED requestVars /\ UNCHANGED counters /\ UNCHANGED <<up, calm>>

(* server.close calls back when every connection is closed.                  *)
ServersClosed ==
  /\ drain = "closing"
  /\ \A c \in Conns : conn[c] = "closed"
  /\ drain' = IF Idle THEN "done" ELSE "httpWait"
  /\ UNCHANGED requestVars /\ UNCHANGED counters /\ UNCHANGED <<up, calm>>

(* destroySockets destroys the tracked sockets; their close events follow.   *)
HttpWaitTimesOut ==
  /\ drain = "httpWait"
  /\ drain' = "socketWait"
  /\ req' = [c \in Conns |-> IF req[c] = "tunnel" THEN "dying" ELSE req[c]]
  /\ UNCHANGED <<conn, attempt, target, headSent, up, calm>> /\ UNCHANGED counters

(* Mutant of SocketWaitTimesOut: the second wait has no timeout. *)
SocketWaitForIdleOnly ==
  /\ drain = "socketWait"
  /\ Idle
  /\ drain' = "done"
  /\ UNCHANGED requestVars /\ UNCHANGED counters /\ UNCHANGED <<up, calm>>

SocketWaitTimesOut ==
  /\ drain = "socketWait"
  /\ drain' = "done"
  /\ UNCHANGED requestVars /\ UNCHANGED counters /\ UNCHANGED <<up, calm>>

-------------------------------------------------------------------------------
Handler(c) ==
  \/ \E i \in Instances : Routed(c, i)
  \/ NotRouted(c) \/ SelectionFails(c) \/ Resume(c) \/ Begin(c)
  \/ NoUpgradeTarget(c) \/ OpenTunnel(c)

(* What the target does to a request: it answers, fails or is timed out.     *)
Upstream(c) ==
  \/ ResponseBegins(c) \/ ResponseEnds(c)
  \/ TransientError(c) \/ OtherError(c) \/ Cut(c)

Client(c) == Connect(c) \/ Arrive(c, "routing") \/ Arrive(c, "upRouting") \/ ClientCloses(c)

Drain == StartDrain \/ ServersClosed \/ HttpWaitTimesOut \/ SocketWaitTimesOut

Next ==
  /\ up
  /\ \/ \E c \in Conns : Client(c) \/ IdleClose(c) \/ Handler(c) \/ Upstream(c) \/ TargetCloses(c)
     \/ Drain

Spec == Init /\ [][Next]_vars

(* The event loop runs every continuation, timers fire, keep-alive timeouts  *)
(* close idle connections, destroyed sockets close.  Targets answer, fail or *)
(* are timed out by requestTimeoutMs.  Nobody has to open or end a tunnel.   *)
Fairness ==
  /\ \A c \in Conns :
       /\ WF_vars(up /\ IdleClose(c))
       /\ WF_vars(up /\ Handler(c))
       /\ WF_vars(up /\ Upstream(c))
       /\ WF_vars(up /\ req[c] = "dying" /\ TargetCloses(c))
  /\ WF_vars(up /\ (ServersClosed \/ HttpWaitTimesOut \/ SocketWaitTimesOut))

FairSpec == Spec /\ Fairness

-------------------------------------------------------------------------------
(* Properties *)

States == {"none", "routing", "selected", "waiting", "streaming", "cut", "pause",
           "upRouting", "upSelected", "upPause", "tunnel", "dying", "halfClosed"}

(* The type invariant. *)
TypeOK ==
  /\ conn \in [Conns -> {"open", "closed"}]
  /\ req \in [Conns -> States]
  /\ attempt \in [Conns -> 0 .. Attempts - 1]
  /\ target \in [Conns -> Instances \cup {NoTarget}]
  /\ headSent \subseteq Conns
  /\ http \in [Instances -> Nat]
  /\ sockets \in [Instances -> SUBSET Conns]
  /\ active \in [Instances -> Nat]
  /\ drain \in {"serving", "closing", "httpWait", "socketWait", "done"}
  /\ up \in BOOLEAN
  /\ calm \in BOOLEAN

Proxied(i) == {c \in Conns : target[c] = i /\ req[c] \in {"waiting", "streaming", "cut"}}
Tunnels(i) == {c \in Conns : target[c] = i /\ req[c] \in {"tunnel", "dying"}}

CountersMatch ==
  \A i \in Instances :
    /\ http[i] = Cardinality(Proxied(i))
    /\ sockets[i] = Tunnels(i)
    /\ active[i] = Cardinality(Proxied(i)) + Cardinality(Tunnels(i))

(* The counters of the tracker and the balancer are the work in progress of  *)
(* each instance, on every path of handle and handleUpgrade: no attempt,     *)
(* retry, error or close is counted twice or left behind.                    *)
WorkIsCounted == TypeOK /\ CountersMatch

NobodyWaitsForNothing == drain \in {"httpWait", "socketWait"} => ~ Idle

DrainWaitsForClients ==
  drain \in {"httpWait", "socketWait", "done"} => \A c \in Conns : conn[c] = "closed"

(* "Let active requests and sockets finish": drainAndClose does not go on to *)
(* its timeouts while a client is still connected, and it does not wait for  *)
(* a tracker that has become idle already (waitForIdle, notifyIfIdle).       *)
DrainWaits == DrainWaitsForClients /\ NobodyWaitsForNothing

(* As long as responses that have begun keep flowing and no upgrade fails    *)
(* while it is routed, no retry, error or drain writes a second response     *)
(* head or lets an exception escape.                                         *)
StaysUp == calm => up

(* drainAndClose: a graceful close comes to an end, "close after timeout if   *)
(* needed", if clients close their connections sooner or later, also if the  *)
(* target has cut a response short and its work is never taken off the       *)
(* counters.                                                                 *)
DrainEndsOnceClientsLeave ==
  (\A c \in Conns : []<>(conn[c] = "closed"))
  => (drain = "closing" ~> drain = "done" \/ ~ up)

UnderWay == {"routing", "selected", "waiting", "streaming", "pause"}

(* Every request that is proxied is answered or given up, unless its target  *)
(* cuts the response short, across retries and while the router drains.      *)
RequestsFinish ==
  \A c \in Conns : req[c] \in UnderWay ~> req[c] \in {"none", "cut"} \/ ~ up
===============================================================================
