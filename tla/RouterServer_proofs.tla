-------------------------- MODULE RouterServer_proofs --------------------------
(***************************************************************************)
(* Proofs about RouterServer, for any number of connections and instances   *)
(* and attempts and whatever faults: the counters are the work in progress, *)
(* a drain waits for the clients and for nothing else, and an exception     *)
(* escapes only after a stalled response or a failed socket of an upgrade.  *)
(***************************************************************************)
EXTENDS RouterServer, FiniteSetTheorems, TLAPS

USE RouterAssumption

Counted == {"waiting", "streaming", "cut"}
Tunnelled == {"tunnel", "dying"}

(* Whoever is between the choice of an instance and its end has one.         *)
TargetsKnown ==
  \A c \in Conns :
    req[c] \in {"selected", "upSelected"} \cup Counted \cup Tunnelled => target[c] \in Instances

CountInv == TypeOK /\ TargetsKnown /\ CountersMatch

-------------------------------------------------------------------------------
(* What the sets behind the counters become when one connection moves.       *)

LEMMA SetsAreFinite ==
  \A i \in Instances : IsFiniteSet(Proxied(i)) /\ Cardinality(Proxied(i)) \in Nat
                       /\ IsFiniteSet(Tunnels(i)) /\ Cardinality(Tunnels(i)) \in Nat
<1>. TAKE i \in Instances
<1>1. Proxied(i) \in SUBSET Conns /\ Tunnels(i) \in SUBSET Conns
  BY DEF Proxied, Tunnels
<1>. QED
  BY <1>1, FS_Subset, FS_CardinalityType

(* A step of one connection that leaves the counters alone is right if it    *)
(* leaves alone what they count.                                             *)
LEMMA Uncounted ==
  ASSUME CountInv, TypeOK', UNCHANGED counters, NEW c \in Conns,
         \A d \in Conns \ {c} : req'[d] = req[d] /\ target'[d] = target[d],
         req[c] \in Counted => req'[c] \in Counted /\ target'[c] = target[c],
         req[c] \in Tunnelled => req'[c] \in Tunnelled /\ target'[c] = target[c],
         req'[c] \in Counted => req[c] \in Counted,
         req'[c] \in Tunnelled => req[c] \in Tunnelled,
         req'[c] \in {"selected", "upSelected"} => target'[c] \in Instances
  PROVE  CountInv'
<1>1. \A i \in Instances : Proxied(i)' = Proxied(i) /\ Tunnels(i)' = Tunnels(i)
  BY DEF Proxied, Tunnels, Counted, Tunnelled
<1>2. TargetsKnown'
  BY DEF CountInv, TargetsKnown, Counted, Tunnelled
<1>3. CountersMatch'
  BY <1>1 DEF CountInv, CountersMatch, counters
<1>. QED
  BY <1>2, <1>3 DEF CountInv

(* What is to be shown of a step that counts work of instance i.             *)
LEMMA OneInstance ==
  ASSUME CountInv, TypeOK', TargetsKnown', NEW i \in Instances,
         \A j \in Instances \ {i} :
           /\ Proxied(j)' = Proxied(j) /\ Tunnels(j)' = Tunnels(j)
           /\ http'[j] = http[j] /\ sockets'[j] = sockets[j] /\ active'[j] = active[j],
         http'[i] = Cardinality(Proxied(i)'), sockets'[i] = Tunnels(i)',
         active'[i] = Cardinality(Proxied(i)') + Cardinality(Tunnels(i)')
  PROVE  CountInv'
BY DEF CountInv, CountersMatch

(* A connection that begins to be counted at instance i.                     *)
LEMMA Enters ==
  ASSUME CountInv, TypeOK', NEW c \in Conns, NEW i \in Instances,
         req[c] \in {"selected", "upSelected"}, target[c] = i, target' = target,
         \A d \in Conns \ {c} : req'[d] = req[d],
         \/ req'[c] = "waiting" /\ BeginHttp(i)
         \/ req'[c] = "tunnel" /\ BeginSocket(i, c)
  PROVE  CountInv'
<1>1. \A j \in Instances \ {i} : Proxied(j)' = Proxied(j) /\ Tunnels(j)' = Tunnels(j)
  BY DEF Proxied, Tunnels
<1>2. TargetsKnown'
  BY DEF CountInv, TargetsKnown, Counted, Tunnelled
<1>3. c \notin Proxied(i) /\ c \notin Tunnels(i)
  BY DEF Proxied, Tunnels
<1>4. /\ IsFiniteSet(Proxied(i)) /\ Cardinality(Proxied(i)) \in Nat
      /\ IsFiniteSet(Tunnels(i)) /\ Cardinality(Tunnels(i)) \in Nat
  BY SetsAreFinite
<1>5. /\ http[i] = Cardinality(Proxied(i)) /\ sockets[i] = Tunnels(i)
      /\ active[i] = Cardinality(Proxied(i)) + Cardinality(Tunnels(i))
  BY DEF CountInv, CountersMatch
<1>6. CASE req'[c] = "waiting" /\ BeginHttp(i)
  <2>1. Proxied(i)' = Proxied(i) \cup {c} /\ Tunnels(i)' = Tunnels(i)
    BY <1>6 DEF Proxied, Tunnels
  <2>2. Cardinality(Proxied(i) \cup {c}) = Cardinality(Proxied(i)) + 1
    BY <1>3, <1>4, FS_AddElement
  <2>3. http' = [http EXCEPT ![i] = @ + 1] /\ active' = [active EXCEPT ![i] = @ + 1] /\ sockets' = sockets
    BY <1>6 DEF BeginHttp
  <2>4. /\ http'[i] = http[i] + 1 /\ active'[i] = active[i] + 1
        /\ \A j \in Instances \ {i} : http'[j] = http[j] /\ active'[j] = active[j]
    BY <2>3 DEF CountInv, TypeOK
  <2>5. /\ http'[i] = Cardinality(Proxied(i)') /\ sockets'[i] = Tunnels(i)'
        /\ active'[i] = Cardinality(Proxied(i)') + Cardinality(Tunnels(i)')
    BY <1>4, <1>5, <2>1, <2>2, <2>3, <2>4
  <2>. QED
    BY <1>1, <1>2, <2>3, <2>4, <2>5, OneInstance
<1>7. CASE req'[c] = "tunnel" /\ BeginSocket(i, c)
  <2>1. Tunnels(i)' = Tunnels(i) \cup {c} /\ Proxied(i)' = Proxied(i)
    BY <1>7 DEF Proxied, Tunnels
  <2>2. Cardinality(Tunnels(i) \cup {c}) = Cardinality(Tunnels(i)) + 1
    BY <1>3, <1>4, FS_AddElement
  <2>3. http' = http /\ active' = [active EXCEPT ![i] = @ + 1]
        /\ sockets' = [sockets EXCEPT ![i] = @ \cup {c}]
    BY <1>7 DEF BeginSocket
  <2>4. /\ sockets'[i] = sockets[i] \cup {c} /\ active'[i] = active[i] + 1
        /\ \A j \in Instances \ {i} : sockets'[j] = sockets[j] /\ active'[j] = active[j]
    BY <2>3 DEF CountInv, TypeOK
  <2>5. /\ http'[i] = Cardinality(Proxied(i)') /\ sockets'[i] = Tunnels(i)'
        /\ active'[i] = Cardinality(Proxied(i)') + Cardinality(Tunnels(i)')
    BY <1>4, <1>5, <2>1, <2>2, <2>3, <2>4
  <2>. QED
    BY <1>1, <1>2, <2>3, <2>4, <2>5, OneInstance
<1>. QED
  BY <1>6, <1>7

(* A connection that ceases to be counted at its instance i.                 *)
LEMMA Ends ==
  ASSUME CountInv, TypeOK', NEW c \in Conns, NEW i \in Instances, target[c] = i,
         \A d \in Conns \ {c} : req'[d] = req[d] /\ target'[d] = target[d],
         req'[c] \notin {"selected", "upSelected"} \cup Counted \cup Tunnelled,
         \/ req[c] \in Counted /\ EndHttp(i)
         \/ req[c] \in Tunnelled /\ EndSocket(i, c)
  PROVE  CountInv'
<1>1. \A j \in Instances \ {i} : Proxied(j)' = Proxied(j) /\ Tunnels(j)' = Tunnels(j)
  BY DEF Proxied, Tunnels, Counted, Tunnelled
<1>2. TargetsKnown'
  BY DEF CountInv, TargetsKnown, Counted, Tunnelled
<1>3. Proxied(i)' = Proxied(i) \ {c}
  BY DEF Proxied, Tunnels, Counted, Tunnelled
<1>4. Tunnels(i)' = Tunnels(i) \ {c}
  BY DEF Proxied, Tunnels, Counted, Tunnelled
<1>5. /\ IsFiniteSet(Proxied(i)) /\ Cardinality(Proxied(i)) \in Nat
      /\ IsFiniteSet(Tunnels(i)) /\ Cardinality(Tunnels(i)) \in Nat
  BY SetsAreFinite
<1>6. /\ http[i] = Cardinality(Proxied(i)) /\ sockets[i] = Tunnels(i)
      /\ active[i] = Cardinality(Proxied(i)) + Cardinality(Tunnels(i))
  BY DEF CountInv, CountersMatch
<1>7. CASE req[c] \in Counted /\ EndHttp(i)
  <2>1. c \in Proxied(i) /\ c \notin Tunnels(i)
    BY <1>7 DEF Proxied, Tunnels, Counted
  <2>2. Cardinality(Proxied(i) \ {c}) = Cardinality(Proxied(i)) - 1 /\ Cardinality(Proxied(i)) # 0
    BY <1>5, <2>1, FS_RemoveElement, FS_EmptySet
  <2>3. /\ http' = [http EXCEPT ![i] = Decrement(@)] /\ active' = [active EXCEPT ![i] = Decrement(@)]
        /\ sockets' = sockets
    BY <1>7 DEF EndHttp
  <2>4. /\ http'[i] = Decrement(http[i]) /\ active'[i] = Decrement(active[i])
        /\ \A j \in Instances \ {i} : http'[j] = http[j] /\ active'[j] = active[j]
    BY <2>3 DEF CountInv, TypeOK
  <2>5. Tunnels(i)' = Tunnels(i)
    BY <1>4, <2>1
  <2>6. http'[i] = http[i] - 1 /\ active'[i] = active[i] - 1
    BY <1>5, <1>6, <2>2, <2>4 DEF Decrement
  <2>7. /\ http'[i] = Cardinality(Proxied(i)') /\ sockets'[i] = Tunnels(i)'
        /\ active'[i] = Cardinality(Proxied(i)') + Cardinality(Tunnels(i)')
    BY <1>3, <1>5, <1>6, <2>2, <2>3, <2>5, <2>6
  <2>. QED
    BY <1>1, <1>2, <2>3, <2>4, <2>7, OneInstance
<1>8. CASE req[c] \in Tunnelled /\ EndSocket(i, c)
  <2>1. c \in Tunnels(i) /\ c \notin Proxied(i)
    BY <1>8 DEF Proxied, Tunnels, Tunnelled
  <2>2. Cardinality(Tunnels(i) \ {c}) = Cardinality(Tunnels(i)) - 1 /\ Cardinality(Tunnels(i)) # 0
    BY <1>5, <2>1, FS_RemoveElement, FS_EmptySet
  <2>3. /\ http' = http /\ active' = [active EXCEPT ![i] = Decrement(@)]
        /\ sockets' = [sockets EXCEPT ![i] = @ \ {c}]
    BY <1>8 DEF EndSocket
  <2>4. /\ sockets'[i] = sockets[i] \ {c} /\ active'[i] = Decrement(active[i])
        /\ \A j \in Instances \ {i} : sockets'[j] = sockets[j] /\ active'[j] = active[j]
    BY <2>3 DEF CountInv, TypeOK
  <2>5. Proxied(i)' = Proxied(i)
    BY <1>3, <2>1
  <2>6. active'[i] = active[i] - 1
    BY <1>5, <1>6, <2>2, <2>4 DEF Decrement
  <2>7. /\ http'[i] = Cardinality(Proxied(i)') /\ sockets'[i] = Tunnels(i)'
        /\ active'[i] = Cardinality(Proxied(i)') + Cardinality(Tunnels(i)')
    BY <1>4, <1>5, <1>6, <2>2, <2>3, <2>4, <2>5, <2>6
  <2>. QED
    BY <1>1, <1>2, <2>3, <2>4, <2>7, OneInstance
<1>. QED
  BY <1>7, <1>8

-------------------------------------------------------------------------------
(* What the parts of the actions do to the connection they are about.        *)

RequestType ==
  /\ conn \in [Conns -> {"open", "closed"}] /\ req \in [Conns -> States]
  /\ attempt \in [Conns -> 0 .. Attempts - 1]
  /\ target \in [Conns -> Instances \cup {NoTarget}] /\ headSent \subseteq Conns

CounterType ==
  /\ http \in [Instances -> Nat] /\ sockets \in [Instances -> SUBSET Conns]
  /\ active \in [Instances -> Nat]
  /\ drain \in {"serving", "closing", "httpWait", "socketWait", "done"}

LEMMA TypeSplits ==
  /\ TypeOK <=> RequestType /\ CounterType /\ up \in BOOLEAN /\ calm \in BOOLEAN
  /\ TypeOK' <=> RequestType' /\ CounterType' /\ up' \in BOOLEAN /\ calm' \in BOOLEAN
BY DEF TypeOK, RequestType, CounterType

LEMMA OthersStay ==
  ASSUME RequestType, NEW c \in Conns, NEW state \in States, Become(c, state)
  PROVE  req' \in [Conns -> States] /\ req'[c] = state /\ \A d \in Conns \ {c} : req'[d] = req[d]
BY DEF RequestType, Become

LEMMA OverFacts ==
  ASSUME RequestType, NEW c \in Conns, Over(c)
  PROVE  /\ RequestType' /\ req'[c] = "none" /\ UNCHANGED conn
         /\ headSent' = headSent \ {c} /\ target'[c] = NoTarget
         /\ \A d \in Conns \ {c} : req'[d] = req[d] /\ target'[d] = target[d]
BY DEF RequestType, Over, Become, States

LEMMA RetryFacts ==
  ASSUME RequestType, NEW c \in Conns, RetryOrElse(c, Respond(c)), up
  PROVE  /\ RequestType' /\ req'[c] \in {"pause", "none"} /\ UNCHANGED conn
         /\ target'[c] = NoTarget
         /\ \A d \in Conns \ {c} : req'[d] = req[d] /\ target'[d] = target[d]
         /\ \/ up' = TRUE /\ headSent' = headSent /\ req'[c] = "pause"
            \/ up' = (c \notin headSent) /\ headSent' = headSent \ {c} /\ req'[c] = "none"
<1>1. CASE attempt[c] < Attempts - 1
  BY <1>1 DEF RetryOrElse, Become, RequestType, States
<1>2. CASE ~ (attempt[c] < Attempts - 1)
  BY <1>2, OverFacts DEF RetryOrElse, Respond
<1>. QED
  BY <1>1, <1>2

LEMMA ExceptTypes ==
  ASSUME NEW f \in [Instances -> Nat], NEW g \in [Instances -> SUBSET Conns], NEW i \in Instances, NEW c \in Conns
  PROVE  /\ [f EXCEPT ![i] = @ + 1] \in [Instances -> Nat]
         /\ [f EXCEPT ![i] = Decrement(@)] \in [Instances -> Nat]
         /\ [g EXCEPT ![i] = @ \cup {c}] \in [Instances -> SUBSET Conns]
         /\ [g EXCEPT ![i] = @ \ {c}] \in [Instances -> SUBSET Conns]
<1>1. [f EXCEPT ![i] = @ + 1] \in [Instances -> Nat]
  OBVIOUS
<1>2. [f EXCEPT ![i] = Decrement(@)] \in [Instances -> Nat]
  BY DEF Decrement
<1>3. [g EXCEPT ![i] = @ \cup {c}] \in [Instances -> SUBSET Conns]
  OBVIOUS
<1>4. [g EXCEPT ![i] = @ \ {c}] \in [Instances -> SUBSET Conns]
  OBVIOUS
<1>. QED
  BY <1>1, <1>2, <1>3, <1>4

LEMMA CounterSteps ==
  ASSUME CounterType, NEW i \in Instances, NEW c \in Conns,
         \/ BeginHttp(i) /\ UNCHANGED drain
         \/ BeginSocket(i, c) /\ UNCHANGED drain
         \/ EndHttp(i) \/ EndSocket(i, c)
         \/ UNCHANGED <<http, sockets, active, drain>>
  PROVE  CounterType'
<1>1. drain' \in {"serving", "closing", "httpWait", "socketWait", "done"}
  BY DEF CounterType, EndHttp, EndSocket, NotifyIfIdle
<1>2. http' \in [Instances -> Nat]
  BY ExceptTypes DEF CounterType, BeginHttp, BeginSocket, EndHttp, EndSocket
<1>3. sockets' \in [Instances -> SUBSET Conns]
  BY ExceptTypes DEF CounterType, BeginHttp, BeginSocket, EndHttp, EndSocket
<1>4. active' \in [Instances -> Nat]
  BY ExceptTypes DEF CounterType, BeginHttp, BeginSocket, EndHttp, EndSocket
<1>. QED
  BY <1>1, <1>2, <1>3, <1>4 DEF CounterType

-------------------------------------------------------------------------------
(* CountInv from state to state, action by action.                           *)

LEMMA ClientStep ==
  ASSUME CountInv, NEW c \in Conns, Client(c) \/ IdleClose(c) \/ TargetCloses(c), up
  PROVE  CountInv'
<1>. USE TypeSplits
<1>1. RequestType /\ CounterType /\ TypeOK
  BY DEF CountInv
<1>2. CASE Connect(c) \/ IdleClose(c)
  <2>1. TypeOK'
    BY <1>1, <1>2 DEF Connect, IdleClose, RequestType, CounterType, counters
  <2>. QED
    BY <1>2, <2>1, Uncounted DEF Connect, IdleClose, CountInv, TargetsKnown
<1>3. ASSUME NEW state \in {"routing", "upRouting"}, Arrive(c, state) PROVE CountInv'
  <2>1. state \in States /\ req[c] = "none"
    BY <1>3 DEF States, Arrive
  <2>2. req' \in [Conns -> States] /\ req'[c] = state /\ \A d \in Conns \ {c} : req'[d] = req[d]
    BY <1>1, <1>3, <2>1, OthersStay DEF Arrive
  <2>3. TypeOK'
    BY <1>1, <1>3, <2>2 DEF Arrive, RequestType, CounterType, counters
  <2>. QED
    BY <1>3, <2>1, <2>2, <2>3, Uncounted DEF Arrive, Counted, Tunnelled
<1>4. CASE ClientCloses(c)
  <2>1. conn' \in [Conns -> {"open", "closed"}]
    BY <1>1, <1>4 DEF ClientCloses, RequestType
  <2>2. CASE /\ req[c] \in {"tunnel", "dying"} /\ EndSocket(target[c], c)
             /\ Become(c, "none") /\ target' = [target EXCEPT ![c] = NoTarget]
             /\ UNCHANGED <<attempt, headSent, up, calm>>
    <3>1. req' \in [Conns -> States] /\ req'[c] = "none" /\ \A d \in Conns \ {c} : req'[d] = req[d]
      BY <1>1, <2>2, OthersStay DEF States
    <3>2. target[c] \in Instances
      BY <2>2 DEF CountInv, TargetsKnown, Tunnelled
    <3>3. TypeOK'
      BY <1>1, <2>1, <2>2, <3>1, <3>2, CounterSteps DEF RequestType
    <3>4. \A d \in Conns \ {c} : target'[d] = target[d]
      BY <1>1, <2>2 DEF RequestType
    <3>5. PICK i \in Instances : i = target[c]
      BY <3>2
    <3>. QED
      BY <2>2, <3>1, <3>3, <3>4, <3>5, Ends DEF Counted, Tunnelled
  <2>3. CASE /\ req[c] = "halfClosed" /\ Become(c, "none")
             /\ UNCHANGED <<attempt, target, headSent, drain, up, calm>> /\ UNCHANGED counters
    <3>1. req' \in [Conns -> States] /\ req'[c] = "none" /\ \A d \in Conns \ {c} : req'[d] = req[d]
      BY <1>1, <2>3, OthersStay DEF States
    <3>2. TypeOK'
      BY <1>1, <2>1, <2>3, <3>1 DEF RequestType, CounterType, counters
    <3>. QED
      BY <2>3, <3>1, <3>2, Uncounted DEF Counted, Tunnelled
  <2>4. CASE /\ up' \in {TRUE, ~ ("reset" \in Faults /\ req[c] \in {"upRouting", "upSelected"})}
             /\ calm' = (calm /\ up')
             /\ UNCHANGED <<attempt, req, target, headSent, drain>> /\ UNCHANGED counters
    <3>1. TypeOK'
      BY <1>1, <2>1, <2>4 DEF RequestType, CounterType, counters
    <3>. QED
      BY <2>4, <3>1, Uncounted DEF CountInv, TargetsKnown
  <2>. QED
    BY <1>4, <2>2, <2>3, <2>4 DEF ClientCloses
<1>5. CASE TargetCloses(c)
  <2>1. PICK state \in {"none", "halfClosed"} : Become(c, state)
    BY <1>5 DEF TargetCloses
  <2>2. req' \in [Conns -> States] /\ req'[c] = state /\ \A d \in Conns \ {c} : req'[d] = req[d]
    BY <1>1, <2>1, OthersStay DEF States
  <2>3. PICK i \in Instances : i = target[c]
    BY <1>5 DEF TargetCloses, CountInv, TargetsKnown, Tunnelled
  <2>4. /\ EndSocket(i, c) /\ req[c] \in Tunnelled /\ target' = [target EXCEPT ![c] = NoTarget]
        /\ UNCHANGED <<attempt, headSent, up, calm>>
        /\ conn' = [conn EXCEPT ![c] = "closed"] \/ UNCHANGED conn
    BY <1>5, <2>3 DEF TargetCloses, Tunnelled
  <2>5. TypeOK'
    BY <1>1, <2>2, <2>4, CounterSteps DEF RequestType
  <2>6. \A d \in Conns \ {c} : target'[d] = target[d]
    BY <1>1, <2>4 DEF RequestType
  <2>. QED
    BY <2>2, <2>3, <2>4, <2>5, <2>6, Ends DEF Counted, Tunnelled
<1>. QED
  BY <1>2, <1>3, <1>4, <1>5 DEF Client

LEMMA HandlerStep ==
  ASSUME CountInv, NEW c \in Conns, Handler(c), up
  PROVE  CountInv'
<1>. USE TypeSplits
<1>1. RequestType /\ CounterType /\ TypeOK
  BY DEF CountInv
<1>2. ASSUME NEW i \in Instances, Routed(c, i) PROVE CountInv'
  <2>1. PICK state \in {"selected", "upSelected"} : Become(c, state)
    BY <1>2 DEF Routed
  <2>2. req' \in [Conns -> States] /\ req'[c] = state /\ \A d \in Conns \ {c} : req'[d] = req[d]
    BY <1>1, <2>1, OthersStay DEF States
  <2>3. /\ target' \in [Conns -> Instances \cup {NoTarget}] /\ target'[c] = i
        /\ \A d \in Conns \ {c} : target'[d] = target[d]
    BY <1>1, <1>2 DEF Routed, RequestType
  <2>4. TypeOK'
    BY <1>1, <1>2, <2>2, <2>3 DEF Routed, RequestType, CounterType, counters
  <2>. QED
    BY <1>2, <2>2, <2>3, <2>4, Uncounted DEF Routed, Counted, Tunnelled
<1>3. CASE NotRouted(c)
  <2>1. RetryOrElse(c, Respond(c)) /\ req[c] = "routing" /\ UNCHANGED <<drain, calm>> /\ UNCHANGED counters
    BY <1>3 DEF NotRouted
  <2>2. up' \in BOOLEAN /\ CounterType'
    BY <1>1, <2>1, RetryFacts DEF CounterType, counters
  <2>3. TypeOK'
    BY <1>1, <2>1, <2>2, RetryFacts
  <2>. QED
    BY <1>1, <2>1, <2>3, RetryFacts, Uncounted DEF Counted, Tunnelled
<1>4. CASE Resume(c)
  <2>1. PICK state \in {"routing", "upRouting"} : Become(c, state)
    BY <1>4 DEF Resume
  <2>2. req' \in [Conns -> States] /\ req'[c] = state /\ \A d \in Conns \ {c} : req'[d] = req[d]
    BY <1>1, <2>1, OthersStay DEF States
  <2>3. TypeOK'
    BY <1>1, <1>4, <2>2 DEF Resume, RequestType, CounterType, counters
  <2>. QED
    BY <1>4, <2>2, <2>3, Uncounted DEF Resume, Counted, Tunnelled
<1>5. CASE Begin(c)
  <2>1. PICK i \in Instances : i = target[c]
    BY <1>5 DEF Begin, CountInv, TargetsKnown
  <2>2. req' \in [Conns -> States] /\ req'[c] = "waiting" /\ \A d \in Conns \ {c} : req'[d] = req[d]
    BY <1>1, <1>5, OthersStay DEF Begin, States
  <2>3. TypeOK'
    BY <1>1, <1>5, <2>1, <2>2, CounterSteps DEF Begin, RequestType
  <2>. QED
    BY <1>5, <2>1, <2>2, <2>3, Enters DEF Begin
<1>6. CASE NoUpgradeTarget(c)
  <2>1. PICK state \in {"upPause", "none"} : Become(c, state)
    BY <1>6 DEF NoUpgradeTarget
  <2>2. req' \in [Conns -> States] /\ req'[c] = state /\ \A d \in Conns \ {c} : req'[d] = req[d]
    BY <1>1, <2>1, OthersStay DEF States
  <2>3. conn' \in [Conns -> {"open", "closed"}] /\ attempt' \in [Conns -> 0 .. Attempts - 1]
    BY <1>1, <1>6 DEF NoUpgradeTarget, RequestType
  <2>4. TypeOK'
    BY <1>1, <1>6, <2>2, <2>3 DEF NoUpgradeTarget, RequestType, CounterType, counters
  <2>. QED
    BY <1>6, <2>2, <2>4, Uncounted DEF NoUpgradeTarget, Counted, Tunnelled
<1>7. CASE OpenTunnel(c)
  <2>1. PICK i \in Instances : i = target[c]
    BY <1>7 DEF OpenTunnel, CountInv, TargetsKnown
  <2>2. req' \in [Conns -> States] /\ req'[c] = "tunnel" /\ \A d \in Conns \ {c} : req'[d] = req[d]
    BY <1>1, <1>7, OthersStay DEF OpenTunnel, States
  <2>3. attempt' \in [Conns -> 0 .. Attempts - 1]
    BY <1>1, <1>7 DEF OpenTunnel, RequestType
  <2>4. TypeOK'
    BY <1>1, <1>7, <2>1, <2>2, <2>3, CounterSteps DEF OpenTunnel, RequestType
  <2>. QED
    BY <1>7, <2>1, <2>2, <2>4, Enters DEF OpenTunnel
<1>8. ASSUME SelectionFails(c), req[c] = "routing" PROVE CountInv'
  <2>1. Respond(c) /\ UNCHANGED <<drain, calm>> /\ UNCHANGED counters
    BY <1>8 DEF SelectionFails
  <2>2. /\ RequestType' /\ req'[c] = "none" /\ up' \in BOOLEAN
        /\ \A d \in Conns \ {c} : req'[d] = req[d] /\ target'[d] = target[d]
    BY <1>1, <2>1, OverFacts DEF Respond
  <2>3. TypeOK'
    BY <1>1, <2>1, <2>2 DEF CounterType, counters
  <2>. QED
    BY <1>8, <2>1, <2>2, <2>3, Uncounted DEF Counted, Tunnelled
<1>9. ASSUME SelectionFails(c), req[c] = "upRouting" PROVE CountInv'
  <2>1. Become(c, "none") /\ UNCHANGED <<target, headSent, up, drain, calm>> /\ UNCHANGED counters
    BY <1>9 DEF SelectionFails
  <2>2. req' \in [Conns -> States] /\ req'[c] = "none" /\ \A d \in Conns \ {c} : req'[d] = req[d]
    BY <1>1, <2>1, OthersStay DEF States
  <2>3. conn' \in [Conns -> {"open", "closed"}] /\ attempt' \in [Conns -> 0 .. Attempts - 1]
    BY <1>1, <1>9, RouterAssumption DEF SelectionFails, RequestType
  <2>4. TypeOK'
    BY <1>1, <2>1, <2>2, <2>3 DEF RequestType, CounterType, counters
  <2>. QED
    BY <1>9, <2>1, <2>2, <2>4, Uncounted DEF Counted, Tunnelled
<1>10. SelectionFails(c) => req[c] \in {"routing", "upRouting"}
  BY DEF SelectionFails
<1>. QED
  BY <1>2, <1>3, <1>4, <1>5, <1>6, <1>7, <1>8, <1>9, <1>10 DEF Handler

LEMMA UpstreamStep ==
  ASSUME CountInv, NEW c \in Conns, Upstream(c), up
  PROVE  CountInv'
<1>. USE TypeSplits
<1>1. RequestType /\ CounterType /\ TypeOK
  BY DEF CountInv
<1>2. CASE ResponseBegins(c) \/ Cut(c)
  <2>1. PICK state \in {"streaming", "cut"} : Become(c, state)
    BY <1>2 DEF ResponseBegins, Cut
  <2>2. req' \in [Conns -> States] /\ req'[c] = state /\ \A d \in Conns \ {c} : req'[d] = req[d]
    BY <1>1, <2>1, OthersStay DEF States
  <2>3. req[c] \in Counted /\ target' = target /\ UNCHANGED counters
    BY <1>2 DEF ResponseBegins, Cut, Counted
  <2>4. TypeOK'
    BY <1>1, <1>2, <2>2 DEF ResponseBegins, Cut, RequestType, CounterType, counters
  <2>. QED
    BY <2>2, <2>3, <2>4, Uncounted DEF Counted, Tunnelled
<1>3. CASE ResponseEnds(c) \/ TransientError(c) \/ OtherError(c)
  <2>1. req[c] \in Counted /\ EndHttp(target[c])
    BY <1>3 DEF ResponseEnds, TransientError, OtherError, TargetFails, Counted
  <2>2. PICK i \in Instances : i = target[c]
    BY <2>1 DEF CountInv, TargetsKnown
  <2>3. /\ RequestType' /\ req'[c] \in {"pause", "none"}
        /\ \A d \in Conns \ {c} : req'[d] = req[d] /\ target'[d] = target[d]
    BY <1>1, <1>3, OverFacts, RetryFacts DEF ResponseEnds, TransientError, OtherError, Respond
  <2>4. calm' \in BOOLEAN
    BY <1>1, <1>3 DEF ResponseEnds, TransientError, OtherError, TargetFails
  <2>5. up' \in BOOLEAN
    BY <1>1, <1>3, RetryFacts DEF ResponseEnds, TransientError, OtherError, Respond
  <2>6. TypeOK'
    BY <1>1, <2>1, <2>2, <2>3, <2>4, <2>5, CounterSteps
  <2>. QED
    BY <2>1, <2>2, <2>3, <2>6, Ends DEF Counted, Tunnelled
<1>. QED
  BY <1>2, <1>3 DEF Upstream

LEMMA DrainStep ==
  ASSUME CountInv, Drain
  PROVE  CountInv'
<1>. USE DEF CountInv
<1>1. \A i \in Instances : Proxied(i)' = Proxied(i) /\ Tunnels(i)' = Tunnels(i)
  BY DEF Drain, StartDrain, ServersClosed, HttpWaitTimesOut, SocketWaitTimesOut, requestVars,
         Proxied, Tunnels, TypeOK
<1>2. TypeOK'
  BY DEF Drain, StartDrain, ServersClosed, HttpWaitTimesOut, SocketWaitTimesOut, requestVars,
         counters, TypeOK, States
<1>3. TargetsKnown'
  BY DEF Drain, StartDrain, ServersClosed, HttpWaitTimesOut, SocketWaitTimesOut, requestVars,
         TargetsKnown, Counted, Tunnelled, TypeOK
<1>4. CountersMatch'
  BY <1>1 DEF Drain, StartDrain, ServersClosed, HttpWaitTimesOut, SocketWaitTimesOut, counters,
              CountersMatch
<1>. QED
  BY <1>2, <1>3, <1>4

LEMMA CountInvStep == CountInv /\ [Next]_vars => CountInv'
<1>. SUFFICES ASSUME CountInv, [Next]_vars PROVE CountInv'
  OBVIOUS
<1>1. CASE UNCHANGED vars
  <2>1. \A i \in Instances : Proxied(i)' = Proxied(i) /\ Tunnels(i)' = Tunnels(i)
    BY <1>1 DEF vars, Proxied, Tunnels
  <2>2. TypeOK' /\ TargetsKnown'
    BY <1>1 DEF vars, CountInv, TypeOK, TargetsKnown, Counted, Tunnelled
  <2>3. CountersMatch'
    BY <1>1, <2>1 DEF vars, CountInv, CountersMatch
  <2>. QED
    BY <2>2, <2>3 DEF CountInv
<1>2. ASSUME NEW c \in Conns, up,
             Client(c) \/ IdleClose(c) \/ Handler(c) \/ Upstream(c) \/ TargetCloses(c)
      PROVE  CountInv'
  BY <1>2, ClientStep, HandlerStep, UpstreamStep
<1>3. CASE Drain
  BY <1>3, DrainStep
<1>. QED
  BY <1>1, <1>2, <1>3 DEF Next

LEMMA CountInvInit == Init => CountInv
<1>. SUFFICES ASSUME Init PROVE CountInv
  OBVIOUS
<1>1. \A i \in Instances : Proxied(i) = {} /\ Tunnels(i) = {}
  BY DEF Init, Proxied, Tunnels
<1>2. TypeOK /\ TargetsKnown
  BY DEF Init, TypeOK, States, TargetsKnown, Counted, Tunnelled
<1>3. CountersMatch
  BY <1>1, FS_EmptySet DEF Init, CountersMatch
<1>. QED
  BY <1>2, <1>3 DEF CountInv

(* The counters of the tracker and the balancer are the work in progress of  *)
(* each instance, on every path of handle and handleUpgrade.  The inductive  *)
(* invariant adds that whoever is counted, or is about to be, has an         *)
(* instance: the one whose counter goes up is the one whose goes down.       *)
THEOREM CountsAreRight == Spec => []WorkIsCounted
<1>1. CountInv => WorkIsCounted
  BY DEF CountInv, WorkIsCounted
<1>. QED
  BY <1>1, CountInvInit, CountInvStep, PTL DEF Spec

-------------------------------------------------------------------------------
(* "Let active requests and sockets finish": a drain goes on to its timeouts *)
(* only when every client has gone, and waits only while there is work       *)
(* (drainAndClose, waitForIdle, notifyIfIdle).  Inductive with the types of  *)
(* the counters: what notifyIfIdle is told is what ended just now.           *)
THEOREM DrainWaitsRightly == Spec => []DrainWaits
<1>1. Init => DrainWaits
  BY DEF Init, DrainWaits, DrainWaitsForClients, NobodyWaitsForNothing
<1>2. CountInv /\ DrainWaits /\ [Next]_vars => DrainWaits'
  <2>. SUFFICES ASSUME CountInv, DrainWaits, [Next]_vars PROVE DrainWaits'
    OBVIOUS
  <2>. USE DEF DrainWaits
  <2>0. TypeOK
    BY DEF CountInv
  <2>1. DrainWaitsForClients'
    <3>1. ASSUME drain' = drain \/ (drain' = "done" /\ drain \in {"httpWait", "socketWait"}),
                 \A c \in Conns : conn[c] = "closed" => conn'[c] = "closed"
          PROVE  DrainWaitsForClients'
      BY <3>1 DEF DrainWaitsForClients
    <3>2. CASE Drain
      BY <3>2 DEF Drain, StartDrain, ServersClosed, HttpWaitTimesOut, SocketWaitTimesOut,
                  requestVars, DrainWaitsForClients
    <3>3. ASSUME NEW c \in Conns, Client(c) \/ IdleClose(c) PROVE DrainWaitsForClients'
      <4>1. CASE Connect(c)
        BY <4>1 DEF Connect, DrainWaitsForClients
      <4>2. CASE IdleClose(c) \/ Arrive(c, "routing") \/ Arrive(c, "upRouting")
        BY <2>0, <3>1, <4>2 DEF IdleClose, Arrive, TypeOK
      <4>3. CASE ClientCloses(c)
        <5>1. drain' = drain \/ (drain' = "done" /\ drain \in {"httpWait", "socketWait"})
          BY <4>3 DEF ClientCloses, EndSocket, NotifyIfIdle
        <5>. QED
          BY <2>0, <3>1, <4>3, <5>1 DEF ClientCloses, TypeOK
      <4>. QED
        BY <3>3, <4>1, <4>2, <4>3 DEF Client
    <3>4. ASSUME NEW c \in Conns, Handler(c) PROVE DrainWaitsForClients'
      <4>1. drain' = drain
        BY <3>4 DEF Handler, Routed, NotRouted, SelectionFails, Resume, Begin, NoUpgradeTarget, OpenTunnel
      <4>2. conn' = conn \/ conn' = [conn EXCEPT ![c] = "closed"]
        BY <3>4 DEF Handler, Routed, NotRouted, SelectionFails, RetryOrElse, Respond, Over, Resume, Begin,
                    NoUpgradeTarget, OpenTunnel
      <4>. QED
        BY <2>0, <3>1, <4>1, <4>2 DEF TypeOK
    <3>5. ASSUME NEW c \in Conns, Upstream(c) \/ TargetCloses(c) PROVE DrainWaitsForClients'
      <4>1. drain' = drain \/ (drain' = "done" /\ drain \in {"httpWait", "socketWait"})
        BY <3>5 DEF Upstream, ResponseBegins, ResponseEnds, TransientError, OtherError, Cut,
                    TargetCloses, EndHttp, EndSocket, NotifyIfIdle
      <4>2. conn' = conn \/ conn' = [conn EXCEPT ![c] = "closed"]
        BY <3>5 DEF Upstream, ResponseBegins, ResponseEnds, TransientError, OtherError, Cut,
                    TargetCloses, RetryOrElse, Respond, Over
      <4>. QED
        BY <2>0, <3>1, <4>1, <4>2 DEF TypeOK
    <3>6. CASE UNCHANGED vars
      BY <3>6 DEF vars, DrainWaitsForClients
    <3>. QED
      BY <3>2, <3>3, <3>4, <3>5, <3>6 DEF Next
  <2>2. NobodyWaitsForNothing'
    <3>1. CASE UNCHANGED <<drain, http, sockets>>
      BY <3>1 DEF NobodyWaitsForNothing, Idle
    <3>2. CASE NotifyIfIdle
      BY <3>2 DEF NobodyWaitsForNothing, NotifyIfIdle
    <3>3. CASE Drain
      BY <3>3 DEF Drain, StartDrain, ServersClosed, HttpWaitTimesOut, SocketWaitTimesOut,
                  counters, NobodyWaitsForNothing, Idle
    <3>4. ASSUME NEW c \in Conns, Client(c) \/ IdleClose(c) \/ TargetCloses(c)
          PROVE  NobodyWaitsForNothing'
      BY <3>1, <3>2, <3>4 DEF Client, Connect, Arrive, ClientCloses, IdleClose, TargetCloses,
                             EndSocket, counters
    <3>5. ASSUME NEW c \in Conns, Begin(c) PROVE NobodyWaitsForNothing'
      <4>1. PICK i \in Instances : i = target[c]
        BY <3>5 DEF Begin, CountInv, TargetsKnown
      <4>2. http'[i] # 0
        BY <2>0, <3>5, <4>1 DEF Begin, BeginHttp, TypeOK
      <4>. QED
        BY <4>2 DEF NobodyWaitsForNothing, Idle
    <3>6. ASSUME NEW c \in Conns, OpenTunnel(c) PROVE NobodyWaitsForNothing'
      <4>1. PICK i \in Instances : i = target[c]
        BY <3>6 DEF OpenTunnel, CountInv, TargetsKnown
      <4>2. sockets'[i] # {}
        BY <2>0, <3>6, <4>1 DEF OpenTunnel, BeginSocket, TypeOK
      <4>. QED
        BY <4>2 DEF NobodyWaitsForNothing, Idle
    <3>7. ASSUME NEW c \in Conns, Handler(c) PROVE NobodyWaitsForNothing'
      BY <3>1, <3>5, <3>6, <3>7
         DEF Handler, Routed, NotRouted, SelectionFails, Resume, NoUpgradeTarget, counters
    <3>8. ASSUME NEW c \in Conns, Upstream(c) PROVE NobodyWaitsForNothing'
      BY <3>1, <3>2, <3>8 DEF Upstream, ResponseBegins, ResponseEnds, TransientError, OtherError,
                             Cut, EndHttp, counters
    <3>. QED
      BY <3>1, <3>3, <3>4, <3>7, <3>8 DEF Next, vars
  <2>. QED
    BY <2>1, <2>2
<1>. QED
  BY <1>1, <1>2, CountInvInit, CountInvStep, PTL DEF Spec

-------------------------------------------------------------------------------
(* Until a response stalls or a routed upgrade is reset, a connection whose  *)
(* response has begun is past every retry and every routing.                 *)
BegunIsPast == calm => \A c \in headSent : req[c] \in {"streaming", "cut"}

(* No retry, error or drain writes a second response head or lets an         *)
(* exception escape, as long as calm.  Inductive with the fact that a        *)
(* response that has begun is never behind a request that is routed,         *)
(* retried or answered again.                                                *)
THEOREM ExceptionsStayInside == Spec => []StaysUp
<1>. DEFINE Inv == TypeOK /\ StaysUp /\ BegunIsPast
<1>1. Init => Inv
  BY CountInvInit DEF Init, StaysUp, BegunIsPast, CountInv
<1>2. CountInv /\ Inv /\ [Next]_vars => Inv'
  <2>. SUFFICES ASSUME CountInv, Inv, [Next]_vars PROVE Inv'
    OBVIOUS
  <2>0. TypeOK'
    BY CountInvStep DEF CountInv
  <2>. USE DEF StaysUp, BegunIsPast, TypeOK, Become
  <2>1. CASE UNCHANGED vars
    BY <2>1 DEF vars
  <2>2. CASE Drain
    BY <2>0, <2>2 DEF Drain, StartDrain, ServersClosed, HttpWaitTimesOut, SocketWaitTimesOut,
                      requestVars
  <2>3. ASSUME NEW c \in Conns, Client(c) \/ IdleClose(c) PROVE Inv'
    <3>1. CASE Connect(c) \/ IdleClose(c) \/ Arrive(c, "routing") \/ Arrive(c, "upRouting")
      BY <2>0, <3>1 DEF Connect, IdleClose, Arrive
    <3>2. CASE ClientCloses(c)
      <4>1. CASE req[c] \in {"tunnel", "dying", "halfClosed"}
        <5>1. UNCHANGED <<headSent, up, calm>> /\ Become(c, "none")
          BY ONLY <3>2, <4>1 DEF ClientCloses
        <5>. QED
          BY <2>0, <4>1, <5>1
      <4>2. CASE req[c] \notin {"tunnel", "dying", "halfClosed"}
        <5>1. UNCHANGED <<req, headSent>>
          BY <3>2, <4>2 DEF ClientCloses
        <5>2. (calm' => up') /\ (calm' => calm)
          BY ONLY <3>2, <4>2 DEF ClientCloses
        <5>. QED
          BY <2>0, <5>1, <5>2
      <4>. QED
        BY <4>1, <4>2
    <3>. QED
      BY <2>3, <3>1, <3>2 DEF Client
  <2>4. ASSUME NEW c \in Conns, Handler(c) PROVE Inv'
    <3>1. ASSUME NEW i \in Instances, Routed(c, i) PROVE Inv'
      BY <2>0, <3>1 DEF Routed
    <3>2. CASE NotRouted(c)
      BY <2>0, <3>2 DEF NotRouted, RetryOrElse, Respond, Over
    <3>3. CASE Resume(c) \/ Begin(c)
      BY <2>0, <3>3 DEF Resume, Begin
    <3>4. CASE NoUpgradeTarget(c) \/ OpenTunnel(c)
      BY <2>0, <3>4 DEF NoUpgradeTarget, OpenTunnel
    <3>5. CASE SelectionFails(c)
      BY <2>0, <3>5 DEF SelectionFails, Respond, Over
    <3>. QED
      BY <2>4, <3>1, <3>2, <3>3, <3>4, <3>5 DEF Handler
  <2>5. ASSUME NEW c \in Conns, Upstream(c) \/ TargetCloses(c) PROVE Inv'
    <3>1. CASE ResponseBegins(c)
      BY <2>0, <3>1 DEF ResponseBegins
    <3>2. CASE ResponseEnds(c)
      BY <2>0, <3>2 DEF ResponseEnds, Over
    <3>3. CASE TransientError(c) \/ OtherError(c)
      BY <2>0, <3>3 DEF TransientError, OtherError, TargetFails, RetryOrElse, Respond, Over
    <3>4. CASE Cut(c) \/ TargetCloses(c)
      BY <2>0, <3>4 DEF Cut, TargetCloses
    <3>. QED
      BY <2>5, <3>1, <3>2, <3>3, <3>4 DEF Upstream
  <2>. QED
    BY <2>1, <2>2, <2>3, <2>4, <2>5 DEF Next
<1>. QED
  BY <1>1, <1>2, CountInvInit, CountInvStep, PTL DEF Spec
===============================================================================
