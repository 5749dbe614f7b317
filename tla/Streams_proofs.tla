---------------------------- MODULE Streams_proofs ----------------------------
(***************************************************************************)
(* What a subscriber gets of a node's stream, in memory and over Redis, for *)
(* every number of subscribers, of calls of the application, of chunks      *)
(* logged and of commands that fail.                                       *)
(***************************************************************************)
EXTENDS Streams, FiniteSetTheorems, TLAPS

FlowTypes ==
  /\ inbox \in [Subscribers -> Seq(Messages)]
  /\ got \in [Subscribers -> Seq(Messages)]
  /\ flying \subseteq Messages /\ failed \subseteq Messages
  /\ late \in [Subscribers -> Nat]

(* A message of a caller does not come after a later one, unless its PUBLISH *)
(* has failed.                                                               *)
InOrder(m, n) == m.by = n.by /\ m.by \in Callers /\ m.n > n.n => n \in failed

Precedes(m, n) == m # n /\ InOrder(m, n)

(* A message that may have been published. *)
Past(m) == m.n <= sent[m.by]

(* Over Redis a caller awaits each answer: what is on its way of a caller's, *)
(* and has not failed, is the last it has published.                         *)
OneInFlight ==
  /\ backend # "redis" => flying = {} /\ told = {} /\ \A s \in Subscribers : inbox[s] = <<>>
  /\ \A m \in flying : Past(m)
  /\ \A m \in flying : m.by \in Callers /\ m \notin failed => m.n = sent[m.by]

OnceFor(s) == Cardinality(Wants[s]) <= 1

(* What a handler was called with comes before what is in the buffer, and    *)
(* that before what is on its way.                                           *)
Line(s) ==
  /\ \A i \in DOMAIN got[s] : Past(got[s][i])
  /\ \A i \in DOMAIN inbox[s] : Past(inbox[s][i])
  /\ \A i, j \in DOMAIN got[s] : i < j =>
       InOrder(got[s][i], got[s][j]) /\ (OnceFor(s) => got[s][i] # got[s][j])
  /\ \A i, j \in DOMAIN inbox[s] : i < j => Precedes(inbox[s][i], inbox[s][j])
  /\ \A i \in DOMAIN got[s], j \in DOMAIN inbox[s] : Precedes(got[s][i], inbox[s][j])
  /\ \A m \in flying :
       /\ \A i \in DOMAIN got[s] : Precedes(got[s][i], m)
       /\ \A i \in DOMAIN inbox[s] : Precedes(inbox[s][i], m)

(* A handler that is called late is called by a loop that has ended. *)
LateEnds ==
  \A s \in Subscribers :
    late[s] <= 1 /\ (late[s] > 0 => reading[s] = "ended" /\ sub[s] \in {"closed", "broken"})

DeliveryInv ==
  TypeOK /\ FlowTypes /\ OneInFlight /\ (\A s \in Subscribers : Line(s)) /\ LateEnds

-------------------------------------------------------------------------------
(* Sequences *)

LEMMA AppendFacts ==
  ASSUME NEW S, NEW q \in Seq(S), NEW x \in S
  PROVE  /\ Append(q, x) \in Seq(S) /\ Append(q, x) # <<>>
         /\ Len(q) \in Nat /\ DOMAIN q = 1 .. Len(q)
         /\ DOMAIN Append(q, x) = 1 .. Len(q) + 1
         /\ \A i \in DOMAIN q : Append(q, x)[i] = q[i]
         /\ Append(q, x)[Len(q) + 1] = x
OBVIOUS

LEMMA TailFacts ==
  ASSUME NEW S, NEW q \in Seq(S), q # <<>>
  PROVE  /\ Tail(q) \in Seq(S) /\ Head(q) = q[1] /\ 1 \in DOMAIN q /\ Head(q) \in S
         /\ \A i \in DOMAIN Tail(q) : Tail(q)[i] = q[i + 1] /\ i + 1 \in DOMAIN q /\ 1 < i + 1
         /\ \A i, j \in DOMAIN Tail(q) : i \in Int /\ j \in Int /\ (i < j => i + 1 < j + 1)
OBVIOUS

LEMMA ConcatFacts ==
  ASSUME NEW S, NEW p \in Seq(S), NEW q \in Seq(S)
  PROVE  /\ p \o q \in Seq(S) /\ DOMAIN p = 1 .. Len(p) /\ DOMAIN q = 1 .. Len(q)
         /\ Len(p) \in Nat /\ Len(q) \in Nat
         /\ DOMAIN (p \o q) = 1 .. Len(p) + Len(q)
         /\ \A i \in DOMAIN p : (p \o q)[i] = p[i]
         /\ \A i \in DOMAIN (p \o q) : i \notin DOMAIN p => (p \o q)[i] \in {q[j] : j \in DOMAIN q}
<1>1. /\ p \o q \in Seq(S) /\ DOMAIN p = 1 .. Len(p) /\ DOMAIN q = 1 .. Len(q)
      /\ Len(p) \in Nat /\ Len(q) \in Nat
      /\ DOMAIN (p \o q) = 1 .. Len(p) + Len(q)
  OBVIOUS
<1>2. \A i \in 1 .. Len(p) + Len(q) : (p \o q)[i] = IF i <= Len(p) THEN p[i] ELSE q[i - Len(p)]
  OBVIOUS
<1>3. \A i \in 1 .. Len(p) + Len(q) : i \notin 1 .. Len(p) => i - Len(p) \in 1 .. Len(q)
  BY <1>1
<1>. QED
  BY <1>1, <1>2, <1>3

LEMMA RangeFacts ==
  ASSUME NEW S, NEW q \in Seq(S)
  PROVE  Range(q) \subseteq S
BY DEF Range

LEMMA FewAreFinite ==
  ASSUME NEW a, NEW b, NEW c, NEW d, NEW e, NEW f, NEW g
  PROVE  IsFiniteSet({a, b}) /\ IsFiniteSet({a, b, c, d, e, f, g})
<1>1. IsFiniteSet({a, b})
  <2>1. IsFiniteSet({a}) /\ {a, b} = {a} \cup {b}
    BY FS_Singleton
  <2>. QED
    BY <2>1, FS_AddElement
<1>2. IsFiniteSet({a, b, c, d})
  <2>1. IsFiniteSet({a, b} \cup {c})
    BY <1>1, FS_AddElement
  <2>2. {a, b, c, d} = ({a, b} \cup {c}) \cup {d}
    OBVIOUS
  <2>. QED
    BY <2>1, <2>2, FS_AddElement
<1>3. IsFiniteSet({a, b, c, d, e, f})
  <2>1. IsFiniteSet({a, b, c, d} \cup {e})
    BY <1>2, FS_AddElement
  <2>2. {a, b, c, d, e, f} = ({a, b, c, d} \cup {e}) \cup {f}
    OBVIOUS
  <2>. QED
    BY <2>1, <2>2, FS_AddElement
<1>4. {a, b, c, d, e, f, g} = {a, b, c, d, e, f} \cup {g}
  OBVIOUS
<1>. QED
  BY <1>1, <1>3, <1>4, FS_AddElement

(* A publication in memory calls a handler once, or twice if it asks for more *)
(* than one type.                                                            *)
LEMMA CallsFacts ==
  ASSUME NEW s \in Subscribers, NEW m \in Messages
  PROVE  Calls(s, m) \in Nat /\ (OnceFor(s) => Calls(s, m) <= 1)
<1>. DEFINE W == IF Wants[s] = {} THEN {"*"} ELSE Wants[s]
            T == {m.type, "*"} \cap W
<1>1. CASE sub[s] # "ready" \/ ~ Matches(s, m)
  <2>1. Calls(s, m) = 0
    BY <1>1 DEF Calls
  <2>. QED
    BY <2>1
<1>2. CASE ~ (sub[s] # "ready" \/ ~ Matches(s, m))
  <2>1. IsFiniteSet({m.type, "*"})
    BY FewAreFinite
  <2>2. IsFiniteSet(T) /\ Cardinality(T) \in Nat
    BY <2>1, FS_Subset, FS_CardinalityType
  <2>3. OnceFor(s) => Cardinality(T) <= 1
    <3>1. CASE Wants[s] = {}
      <4>1. IsFiniteSet({"*"}) /\ Cardinality({"*"}) = 1
        BY FS_Singleton
      <4>2. T \subseteq {"*"}
        BY <3>1
      <4>. QED
        BY <2>2, <4>1, <4>2, FS_Subset
    <3>2. CASE Wants[s] # {}
      <4>. DEFINE All == {"*", "mesh.log", "log", "event", "lifecycle", "job", "stopped"}
      <4>1. Wants[s] \subseteq All
        BY SubscribersAssumption
      <4>2. IsFiniteSet(All)
        BY FewAreFinite
      <4>3. IsFiniteSet(Wants[s]) /\ Cardinality(Wants[s]) \in Nat
        BY <4>1, <4>2, FS_Subset, FS_CardinalityType
      <4>4. T \subseteq Wants[s]
        BY <3>2
      <4>5. Cardinality(T) <= Cardinality(Wants[s])
        BY <4>3, <4>4, FS_Subset
      <4>. QED
        BY <2>2, <4>3, <4>5 DEF OnceFor
    <3>. QED
      BY <3>1, <3>2
  <2>4. Calls(s, m) = Cardinality(T)
    BY <1>2 DEF Calls
  <2>. QED
    BY <2>2, <2>3, <2>4
<1>. QED
  BY <1>1, <1>2

-------------------------------------------------------------------------------
(* Publishing *)

(* What a publisher publishes next: no message that has been published is the *)
(* same, or comes after it.                                                  *)
LEMMA NextIsNewest ==
  ASSUME TypeOK, NEW p \in Publishers, NEW type \in Types, Publish(p, type)
  PROVE  \E m \in Messages :
           /\ m = Message(type, p, sent[p] + 1) /\ m.by = p /\ m.n = sent'[p]
           /\ Past(m)' /\ sent'[p] = sent[p] + 1
           /\ \A x \in Messages : Past(x) => Past(x)' /\ Precedes(x, m)
           /\ \A x \in Messages : x.by # p => sent'[x.by] = sent[x.by]
           /\ sent' \in [Publishers -> Nat]
<1>1. sent \in [Publishers -> Nat] /\ sent' = [sent EXCEPT ![p] = sent[p] + 1]
  BY DEF TypeOK, Publish
<1>2. sent' \in [Publishers -> Nat] /\ sent'[p] = sent[p] + 1 /\ sent[p] \in Nat
  BY <1>1
<1>3. PICK m \in Messages : m = Message(type, p, sent[p] + 1)
  BY <1>2 DEF Messages, Message
<1>4. m.by = p /\ m.n = sent[p] + 1
  BY <1>3 DEF Message
<1>5. \A x \in Messages : x.by \in Publishers /\ x.n \in Nat
  BY DEF Messages
<1>6. \A x \in Messages : Past(x) => Past(x)' /\ Precedes(x, m)
  BY <1>1, <1>2, <1>4, <1>5 DEF Past, Precedes, InOrder
<1>7. Past(m)'
  BY <1>2, <1>4 DEF Past
<1>8. \A x \in Messages : x.by # p => sent'[x.by] = sent[x.by]
  BY <1>1, <1>5
<1>. QED
  BY <1>2, <1>3, <1>4, <1>6, <1>7, <1>8

(* The handlers, in memory: each is called with the message alone, once if it *)
(* asks for one type.                                                        *)
LEMMA EmitFacts ==
  ASSUME DeliveryInv, NEW m \in Messages, Emit(m)
  PROVE  /\ got' \in [Subscribers -> Seq(Messages)]
         /\ \A s \in Subscribers :
              /\ DOMAIN got[s] \subseteq DOMAIN got'[s]
              /\ \A i \in DOMAIN got[s] : got'[s][i] = got[s][i]
              /\ \A i \in DOMAIN got'[s] : i \notin DOMAIN got[s] => got'[s][i] = m
              /\ \A i, j \in DOMAIN got'[s] :
                   i \in Int /\ j \in Int /\ (i < j /\ j \in DOMAIN got[s] => i \in DOMAIN got[s])
              /\ OnceFor(s) => \A i, j \in DOMAIN got'[s] :
                                 i \notin DOMAIN got[s] /\ j \notin DOMAIN got[s] => i = j
<1>1. PICK calls \in [Subscribers -> 0..2] :
        /\ \A s \in Subscribers : calls[s] <= Calls(s, m)
        /\ got' = [s \in Subscribers |-> got[s] \o [i \in 1..calls[s] |-> m]]
  BY DEF Emit
<1>2. ASSUME NEW s \in Subscribers
      PROVE  /\ got'[s] \in Seq(Messages)
             /\ DOMAIN got[s] \subseteq DOMAIN got'[s]
             /\ \A i \in DOMAIN got[s] : got'[s][i] = got[s][i]
             /\ \A i \in DOMAIN got'[s] : i \notin DOMAIN got[s] => got'[s][i] = m
             /\ \A i, j \in DOMAIN got'[s] :
                  i \in Int /\ j \in Int /\ (i < j /\ j \in DOMAIN got[s] => i \in DOMAIN got[s])
             /\ OnceFor(s) => \A i, j \in DOMAIN got'[s] :
                                i \notin DOMAIN got[s] /\ j \notin DOMAIN got[s] => i = j
  <2>. DEFINE g == got[s] k == calls[s] c == [i \in 1..k |-> m] h == got'[s]
  <2>1. h = g \o c /\ g \in Seq(Messages) /\ k \in 0..2
    BY <1>1 DEF DeliveryInv, FlowTypes
  <2>2. OnceFor(s) => k <= 1
    BY <1>1, <2>1, CallsFacts
  <2>. HIDE DEF g, k
  <2>3. c \in Seq(Messages) /\ Len(c) = k /\ \A i \in DOMAIN c : c[i] = m
    BY <2>1
  <2>. HIDE DEF c
  <2>4. /\ g \o c \in Seq(Messages) /\ DOMAIN g = 1 .. Len(g) /\ DOMAIN c = 1 .. Len(c)
        /\ Len(g) \in Nat /\ Len(c) \in Nat
        /\ DOMAIN (g \o c) = 1 .. Len(g) + Len(c)
        /\ \A i \in DOMAIN g : (g \o c)[i] = g[i]
        /\ \A i \in DOMAIN (g \o c) : i \notin DOMAIN g => (g \o c)[i] \in {c[j] : j \in DOMAIN c}
    BY <2>1, <2>3, ConcatFacts
  <2>5. \A i \in DOMAIN (g \o c) : i \notin DOMAIN g => (g \o c)[i] = m
    BY <2>3, <2>4
  <2>. HIDE DEF h
  <2>6. DOMAIN h = 1 .. Len(g) + k /\ h \in Seq(Messages)
    BY <2>1, <2>3, <2>4
  <2>7. /\ DOMAIN g \subseteq DOMAIN h /\ \A i \in DOMAIN g : h[i] = g[i]
        /\ \A i \in DOMAIN h : i \notin DOMAIN g => h[i] = m
    BY <2>1, <2>4, <2>5
  <2>8. \A i, j \in DOMAIN h : i \in Int /\ j \in Int /\ (i < j /\ j \in DOMAIN g => i \in DOMAIN g)
    BY <2>4, <2>6
  <2>9. OnceFor(s) => \A i, j \in DOMAIN h : i \notin DOMAIN g /\ j \notin DOMAIN g => i = j
    BY <2>1, <2>2, <2>4, <2>6
  <2>. QED
    BY <2>6, <2>7, <2>8, <2>9 DEF g, h
<1>3. got' \in [Subscribers -> Seq(Messages)]
  BY <1>1, <1>2
<1>. QED
  BY <1>2, <1>3

LEMMA Publishes ==
  ASSUME DeliveryInv, NEW p \in Publishers, NEW type \in Types, Publish(p, type),
         p \in Callers => ~ Awaits(p)
  PROVE  /\ FlowTypes' /\ OneInFlight' /\ \A s \in Subscribers : Line(s)'
         /\ sent' \in [Publishers -> Nat]
<1>. USE DEF DeliveryInv, FlowTypes
<1>0. UNCHANGED <<backend, failed, sub, told, inbox, reading, off, late>>
  BY DEF Publish
<1>1. PICK m \in Messages :
        /\ m = Message(type, p, sent[p] + 1) /\ m.by = p /\ m.n = sent'[p]
        /\ Past(m)' /\ sent'[p] = sent[p] + 1
        /\ \A x \in Messages : Past(x) => Past(x)' /\ Precedes(x, m)
        /\ \A x \in Messages : x.by # p => sent'[x.by] = sent[x.by]
        /\ sent' \in [Publishers -> Nat]
  BY NextIsNewest
<1>2. /\ backend = "memory" => Emit(m)
      /\ backend # "memory" => UNCHANGED got
      /\ flying' = IF backend = "redis" THEN flying \cup {m} ELSE flying
  BY <1>1 DEF Publish
<1>3. flying' \subseteq flying \cup {m}
  BY <1>2
<1>4. \A x \in flying : Past(x) /\ x \in Messages
  BY DEF OneInFlight
<1>5. InOrder(m, m)
  <2>1. m.n \in Nat
    BY DEF Messages
  <2>. QED
    BY <2>1 DEF InOrder
<1>6. FlowTypes'
  BY <1>0, <1>2, <1>3, EmitFacts
<1>7. OneInFlight'
  <2>1. ASSUME NEW x \in flying', x.by \in Callers, x \notin failed PROVE x.n = sent'[x.by]
    <3>1. CASE x = m
      BY <1>1, <3>1
    <3>2. CASE x \in flying /\ x.by # p
      BY <1>1, <1>4, <2>1, <3>2 DEF OneInFlight
    <3>3. ~ (x \in flying /\ x.by = p)
      BY <2>1 DEF Awaits
    <3>. QED
      BY <1>3, <3>1, <3>2, <3>3
  <2>2. \A x \in flying' : Past(x)'
    BY <1>1, <1>3, <1>4
  <2>3. backend # "redis" => flying' = {} /\ told' = {} /\ \A s \in Subscribers : inbox'[s] = <<>>
    BY <1>0, <1>2 DEF OneInFlight
  <2>. QED
    BY <1>0, <2>1, <2>2, <2>3 DEF OneInFlight
<1>8. ASSUME NEW s \in Subscribers PROVE Line(s)'
  <2>. DEFINE g == got[s] h == got'[s]
  <2>0. g \in Seq(Messages) /\ inbox[s] \in Seq(Messages)
    OBVIOUS
  <2>3. /\ \A i \in DOMAIN g : g[i] \in Messages /\ Past(g[i])
        /\ \A i \in DOMAIN inbox[s] : inbox[s][i] \in Messages /\ Past(inbox[s][i])
    BY <2>0 DEF Line
  <2>4. /\ DOMAIN g \subseteq DOMAIN h /\ \A i \in DOMAIN g : h[i] = g[i]
        /\ \A i \in DOMAIN h : i \notin DOMAIN g => h[i] = m
        /\ \A i, j \in DOMAIN h : i \in Int /\ j \in Int /\ (i < j /\ j \in DOMAIN g => i \in DOMAIN g)
        /\ OnceFor(s) => \A i, j \in DOMAIN h : i \notin DOMAIN g /\ j \notin DOMAIN g => i = j
    <3>1. CASE backend = "memory"
      BY <1>2, <3>1, EmitFacts
    <3>2. CASE backend # "memory"
      <4>1. h = g /\ DOMAIN g = 1 .. Len(g) /\ Len(g) \in Nat
        BY <1>2, <2>0, <3>2
      <4>. HIDE DEF g, h
      <4>. QED
        BY <2>0, <4>1
    <3>. QED
      BY <3>1, <3>2
  <2>6. backend = "memory" => DOMAIN inbox[s] = {}
    BY DEF OneInFlight
  <2>7. backend # "memory" => h = g
    BY <1>2
  <2>. HIDE DEF g, h
  <2>8. \A i \in DOMAIN h : h[i] \in Messages /\ (Past(h[i]) \/ h[i] = m)
    BY <2>3, <2>4
  <2>14. \A i \in DOMAIN got'[s] : Past(got[s][i])'
    <3>1. \A i \in DOMAIN h : h[i].n <= sent'[h[i].by]
      BY <1>1, <2>8 DEF Past
    <3>. QED
      BY <3>1 DEF h, Past
  <2>9. ASSUME NEW i \in DOMAIN h, NEW j \in DOMAIN h, i < j
        PROVE  InOrder(h[i], h[j]) /\ (OnceFor(s) => h[i] # h[j])
    <3>1. CASE j \in DOMAIN g
      <4>1. i \in DOMAIN g /\ h[i] = g[i] /\ h[j] = g[j]
        BY <2>4, <2>9, <3>1
      <4>. QED
        BY <2>9, <3>1, <4>1 DEF Line, g
    <3>2. CASE j \notin DOMAIN g /\ i \in DOMAIN g
      <4>1. Precedes(g[i], m) /\ h[i] = g[i] /\ h[j] = m
        BY <1>1, <2>3, <2>4, <3>2
      <4>. QED
        BY <4>1 DEF Precedes
    <3>3. CASE j \notin DOMAIN g /\ i \notin DOMAIN g
      BY <1>5, <2>4, <2>9, <3>3
    <3>. QED
      BY <3>1, <3>2, <3>3
  <2>10. \A i \in DOMAIN h, j \in DOMAIN inbox[s] : Precedes(h[i], inbox[s][j])
    BY <2>6, <2>7 DEF Line, g
  <2>11. ASSUME NEW x \in flying'
         PROVE  /\ \A i \in DOMAIN h : Precedes(h[i], x)
                /\ \A i \in DOMAIN inbox[s] : Precedes(inbox[s][i], x)
    <3>1. h = g \/ flying' = {}
      BY <1>2, <2>7 DEF OneInFlight
    <3>2. h = g
      BY <3>1
    <3>3. CASE x = m
      BY <1>1, <2>3, <3>2, <3>3
    <3>4. CASE x \in flying
      BY <3>2, <3>4 DEF Line, g
    <3>. QED
      BY <1>3, <3>3, <3>4
  <2>12. \A i \in DOMAIN inbox'[s] : Past(inbox[s][i])'
    <3>1. \A i \in DOMAIN inbox[s] : inbox[s][i].n <= sent'[inbox[s][i].by]
      BY <1>1, <2>3 DEF Past
    <3>. QED
      BY <1>0, <3>1 DEF Past
  <2>13. \A i, j \in DOMAIN inbox[s] : i < j => Precedes(inbox[s][i], inbox[s][j])
    BY DEF Line
  <2>. QED
    BY <1>0, <2>9, <2>10, <2>11, <2>12, <2>13, <2>14 DEF Line, h, InOrder, Precedes, OnceFor
<1>. QED
  BY <1>1, <1>6, <1>7, <1>8

-------------------------------------------------------------------------------
(* Steps *)

Control ==
  /\ backend \in Backends
  /\ record \in BOOLEAN /\ signal \in {"none", "drained", "stopped"}
  /\ sent \in [Publishers -> Nat]
  /\ sub \in [Subscribers -> {"none", "connecting", "ready", "failed", "closed", "broken"}]
  /\ told \cup off \subseteq Subscribers
  /\ reading \in [Subscribers -> {"none", "reads", "waits", "ended"}]
  /\ \A s \in Subscribers : reading[s] = "reads" => inbox[s] # <<>>

LEMMA ControlIsType ==
  /\ Control /\ FlowTypes => TypeOK
  /\ Control' /\ FlowTypes' => TypeOK'
  /\ TypeOK => Control
<1>1. ASSUME FlowTypes, NEW s \in Subscribers
      PROVE  Range(inbox[s]) \subseteq Messages /\ Range(got[s]) \subseteq Messages
  BY <1>1, RangeFacts DEF FlowTypes
<1>2. ASSUME FlowTypes', NEW s \in Subscribers
      PROVE  Range(inbox'[s]) \subseteq Messages /\ Range(got'[s]) \subseteq Messages
  BY <1>2, RangeFacts DEF FlowTypes
<1>3. (Control /\ FlowTypes => TypeOK) /\ (TypeOK => Control)
  BY <1>1 DEF Control, FlowTypes, TypeOK
<1>4. Control' /\ FlowTypes' => TypeOK'
  BY <1>2 DEF Control, FlowTypes, TypeOK
<1>. QED
  BY <1>3, <1>4

(* The part of the invariant about what flows, when nothing does. *)
LEMMA Rests ==
  ASSUME DeliveryInv, UNCHANGED <<backend, sent, flying, failed, inbox, got>>,
         told' = {} \/ backend = "redis"
  PROVE  OneInFlight' /\ \A s \in Subscribers : Line(s)'
<1>1. OneInFlight'
  BY DEF DeliveryInv, OneInFlight, Past
<1>2. \A s \in Subscribers : Line(s)'
  BY DEF DeliveryInv, Line, Past, OnceFor, Precedes, InOrder
<1>. QED
  BY <1>1, <1>2

LEMMA SubscriptionStep ==
  ASSUME DeliveryInv, NEW s \in Subscribers,
         Subscribe(s) \/ Connected(s) \/ Confirm(s) \/ Unsubscribe(s) \/ Forget(s) \/ Break(s)
  PROVE  DeliveryInv'
<1>. USE DEF publishing, channel
<1>1. UNCHANGED <<backend, record, signal, sent, flying, failed, inbox, got, late>>
  BY DEF Subscribe, Connected, Confirm, Unsubscribe, Forget, Break
<1>2. FlowTypes'
  BY <1>1 DEF DeliveryInv, FlowTypes
<1>3. told' = {} \/ backend = "redis"
  BY DEF Subscribe, Connected, Confirm, Unsubscribe, Forget, Break, DeliveryInv, OneInFlight
<1>4. Control
  BY ControlIsType DEF DeliveryInv
<1>5. Control'
  BY <1>1, <1>4 DEF Control, Subscribe, Connected, Confirm, Unsubscribe, Forget, Break
<1>6. LateEnds'
  BY <1>1, <1>4 DEF DeliveryInv, LateEnds, Control, Subscribe, Connected, Confirm, Unsubscribe,
                    Forget, Break
<1>7. TypeOK'
  BY <1>2, <1>5, ControlIsType
<1>. QED
  BY <1>1, <1>2, <1>3, <1>6, <1>7, Rests DEF DeliveryInv

LEMMA PublishStep ==
  ASSUME DeliveryInv, Node
  PROVE  DeliveryInv'
<1>. USE DEF publishing, channel, subs
<1>0. Control
  BY ControlIsType DEF DeliveryInv
<1>1. record' \in BOOLEAN /\ signal' \in {"none", "drained", "stopped"}
  BY <1>0 DEF Control, Node, NodeStart, NodeEmit, NodeDrain, NodeStop, SignalDrain, SignalStop,
              NodeLog, App, SignalStep
<1>2. \/ \E p \in Publishers, type \in Types : Publish(p, type) /\ (p \in Callers => ~ Awaits(p))
      \/ UNCHANGED <<backend, sent, channel, subs>>
  <2>1. CASE NodeStart \/ NodeEmit \/ NodeDrain \/ NodeStop
    BY <2>1 DEF NodeStart, NodeEmit, NodeDrain, NodeStop, App, Publishers, Callers, Types
  <2>2. CASE SignalDrain \/ SignalStop
    BY <2>2 DEF SignalDrain, SignalStop, SignalStep, Publishers, Callers, Types
  <2>3. CASE NodeLog
    BY <2>3 DEF NodeLog, Publishers, Callers, Types
  <2>. QED
    BY <2>1, <2>2, <2>3 DEF Node
<1>3. CASE UNCHANGED <<backend, sent, channel, subs>>
  <2>1. OneInFlight' /\ \A s \in Subscribers : Line(s)'
    BY <1>3, Rests DEF DeliveryInv, OneInFlight
  <2>2. FlowTypes' /\ LateEnds'
    BY <1>3 DEF DeliveryInv, FlowTypes, LateEnds
  <2>3. Control'
    BY <1>0, <1>1, <1>3 DEF Control
  <2>. QED
    BY <2>1, <2>2, <2>3, ControlIsType DEF DeliveryInv
<1>4. ASSUME NEW p \in Publishers, NEW type \in Types, Publish(p, type), p \in Callers => ~ Awaits(p)
      PROVE  DeliveryInv'
  <2>1. UNCHANGED <<backend, failed, sub, told, inbox, reading, off, late>>
    BY <1>4 DEF Publish
  <2>2. /\ FlowTypes' /\ OneInFlight' /\ \A s \in Subscribers : Line(s)'
        /\ sent' \in [Publishers -> Nat]
    BY <1>4, Publishes
  <2>3. Control'
    BY <1>0, <1>1, <2>1, <2>2 DEF Control
  <2>4. LateEnds'
    BY <2>1 DEF DeliveryInv, LateEnds
  <2>. QED
    BY <2>2, <2>3, <2>4, ControlIsType DEF DeliveryInv
<1>. QED
  BY <1>2, <1>3, <1>4

LEMMA LoseStep ==
  ASSUME DeliveryInv, NEW m \in flying, Lose(m)
  PROVE  DeliveryInv'
<1>. USE DEF publishing, channel, subs, DeliveryInv
<1>1. /\ flying' \subseteq flying /\ failed' = failed \cup {m} /\ m \in Messages
      /\ UNCHANGED <<backend, record, signal, sent, sub, told, inbox, reading, off, late, got>>
  BY DEF Lose, FlowTypes
<1>2. FlowTypes' /\ LateEnds'
  BY <1>1 DEF FlowTypes, LateEnds
<1>3. OneInFlight'
  BY <1>1 DEF OneInFlight, Past
<1>4. ASSUME NEW s \in Subscribers PROVE Line(s)'
  <2>3. /\ \A i \in DOMAIN got'[s] : Past(got[s][i])'
        /\ \A i \in DOMAIN inbox'[s] : Past(inbox[s][i])'
    BY <1>1 DEF Line, Past
  <2>4. /\ \A i, j \in DOMAIN got'[s] : i < j =>
             InOrder(got[s][i], got[s][j])' /\ (OnceFor(s) => got'[s][i] # got'[s][j])
        /\ \A i, j \in DOMAIN inbox'[s] : i < j => Precedes(inbox[s][i], inbox[s][j])'
        /\ \A i \in DOMAIN got'[s], j \in DOMAIN inbox'[s] : Precedes(got[s][i], inbox[s][j])'
    BY <1>1 DEF Line, Precedes, InOrder
  <2>5. \A x \in flying' :
          /\ \A i \in DOMAIN got'[s] : Precedes(got[s][i], x)'
          /\ \A i \in DOMAIN inbox'[s] : Precedes(inbox[s][i], x)'
    BY <1>1 DEF Line, Precedes, InOrder
  <2>. QED
    BY <2>3, <2>4, <2>5 DEF Line, OnceFor
<1>5. Control'
  BY <1>1, ControlIsType DEF Control
<1>. QED
  BY <1>2, <1>3, <1>4, <1>5, ControlIsType

LEMMA ArriveStep ==
  ASSUME DeliveryInv, NEW m \in flying, Arrive(m)
  PROVE  DeliveryInv'
<1>. USE DEF publishing, channel, subs, DeliveryInv
<1>1. /\ flying' = flying \ {m} /\ m \in Messages
      /\ UNCHANGED <<backend, record, signal, sent, failed, sub, told, got, off, late>>
  BY DEF Arrive, FlowTypes
<1>2. \A x \in Messages : Past(x)' <=> Past(x)
  BY <1>1 DEF Past
<1>3. \A s \in Subscribers : inbox'[s] = inbox[s] \/ inbox'[s] = Append(inbox[s], m)
  BY DEF Arrive
<1>4. FlowTypes'
  <2>1. \A s \in Subscribers : inbox'[s] \in Seq(Messages)
    <3>1. \A s \in Subscribers : inbox[s] \in Seq(Messages)
      BY DEF FlowTypes
    <3>2. \A s \in Subscribers : Append(inbox[s], m) \in Seq(Messages)
      BY <1>1, <3>1, AppendFacts
    <3>. QED
      BY <1>3, <3>1, <3>2
  <2>2. inbox' \in [Subscribers -> Seq(Messages)]
    BY <2>1 DEF Arrive, FlowTypes
  <2>. QED
    BY <1>1, <2>2 DEF FlowTypes
<1>5. OneInFlight'
  <2>1. backend = "redis"
    BY DEF OneInFlight
  <2>. QED
    BY <1>1, <1>2, <2>1 DEF OneInFlight, FlowTypes
<1>6. ASSUME NEW s \in Subscribers PROVE Line(s)'
  <2>. DEFINE q == inbox[s] r == inbox'[s]
  <2>0. q \in Seq(Messages) /\ got[s] \in Seq(Messages) /\ Past(m)
    BY DEF FlowTypes, OneInFlight
  <2>1. /\ \A i \in DOMAIN r : (i \in DOMAIN q /\ r[i] = q[i]) \/ (i = Len(q) + 1 /\ r[i] = m)
        /\ DOMAIN q = 1 .. Len(q) /\ Len(q) \in Nat
    <3>1. CASE r = q
      BY <2>0, <3>1
    <3>2. CASE r = Append(q, m)
      BY <1>1, <2>0, <3>2, AppendFacts
    <3>. QED
      BY <1>3, <3>1, <3>2
  <2>2. UNCHANGED <<got, failed>>
    BY <1>1
  <2>3. /\ \A i \in DOMAIN got[s] : got[s][i] \in Messages /\ Past(got[s][i])
        /\ \A i \in DOMAIN q : q[i] \in Messages /\ Past(q[i])
    BY <2>0 DEF Line
  <2>4. /\ \A i, j \in DOMAIN q : i < j => Precedes(q[i], q[j])
        /\ \A i \in DOMAIN q : Precedes(q[i], m)
        /\ \A i \in DOMAIN got[s] : Precedes(got[s][i], m)
        /\ \A i \in DOMAIN got[s], j \in DOMAIN q : Precedes(got[s][i], q[j])
    BY DEF Line
  <2>5. ASSUME NEW x \in flying'
        PROVE  /\ \A i \in DOMAIN got[s] : Precedes(got[s][i], x)
               /\ \A i \in DOMAIN q : Precedes(q[i], x)
               /\ Precedes(m, x)
    <3>1. x \in flying /\ x # m /\ x \in Messages
      BY <1>1 DEF FlowTypes
    <3>2. m.n <= sent[m.by] /\ (x.by \in Callers /\ x \notin failed => x.n = sent[x.by])
      BY <3>1 DEF OneInFlight, Past
    <3>3. m.n \in Nat /\ x.n \in Nat
      BY <1>1, <3>1 DEF Messages
    <3>4. InOrder(m, x)
      BY <3>2, <3>3 DEF InOrder
    <3>. QED
      BY <3>1, <3>4 DEF Line, Precedes
  <2>6. \A i \in DOMAIN inbox'[s] : Past(inbox[s][i])'
    BY <1>1, <2>0, <2>1, <2>3 DEF Past
  <2>7. \A i \in DOMAIN got[s] : Past(got[s][i])'
    BY <1>1, <2>3 DEF Past
  <2>. HIDE DEF q, r
  <2>8. \A i, j \in DOMAIN r : i < j => Precedes(r[i], r[j])
    BY <2>1, <2>4
  <2>9. \A i \in DOMAIN got[s], j \in DOMAIN r : Precedes(got[s][i], r[j])
    BY <2>1, <2>4
  <2>10. \A x \in flying' : \A i \in DOMAIN r : Precedes(r[i], x)
    BY <2>1, <2>5
  <2>11. \A i, j \in DOMAIN got[s] : i < j =>
           InOrder(got[s][i], got[s][j]) /\ (OnceFor(s) => got[s][i] # got[s][j])
    BY DEF Line
  <2>. QED
    BY <2>2, <2>5, <2>6, <2>7, <2>8, <2>9, <2>10, <2>11 DEF Line, r, Precedes, InOrder, OnceFor
<1>7. Control'
  <2>1. Control
    BY ControlIsType
  <2>3. \A s \in Subscribers : Append(inbox[s], m) # <<>>
    BY <1>1, AppendFacts DEF FlowTypes
  <2>5. /\ reading' \in [Subscribers -> {"none", "reads", "waits", "ended"}]
        /\ \A s \in Subscribers : reading'[s] = "reads" => inbox'[s] # <<>>
    BY <2>1, <2>3 DEF Control, Arrive
  <2>. QED
    BY <1>1, <2>1, <2>5 DEF Control
<1>8. LateEnds'
  BY <1>1 DEF LateEnds, Arrive, Heard
<1>. QED
  BY <1>4, <1>5, <1>6, <1>7, <1>8, ControlIsType

LEMMA ReadStep ==
  ASSUME DeliveryInv, NEW s \in Subscribers, Read(s)
  PROVE  DeliveryInv'
<1>. USE DEF publishing, channel, DeliveryInv
<1>. DEFINE q == inbox[s] g == got[s] m == Head(inbox[s])
<1>1. /\ q \in Seq(Messages) /\ g \in Seq(Messages) /\ q # <<>>
      /\ UNCHANGED <<backend, record, signal, sent, flying, failed, told, off>>
  BY DEF Read, FlowTypes
<1>2. /\ Tail(q) \in Seq(Messages) /\ m = q[1] /\ 1 \in DOMAIN q /\ m \in Messages
      /\ \A i \in DOMAIN Tail(q) : Tail(q)[i] = q[i + 1] /\ i + 1 \in DOMAIN q /\ 1 < i + 1
      /\ \A i, j \in DOMAIN Tail(q) : i \in Int /\ j \in Int /\ (i < j => i + 1 < j + 1)
  BY <1>1, TailFacts
<1>3. /\ got' = IF Wanted(s, m) THEN [got EXCEPT ![s] = Append(g, m)] ELSE got
      /\ inbox' = [inbox EXCEPT ![s] = IF reading'[s] = "ended" THEN <<>> ELSE Tail(q)]
  BY DEF Read, Handle, Rest, FlowTypes
<1>. HIDE DEF q, g, m
<1>4. /\ got'[s] = g \/ got'[s] = Append(g, m)
      /\ inbox'[s] = <<>> \/ inbox'[s] = Tail(q)
      /\ \A t \in Subscribers \ {s} : got'[t] = got[t] /\ inbox'[t] = inbox[t]
  BY <1>3 DEF FlowTypes, g
<1>5. Append(g, m) \in Seq(Messages)
  BY <1>1, <1>2, AppendFacts
<1>6. FlowTypes'
  <2>1. got' \in [Subscribers -> Seq(Messages)] /\ inbox' \in [Subscribers -> Seq(Messages)]
    BY <1>2, <1>3, <1>5 DEF FlowTypes
  <2>2. late' \in [Subscribers -> Nat]
    <3>1. late' = late \/ late' = [late EXCEPT ![s] = IF sub[s] = "closed" THEN late[s] + 1 ELSE late[s]]
      BY DEF Read, Handle
    <3>2. late \in [Subscribers -> Nat] /\ late[s] \in Nat
      BY DEF FlowTypes
    <3>. QED
      BY <3>1, <3>2
  <2>. QED
    BY <1>1, <2>1, <2>2 DEF FlowTypes
<1>7. \A x : Past(x) <=> Past(x)'
  BY <1>1 DEF Past
<1>8. OneInFlight'
  <2>1. backend = "redis"
    BY <1>1 DEF OneInFlight, q
  <2>. QED
    BY <1>1, <2>1 DEF OneInFlight, Past
<1>9. Line(s)'
  <2>. DEFINE r == inbox'[s] h == got'[s]
  <2>1. \A i \in DOMAIN r : /\ i + 1 \in DOMAIN q /\ r[i] = q[i + 1] /\ 1 < i + 1
                            /\ \A j \in DOMAIN r : i < j => i + 1 < j + 1
    BY <1>2, <1>4
  <2>2. /\ \A i \in DOMAIN h : (i \in DOMAIN g /\ h[i] = g[i]) \/ (i = Len(g) + 1 /\ h[i] = m)
        /\ DOMAIN g = 1 .. Len(g) /\ Len(g) \in Nat
    <3>1. CASE h = g
      BY <1>1, <3>1
    <3>2. CASE h = Append(g, m)
      BY <1>1, <1>2, <3>2, AppendFacts
    <3>. QED
      BY <1>4, <3>1, <3>2
  <2>3. /\ \A i \in DOMAIN g : Past(g[i])
        /\ \A i \in DOMAIN q : Past(q[i])
        /\ \A i, j \in DOMAIN g : i < j => InOrder(g[i], g[j]) /\ (OnceFor(s) => g[i] # g[j])
        /\ \A i, j \in DOMAIN q : i < j => Precedes(q[i], q[j])
        /\ \A i \in DOMAIN g, j \in DOMAIN q : Precedes(g[i], q[j])
        /\ \A x \in flying :
             /\ \A i \in DOMAIN g : Precedes(g[i], x)
             /\ \A i \in DOMAIN q : Precedes(q[i], x)
    BY DEF Line, g, q
  <2>. HIDE DEF r, h
  <2>4. \A i \in DOMAIN h : Past(h[i])
    BY <1>2, <2>2, <2>3
  <2>5. \A i \in DOMAIN r : Past(r[i])
    BY <2>1, <2>3
  <2>6. \A i, j \in DOMAIN h : i < j => InOrder(h[i], h[j]) /\ (OnceFor(s) => h[i] # h[j])
    BY <1>2, <2>2, <2>3 DEF Precedes
  <2>7. \A i, j \in DOMAIN r : i < j => Precedes(r[i], r[j])
    BY <2>1, <2>3
  <2>8. \A i \in DOMAIN h, j \in DOMAIN r : Precedes(h[i], r[j])
    BY <1>2, <2>1, <2>2, <2>3
  <2>9. \A x \in flying : /\ \A i \in DOMAIN h : Precedes(h[i], x)
                          /\ \A i \in DOMAIN r : Precedes(r[i], x)
    BY <1>2, <2>1, <2>2, <2>3
  <2>10. \A i \in DOMAIN got'[s] : Past(got[s][i])'
    BY <1>1, <2>4 DEF Past, h
  <2>11. \A i \in DOMAIN inbox'[s] : Past(inbox[s][i])'
    BY <1>1, <2>5 DEF Past, r
  <2>. QED
    BY <1>1, <2>6, <2>7, <2>8, <2>9, <2>10, <2>11 DEF Line, r, h, Precedes, InOrder, OnceFor
<1>10. ASSUME NEW t \in Subscribers, t # s PROVE Line(t)'
  BY <1>1, <1>4, <1>10 DEF Line, Past, Precedes, InOrder, OnceFor
<1>11. Control'
  <2>1. Control
    BY ControlIsType
  <2>2. /\ reading' \in [Subscribers -> {"none", "reads", "waits", "ended"}]
        /\ sub' \in [Subscribers -> {"none", "connecting", "ready", "failed", "closed", "broken"}]
    BY <2>1 DEF Control, Read, NextRead
  <2>3. \A t \in Subscribers \ {s} : reading'[t] = reading[t]
    BY <2>1 DEF Control, Read
  <2>4. reading'[s] = "reads" => Tail(q) # <<>>
    BY <2>1 DEF Control, Read, NextRead, Rest, q
  <2>5. reading'[s] = "reads" => inbox'[s] # <<>>
    BY <1>3, <2>4 DEF FlowTypes
  <2>. QED
    BY <1>1, <1>4, <2>1, <2>2, <2>3, <2>5 DEF Control
<1>12. LateEnds'
  <2>1. Control
    BY ControlIsType
  <2>2. \A t \in Subscribers \ {s} : UNCHANGED <<late[t], reading[t], sub[t]>>
    BY <2>1 DEF Read, Handle, FlowTypes, Control
  <2>3. late[s] = 0
    BY DEF Read, LateEnds, FlowTypes
  <2>4. late'[s] = 0 \/ (sub[s] = "closed" /\ late'[s] = 1)
    BY <2>3 DEF Read, Handle, FlowTypes
  <2>5. sub[s] = "closed" => reading'[s] = "ended" /\ sub'[s] \in {"closed", "broken"}
    BY <2>1 DEF Read, NextRead, Control
  <2>. QED
    BY <2>2, <2>4, <2>5 DEF LateEnds
<1>. QED
  BY <1>6, <1>8, <1>9, <1>10, <1>11, <1>12, ControlIsType

(* A handler is called with what one caller publishes in the order of its    *)
(* calls, but for what comes late of a PUBLISH that had failed; with each    *)
(* message at most once if it asks for one type; and at most once after it   *)
(* has unsubscribed.  The invariant looks at a message's whole way: what a   *)
(* handler was called with precedes what is in the buffer, and that what is  *)
(* on its way to Redis, where of each caller only the last message has not   *)
(* failed.                                                                   *)
THEOREM StreamsDeliver == Spec => []DeliveryHolds
<1>1. Init => DeliveryInv
  <2>. SUFFICES ASSUME Init PROVE DeliveryInv
    OBVIOUS
  <2>1. FlowTypes
    BY DEF Init, FlowTypes
  <2>2. Control
    BY DEF Init, Control
  <2>3. OneInFlight /\ LateEnds
    BY DEF Init, OneInFlight, LateEnds
  <2>4. ASSUME NEW s \in Subscribers PROVE Line(s)
    <3>1. got[s] = <<>> /\ inbox[s] = <<>> /\ flying = {}
      BY DEF Init
    <3>. QED
      BY <3>1 DEF Line
  <2>. QED
    BY <2>1, <2>2, <2>3, <2>4, ControlIsType DEF DeliveryInv
<1>2. DeliveryInv /\ [Next]_vars => DeliveryInv'
  <2>. SUFFICES ASSUME DeliveryInv, [Next]_vars PROVE DeliveryInv'
    OBVIOUS
  <2>1. CASE UNCHANGED vars
    <3>1. OneInFlight' /\ \A s \in Subscribers : Line(s)'
      BY <2>1, Rests DEF vars, publishing, channel, subs, DeliveryInv, OneInFlight
    <3>. QED
      BY <2>1, <3>1 DEF vars, publishing, channel, subs, DeliveryInv, TypeOK, FlowTypes, LateEnds
  <2>. QED
    BY <2>1, PublishStep, ArriveStep, LoseStep, SubscriptionStep, ReadStep DEF Next
<1>3. DeliveryInv => DeliveryHolds
  <2>. SUFFICES ASSUME DeliveryInv PROVE DeliveryHolds
    OBVIOUS
  <2>. USE DEF DeliveryInv
  <2>1. \A s \in Subscribers : DOMAIN got[s] = 1 .. Len(got[s])
    BY DEF FlowTypes
  <2>2. CallersInOrder
    BY DEF CallersInOrder, Line, InOrder
  <2>3. DeliveredOnce
    <3>. SUFFICES ASSUME NEW s \in Subscribers, OnceFor(s), NEW i \in DOMAIN got[s],
                         NEW j \in DOMAIN got[s], i # j
                  PROVE  got[s][i] # got[s][j]
      BY DEF DeliveredOnce, OnceFor
    <3>1. i < j \/ j < i
      BY <2>1
    <3>. QED
      BY <3>1 DEF Line
  <2>4. LateByOne
    BY DEF LateByOne, LateEnds
  <2>. QED
    BY <2>2, <2>3, <2>4 DEF DeliveryHolds
<1>. QED
  BY <1>1, <1>2, <1>3, PTL DEF Spec
===============================================================================
