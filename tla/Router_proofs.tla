----------------------------- MODULE Router_proofs -----------------------------
(***************************************************************************)
(* Proofs about what decides where a request goes, for all values of the    *)
(* constants: the rules of RouteMatcher (Routes), the configurations they   *)
(* come from (Config), the selection of targets (Routing), and the front of *)
(* the router (RequestFront).                                               *)
(***************************************************************************)
EXTENDS Config, Routing, RequestFront, FiniteSetTheorems, TLAPS

-------------------------------------------------------------------------------
(* Routes: the order of RouteMatcher *)

AllRoutes == Range(RouteOrder)

(* A function into the naturals has a least value on every set that is not    *)
(* empty.                                                                     *)
LEMMA LeastOne ==
  ASSUME NEW S, S # {}, NEW f \in [S -> Nat]
  PROVE  \E x \in S : \A y \in S : f[x] <= f[y]
<1>. DEFINE Values == {f[x] : x \in S}
<1>1. PICK v \in Values : \A w \in Values : ~ (<<w, v>> \in OpToRel(<, Nat))
  <2>1. Values \subseteq Nat /\ Values # {}
    OBVIOUS
  <2>. HIDE DEF Values
  <2>. QED
    BY <2>1, NatLessThanWellFounded, WFMin
<1>2. \A w \in Values : v <= w
  <2>. SUFFICES ASSUME NEW w \in Values, w < v
                PROVE  FALSE
    OBVIOUS
  <2>. QED
    BY <1>1 DEF OpToRel
<1>. QED
  BY <1>2

LEMMA WorthType == ASSUME NEW s \in Segments PROVE Worth(s) \in Nat \ {0}
<1>1. Widths[s] \in Nat
  BY RoutesAssumption
<1>2. SegmentScore(s) \in Nat
  BY <1>1 DEF SegmentScore
<1>. QED
  BY <1>1, <1>2 DEF Worth

(* A route has finitely many points.                                          *)
LEMMA ScoreType ==
  ASSUME NEW route \in Seq(Segments)
  PROVE  IsFiniteSet(Points(route)) /\ Score(route) \in Nat
<1>. DEFINE f == [n \in DOMAIN route |-> {n} \X (1 .. Worth(route[n]))]
            S == {{n} \X (1 .. Worth(route[n])) : n \in DOMAIN route}
<1>1. ASSUME NEW n \in DOMAIN route PROVE IsFiniteSet({n} \X (1 .. Worth(route[n])))
  <2>1. Worth(route[n]) \in Nat
    BY WorthType
  <2>2. IsFiniteSet({n}) /\ IsFiniteSet(1 .. Worth(route[n]))
    <3>1. IsFiniteSet({n})
      BY FS_Singleton
    <3>2. Worth(route[n]) \in Int /\ 1 \in Int
      BY <2>1
    <3>. QED
      BY <3>1, <3>2, FS_Interval
  <2>. QED
    BY <2>2, FS_Product
<1>2. IsFiniteSet(DOMAIN route)
  BY FS_Interval
<1>3. f \in Surjection(DOMAIN route, S)
  BY DEF Surjection
<1>4. IsFiniteSet(S)
  BY <1>2, <1>3, FS_Surjection
<1>5. IsFiniteSet(UNION S)
  BY <1>1, <1>4, FS_UNION
<1>. QED
  BY <1>5, FS_CardinalityType DEF Points, Score

LEMMA RoutesAreTyped ==
  ASSUME NEW route \in AllRoutes
  PROVE  /\ route \in Seq(Segments) /\ Score(route) \in Nat
         /\ RouteIndex(route) \in Nat /\ RouteOrder[RouteIndex(route)] = route
<1>1. PICK n \in DOMAIN RouteOrder : RouteOrder[n] = route
  BY DEF AllRoutes, Range
<1>2. RouteIndex(route) \in DOMAIN RouteOrder /\ RouteOrder[RouteIndex(route)] = route
  BY <1>1 DEF RouteIndex
<1>. QED
  BY <1>1, <1>2, RoutesAssumption, ScoreType

(* No score is above the number of all points.                                *)
LEMMA ScoresAreBounded == \E bound \in Nat : \A route \in AllRoutes : Score(route) <= bound
<1>. DEFINE f == [n \in DOMAIN RouteOrder |-> Points(RouteOrder[n])]
            S == {Points(route) : route \in AllRoutes}
<1>1. f \in Surjection(DOMAIN RouteOrder, S)
  BY DEF Surjection, AllRoutes, Range
<1>2. IsFiniteSet(S)
  BY <1>1, FS_Interval, FS_Surjection, RoutesAssumption
<1>3. ASSUME NEW T \in S PROVE IsFiniteSet(T)
  BY RoutesAreTyped, ScoreType
<1>4. IsFiniteSet(UNION S)
  BY <1>2, <1>3, FS_UNION
<1>5. ASSUME NEW route \in AllRoutes PROVE Score(route) <= Cardinality(UNION S)
  <2>1. Points(route) \subseteq UNION S
    OBVIOUS
  <2>. HIDE DEF S
  <2>. QED
    BY <2>1, <1>4, FS_Subset DEF Score
<1>. QED
  BY <1>4, <1>5, FS_CardinalityType

(* A route that continues another, or is worth more where they differ and     *)
(* nowhere less, has the higher score.                                        *)
LEMMA MoreSpecific ==
  ASSUME NEW a \in Seq(Segments), NEW b \in Seq(Segments), Len(a) <= Len(b),
         \A n \in DOMAIN a : Worth(a[n]) <= Worth(b[n]),
         Len(a) < Len(b) \/ \E n \in DOMAIN a : Worth(a[n]) < Worth(b[n])
  PROVE  Score(a) < Score(b)
<1>. /\ \A n \in DOMAIN b : Worth(b[n]) \in Nat \ {0}
     /\ \A n \in DOMAIN a : Worth(a[n]) \in Nat \ {0}
  BY WorthType
<1>1. \A s \in {a, b} : \A n, k : <<n, k>> \in Points(s) <=> n \in DOMAIN s /\ k \in 1 .. Worth(s[n])
  BY DEF Points
<1>2. Points(a) \subseteq Points(b)
  <2>. SUFFICES ASSUME NEW p \in Points(a) PROVE p \in Points(b)
    OBVIOUS
  <2>1. PICK n \in DOMAIN a : p \in {n} \X (1 .. Worth(a[n]))
    BY DEF Points
  <2>2. PICK k \in 1 .. Worth(a[n]) : p = <<n, k>>
    BY <2>1
  <2>. QED
    BY <1>1, <2>2
<1>3. \E n \in DOMAIN b : <<n, Worth(b[n])>> \in Points(b) /\ <<n, Worth(b[n])>> \notin Points(a)
  <2>1. CASE Len(a) < Len(b)
    <3>1. Len(b) \in DOMAIN b /\ Len(b) \notin DOMAIN a
      BY <2>1
    <3>2. <<Len(b), Worth(b[Len(b)])>> \in Points(b) /\ <<Len(b), Worth(b[Len(b)])>> \notin Points(a)
      BY <1>1, <3>1
    <3>. QED
      BY <3>1, <3>2
  <2>2. CASE \E n \in DOMAIN a : Worth(a[n]) < Worth(b[n])
    <3>1. PICK n \in DOMAIN a : Worth(a[n]) < Worth(b[n])
      BY <2>2
    <3>2. n \in DOMAIN b /\ Worth(b[n]) \in 1 .. Worth(b[n]) /\ Worth(b[n]) \notin 1 .. Worth(a[n])
      BY <3>1
    <3>3. <<n, Worth(b[n])>> \in Points(b) /\ <<n, Worth(b[n])>> \notin Points(a)
      BY <1>1, <3>2
    <3>. QED
      BY <3>2, <3>3
  <2>. QED
    BY <2>1, <2>2
<1>4. Points(a) # Points(b)
  BY <1>3
<1>5. IsFiniteSet(Points(b)) /\ Score(a) \in Nat /\ Score(b) \in Nat
  BY ScoreType
<1>. QED
  BY <1>2, <1>4, <1>5, FS_Subset DEF Score

LEMMA SameRoute ==
  ASSUME NEW a \in Seq(Segments), NEW b \in Seq(Segments), Len(a) <= Len(b),
         \A n \in DOMAIN a : a[n] = b[n] \/ Worth(a[n]) < Worth(b[n]),
         Score(a) >= Score(b)
  PROVE  a = b
<1>1. \A n \in DOMAIN a : Worth(a[n]) <= Worth(b[n])
  <2>. SUFFICES ASSUME NEW n \in DOMAIN a PROVE Worth(a[n]) <= Worth(b[n])
    OBVIOUS
  <2>1. Worth(a[n]) \in Nat /\ Worth(b[n]) \in Nat
    BY WorthType
  <2>. QED
    BY <2>1
<1>2. ~ (Score(a) < Score(b))
  BY ScoreType
<1>3. ~ (Len(a) < Len(b))
  BY <1>1, <1>2, MoreSpecific
<1>4. ASSUME NEW n \in DOMAIN a PROVE a[n] = b[n]
  <2>1. ~ (Worth(a[n]) < Worth(b[n]))
    BY <1>1, <1>2, MoreSpecific
  <2>. QED
    BY <2>1
<1>5. Len(a) = Len(b)
  BY <1>3
<1>. QED
  BY <1>4, <1>5

(* Where any candidate matches there is a best one, and BestMatch returns it. *)
LEMMA BestIsBest ==
  ASSUME NEW path, NEW candidates,
         \A c \in candidates : c.route \in AllRoutes /\ c.rank \in Nat,
         HasMatch(path, candidates)
  PROVE  /\ BestMatch(path, candidates) \in candidates
         /\ RouteMatches(path, BestMatch(path, candidates).route)
         /\ \A c \in candidates :
              RouteMatches(path, c.route) => Precedes(BestMatch(path, candidates), c)
<1>. DEFINE M == {c \in candidates : RouteMatches(path, c.route)}
<1>1. M # {} /\ \A c \in M : /\ c.rank \in Nat /\ Score(c.route) \in Nat
                            /\ RouteIndex(c.route) \in Nat /\ RouteOrder[RouteIndex(c.route)] = c.route
  BY RoutesAreTyped DEF HasMatch
<1>2. PICK bound \in Nat : \A c \in M : Score(c.route) <= bound
  BY ScoresAreBounded
<1>3. \E best \in M : \A c \in M : Precedes(best, c)
  <2>. HIDE DEF M
  <2>1. PICK a \in M : \A c \in M : Score(c.route) <= Score(a.route)
    <3>. DEFINE f == [c \in M |-> bound - Score(c.route)]
    <3>1. f \in [M -> Nat]
      BY <1>1, <1>2
    <3>2. PICK a \in M : \A c \in M : f[a] <= f[c]
      <4>. HIDE DEF f
      <4>. QED
        BY <1>1, <3>1, LeastOne
    <3>. QED
      BY <1>1, <1>2, <3>2
  <2>. DEFINE A == {c \in M : Score(c.route) = Score(a.route)}
  <2>2. PICK b \in A : \A c \in A : RouteIndex(b.route) <= RouteIndex(c.route)
    <3>. DEFINE f == [c \in A |-> RouteIndex(c.route)]
    <3>1. f \in [A -> Nat] /\ A # {}
      BY <1>1
    <3>2. PICK b \in A : \A c \in A : f[b] <= f[c]
      <4>. HIDE DEF f, A
      <4>. QED
        BY <3>1, LeastOne
    <3>. QED
      BY <3>2
  <2>. DEFINE B == {c \in A : RouteIndex(c.route) = RouteIndex(b.route)}
  <2>3. PICK best \in B : \A c \in B : best.rank <= c.rank
    <3>. DEFINE f == [c \in B |-> c.rank]
    <3>1. f \in [B -> Nat] /\ B # {}
      BY <1>1
    <3>2. PICK best \in B : \A c \in B : f[best] <= f[c]
      <4>. HIDE DEF f, B
      <4>. QED
        BY <3>1, LeastOne
    <3>. QED
      BY <3>2
  <2>4. ASSUME NEW c \in M PROVE Precedes(best, c)
    <3>1. CASE c \in B
      BY <1>1, <2>3, <3>1 DEF Precedes
    <3>2. CASE c \in A \ B
      <4>1. RouteIndex(best.route) < RouteIndex(c.route)
        BY <1>1, <2>2, <3>2
      <4>. QED
        BY <3>2, <4>1 DEF Precedes
    <3>3. CASE c \notin A
      <4>1. Score(best.route) > Score(c.route)
        BY <1>1, <2>1, <3>3
      <4>. QED
        BY <4>1 DEF Precedes
    <3>. QED
      BY <3>1, <3>2, <3>3
  <2>. QED
    BY <2>4
<1>4. BestMatch(path, candidates) = CHOOSE best \in M : \A c \in M : Precedes(best, c)
  BY DEF BestMatch
<1>. QED
  BY <1>3, <1>4

(* Its score is the highest.                                                  *)
LEMMA BestHasHighestScore ==
  ASSUME NEW path, NEW candidates,
         \A c \in candidates : c.route \in AllRoutes /\ c.rank \in Nat,
         NEW c \in candidates, RouteMatches(path, c.route)
  PROVE  Score(BestMatch(path, candidates).route) >= Score(c.route)
<1>1. HasMatch(path, candidates)
  BY DEF HasMatch
<1>2. Precedes(BestMatch(path, candidates), c) /\ BestMatch(path, candidates) \in candidates
  BY <1>1, BestIsBest
<1>. QED
  BY <1>2, RoutesAreTyped DEF Precedes

-------------------------------------------------------------------------------
(* Config: the parts of a configuration *)

Stages == {"load", "runtime", "router", "registry", "streaming", "coordination", "hsm", "tests",
           "services", "ci", "done", "rejected"}

(* What each part is once it is made, and as long as the parts it was derived *)
(* from are what they were.                                                   *)
RegistryMade ==
  /\ made["registry"] = Registry(raw.registry)
  /\ made["registry"].type = "redis" => Truthy(made["registry"].url)

StreamingMade ==
  /\ made["streaming"] = Streaming(raw.streaming, made["registry"])
  /\ made["streaming"].transport = "redis" => Truthy(made["streaming"].url)

CoordinationMade ==
  /\ made["coordination"] = Coordination(raw.coordination, made["registry"])
  /\ made["coordination"].locks.backend = "redis" => Truthy(made["coordination"].locks.url)

HsmMade ==
  \/ made["hsm"] = NoHsm
  \/ /\ raw.hsm # None /\ raw.hsm.schema # None
     /\ made["hsm"] = [enabled |-> TRUE,
                       routes |-> MappedRoutes(raw.hsm.schema, Mappings, raw.hsm.mode,
                                               DOMAIN raw.services)]

ServicesMade ==
  /\ made["services"] = [name \in DOMAIN raw.services |-> Service(name)]
  /\ \A name \in DOMAIN raw.services : Wrong(name) = None

CiMade ==
  /\ made["ci"].envMeshenv = raw.ci.envMeshenv
  /\ made["ci"].envSecrets = Secrets(raw.ci)

ConfigInv ==
  /\ raw \in RawConfigs /\ stage \in Stages /\ DOMAIN made = Parts
  /\ rejected = None <=> stage # "rejected"
  /\ made["router"] \in {None, Router(raw.router)}
  /\ made["services"] = None \/ ServicesMade
  /\ stage \in Stages \ {"ci", "done", "rejected"} => made["services"] = None
  /\ stage \in {"streaming", "coordination", "hsm", "tests", "services", "ci", "done"} => RegistryMade
  /\ stage \in {"coordination", "hsm", "tests", "services", "ci", "done"} => StreamingMade
  /\ stage \in {"hsm", "tests", "services", "ci", "done"} => CoordinationMade
  /\ stage \in {"tests", "services", "ci", "done"} => HsmMade
  /\ stage \in {"ci", "done"} => ServicesMade
  /\ stage = "done" => CiMade

(* A part is made without a change to another; a rejection changes none.      *)
LEMMA MadeOne ==
  ASSUME ConfigInv, NEW part \in Parts, NEW value, NEW next, Make(part, value, next)
  PROVE  /\ made'[part] = value /\ DOMAIN made' = Parts
         /\ \A other \in Parts \ {part} : made'[other] = made[other]
         /\ stage' = next /\ raw' = raw /\ rejected' = rejected
  BY DEF ConfigInv, Make

(* A part that is made stays what it is while those it was derived from do.   *)
LEMMA PartsKept ==
  ASSUME raw' = raw, NEW changed \in SUBSET Parts,
         \A other \in Parts \ changed : made'[other] = made[other]
  PROVE  /\ "registry" \notin changed => (RegistryMade => RegistryMade')
         /\ changed \cap {"registry", "streaming"} = {} => (StreamingMade => StreamingMade')
         /\ changed \cap {"registry", "coordination"} = {} => (CoordinationMade => CoordinationMade')
         /\ "hsm" \notin changed => (HsmMade => HsmMade')
         /\ changed \cap {"runtime", "hsm", "services"} = {} => (ServicesMade => ServicesMade')
         /\ changed \cap {"services", "ci"} = {} => (CiMade => CiMade')
<1>. USE DEF Parts
<1>1. "registry" \notin changed => (RegistryMade => RegistryMade')
  BY DEF RegistryMade
<1>2. changed \cap {"registry", "streaming"} = {} => (StreamingMade => StreamingMade')
  BY DEF StreamingMade
<1>3. changed \cap {"registry", "coordination"} = {} => (CoordinationMade => CoordinationMade')
  BY DEF CoordinationMade
<1>4. "hsm" \notin changed => (HsmMade => HsmMade')
  BY DEF HsmMade, Mappings
<1>5. changed \cap {"runtime", "hsm", "services"} = {} => (ServicesMade => ServicesMade')
  <2>. SUFFICES ASSUME changed \cap {"runtime", "hsm", "services"} = {}, ServicesMade
                PROVE  ServicesMade'
    OBVIOUS
  <2>1. /\ made'["runtime"] = made["runtime"] /\ made'["hsm"] = made["hsm"]
        /\ made'["services"] = made["services"]
    OBVIOUS
  <2>2. ASSUME NEW name \in DOMAIN raw.services
        PROVE  Wrong(name)' = Wrong(name) /\ Service(name)' = Service(name)
    BY <2>1 DEF Wrong, Service, RoutesFor
  <2>. QED
    BY <2>1, <2>2 DEF ServicesMade
<1>6. changed \cap {"services", "ci"} = {} => (CiMade => CiMade')
  BY DEF CiMade, Secrets, EnvOf
<1>. QED
  BY <1>1, <1>2, <1>3, <1>4, <1>5, <1>6

LEMMA Rejected ==
  ASSUME ConfigInv, NEW reason \in Errors, Reject(reason)
  PROVE  ConfigInv'
<1>1. /\ raw' = raw /\ made' = made /\ stage' = "rejected" /\ rejected' = reason /\ reason # None
  BY ConfigAssumption DEF Reject
<1>2. ServicesMade => ServicesMade'
  BY <1>1, PartsKept, {} \in SUBSET Parts
<1>. QED
  BY <1>1, <1>2 DEF ConfigInv, Stages

LEMMA ConfigInvStep == ConfigInv /\ [ConfigNext]_configVars => ConfigInv'
<1>. SUFFICES ASSUME ConfigInv, [ConfigNext]_configVars
              PROVE  ConfigInv'
  OBVIOUS
<1>1. CASE Load
  <2>1. CASE /\ stage = "load" /\ stage' = "runtime" /\ UNCHANGED <<raw, made, rejected>>
    BY <2>1 DEF ConfigInv, Stages
  <2>. QED
    BY <1>1, <2>1, Rejected DEF Errors, Load
<1>2. CASE NormalizeRuntime
  <2>. stage = "runtime"
    BY <1>2 DEF NormalizeRuntime
  <2>. DEFINE range == Default(raw.runtime.portRange, DefaultPortRange)
              runtime == [mode |-> Default(raw.runtime.mode, "process"), portRange |-> range]
  <2>1. CASE Make("runtime", runtime, "router")
    <3>1. /\ made'["runtime"] = runtime /\ DOMAIN made' = Parts
         /\ \A other \in Parts \ {"runtime"} : made'[other] = made[other]
         /\ stage' = "router" /\ raw' = raw /\ rejected' = rejected
      BY <2>1, MadeOne DEF Parts
    <3>. QED
      BY <3>1 DEF ConfigInv, Stages, Parts
  <2>2. CASE Reject("bad range")
    BY <2>2, Rejected DEF Errors
  <2>3. IF IsRange(range) THEN Make("runtime", runtime, "router") ELSE Reject("bad range")
    BY <1>2 DEF NormalizeRuntime
  <2>. HIDE DEF range, runtime
  <2>. QED
    BY <2>1, <2>2, <2>3
<1>3. CASE NormalizeRouter
  <2>. stage = "router"
    BY <1>3 DEF NormalizeRouter
  <2>1. CASE Make("router", Router(raw.router), "registry")
    <3>1. /\ made'["router"] = Router(raw.router) /\ DOMAIN made' = Parts
         /\ \A other \in Parts \ {"router"} : made'[other] = made[other]
         /\ stage' = "registry" /\ raw' = raw /\ rejected' = rejected
      BY <2>1, MadeOne DEF Parts
    <3>. QED
      BY <3>1 DEF ConfigInv, Stages, Parts
  <2>. QED
    BY <1>3, <2>1, Rejected DEF Errors, NormalizeRouter
<1>4. CASE NormalizeRegistry
  <2>. stage = "registry"
    BY <1>4 DEF NormalizeRegistry
  <2>. DEFINE registry == Registry(raw.registry)
  <2>1. CASE /\ ~ (registry.type = "redis" /\ ~ Truthy(raw.registry.url))
             /\ Make("registry", registry, "streaming")
    <3>0. /\ made'["registry"] = registry /\ DOMAIN made' = Parts
         /\ \A other \in Parts \ {"registry"} : made'[other] = made[other]
         /\ stage' = "streaming" /\ raw' = raw /\ rejected' = rejected
      BY <2>1, MadeOne DEF Parts
    <3>1. RegistryMade'
      BY <2>1, <3>0 DEF RegistryMade, Registry, Truthy, Default, Parts
    <3>. QED
      BY <3>0, <3>1 DEF ConfigInv, Stages, Parts
  <2>. QED
    BY <1>4, <2>1, Rejected DEF Errors, NormalizeRegistry
<1>5. CASE NormalizeStreaming
  <2>. stage = "streaming"
    BY <1>5 DEF NormalizeStreaming
  <2>. DEFINE streaming == Streaming(raw.streaming, made["registry"])
  <2>1. CASE /\ ~ (streaming.transport = "redis" /\ ~ Truthy(streaming.url))
             /\ Make("streaming", streaming, "coordination")
    <3>0. /\ made'["streaming"] = streaming /\ DOMAIN made' = Parts
         /\ \A other \in Parts \ {"streaming"} : made'[other] = made[other]
         /\ stage' = "coordination" /\ raw' = raw /\ rejected' = rejected
      BY <2>1, MadeOne DEF Parts
    <3>1. StreamingMade' /\ (RegistryMade => RegistryMade')
      BY <2>1, <3>0 DEF StreamingMade, RegistryMade, Truthy, Parts
    <3>. QED
      BY <3>0, <3>1 DEF ConfigInv, Stages, Parts
  <2>. QED
    BY <1>5, <2>1, Rejected DEF Errors, NormalizeStreaming
<1>6. CASE NormalizeCoordination
  <2>. stage = "coordination"
    BY <1>6 DEF NormalizeCoordination
  <2>. DEFINE coordination == Coordination(raw.coordination, made["registry"])
  <2>1. CASE /\ ~ (coordination.locks.backend = "redis" /\ ~ Truthy(coordination.locks.url))
             /\ Make("coordination", coordination, "hsm")
    <3>0. /\ made'["coordination"] = coordination /\ DOMAIN made' = Parts
         /\ \A other \in Parts \ {"coordination"} : made'[other] = made[other]
         /\ stage' = "hsm" /\ raw' = raw /\ rejected' = rejected
      BY <2>1, MadeOne DEF Parts
    <3>1. CoordinationMade' /\ (RegistryMade => RegistryMade') /\ (StreamingMade => StreamingMade')
      BY <2>1, <3>0 DEF CoordinationMade, StreamingMade, RegistryMade, Truthy, Parts
    <3>. QED
      BY <3>0, <3>1 DEF ConfigInv, Stages, Parts
  <2>. QED
    BY <1>6, <2>1, Rejected DEF Errors, NormalizeCoordination
<1>7. CASE NormalizeHsm
  <2>. stage = "hsm"
    BY <1>7 DEF NormalizeHsm
  <2>1. ASSUME NEW value, Make("hsm", value, "tests"),
               \/ value = NoHsm
               \/ /\ raw.hsm # None /\ raw.hsm.schema # None
                  /\ value = [enabled |-> TRUE,
                              routes |-> MappedRoutes(raw.hsm.schema, Mappings, raw.hsm.mode,
                                                      DOMAIN raw.services)]
        PROVE  ConfigInv'
    <3>0. /\ made'["hsm"] = value /\ DOMAIN made' = Parts
         /\ \A other \in Parts \ {"hsm"} : made'[other] = made[other]
         /\ stage' = "tests" /\ raw' = raw /\ rejected' = rejected
      BY <2>1, MadeOne DEF Parts
    <3>1. HsmMade' /\ (RegistryMade => RegistryMade') /\ (StreamingMade => StreamingMade')
          /\ (CoordinationMade => CoordinationMade')
      BY <2>1, <3>0 DEF HsmMade, CoordinationMade, StreamingMade, RegistryMade, Mappings, Parts
    <3>. QED
      BY <3>0, <3>1 DEF ConfigInv, Stages, Parts
  <2>2. ASSUME NEW m \in Mappings, Reject(WrongMapping(m)), WrongMapping(m) # None
        PROVE  ConfigInv'
    BY <2>2, Rejected DEF Errors, WrongMapping
  <2>. QED
    BY <1>7, <2>1, <2>2, Rejected DEF Errors, NormalizeHsm
<1>8. CASE NormalizeTests
  <2>. stage = "tests"
    BY <1>8 DEF NormalizeTests
  <2>1. CASE stage' = "services" /\ UNCHANGED <<raw, made, rejected>>
    BY <2>1 DEF ConfigInv, Stages, RegistryMade, StreamingMade,
                      CoordinationMade, HsmMade, Mappings
  <2>. QED
    BY <1>8, <2>1, Rejected DEF Errors, NormalizeTests
<1>9. CASE NormalizeServices
  <2>. stage = "services"
    BY <1>9 DEF NormalizeServices
  <2>1. ASSUME NEW name \in DOMAIN raw.services, Reject(Wrong(name)), Wrong(name) # None
        PROVE  ConfigInv'
    BY <2>1, Rejected DEF Errors, Wrong
  <2>. DEFINE services == [name \in DOMAIN raw.services |-> Service(name)]
  <2>2. CASE /\ \A name \in DOMAIN raw.services : Wrong(name) = None
             /\ Make("services", services, "ci")
    <3>0. /\ made'["services"] = services /\ DOMAIN made' = Parts
         /\ \A other \in Parts \ {"services"} : made'[other] = made[other]
         /\ stage' = "ci" /\ raw' = raw /\ rejected' = rejected
      BY <2>2, MadeOne DEF Parts
    <3>1. ServicesMade'
      <4>1. raw' = raw /\ made'["runtime"] = made["runtime"] /\ made'["hsm"] = made["hsm"]
        BY <3>0 DEF Parts
      <4>3. /\ made'["services"] = [name \in DOMAIN raw.services |-> Service(name)]
            /\ \A name \in DOMAIN raw.services : Wrong(name) = None
        BY <2>2, <3>0
      <4>. HIDE DEF services
      <4>2. ASSUME NEW name \in DOMAIN raw.services
            PROVE  Wrong(name)' = Wrong(name) /\ Service(name)' = Service(name)
        BY <4>1 DEF Wrong, Service, RoutesFor
      <4>. QED
        BY <4>1, <4>2, <4>3 DEF ServicesMade
    <3>2. /\ RegistryMade => RegistryMade' 
          /\ StreamingMade => StreamingMade'
          /\ CoordinationMade => CoordinationMade' 
          /\ HsmMade => HsmMade'
      BY <2>2, <3>0 DEF HsmMade, CoordinationMade, StreamingMade, RegistryMade, Mappings, Parts
    <3>. QED
      BY <3>0, <3>1, <3>2 DEF ConfigInv, Stages, Parts
  <2>. QED
    BY <1>9, <2>1, <2>2 DEF NormalizeServices
<1>10. CASE NormalizeCi
  <2>. stage = "ci"
    BY <1>10 DEF NormalizeCi
  <2>0. /\ made'["ci"].envMeshenv = raw.ci.envMeshenv /\ made'["ci"].envSecrets = Secrets(raw.ci)
        /\ \A other \in Parts \ {"ci"} : made'[other] = made[other]
        /\ DOMAIN made' = Parts /\ stage' = "done" /\ raw' = raw /\ rejected' = rejected
    BY <1>10, MadeOne DEF NormalizeCi, Parts
  <2>1. /\ CiMade'
        /\ ServicesMade => ServicesMade'
        /\ RegistryMade => RegistryMade'
        /\ StreamingMade => StreamingMade'
        /\ CoordinationMade => CoordinationMade'
        /\ HsmMade => HsmMade'
    <3>1. CiMade'
      BY <2>0 DEF CiMade, Secrets, EnvOf, Parts
    <3>. QED
      BY <2>0, <3>1, PartsKept, {"ci"} \in SUBSET Parts DEF Parts
  <2>. QED
    BY <2>0, <2>1 DEF ConfigInv, Stages, Parts
<1>11. CASE UNCHANGED configVars
  <2>1. raw' = raw /\ made' = made /\ stage' = stage /\ rejected' = rejected
    BY <1>11 DEF configVars
  <2>2. /\ RegistryMade => RegistryMade'
        /\ StreamingMade => StreamingMade'
        /\ CoordinationMade => CoordinationMade'
        /\ HsmMade => HsmMade'
        /\ ServicesMade => ServicesMade'
        /\ CiMade => CiMade'
    BY <2>1, PartsKept, {} \in SUBSET Parts
  <2>. QED
    BY <2>1, <2>2 DEF ConfigInv
<1>. QED
  BY <1>1, <1>2, <1>3, <1>4, <1>5, <1>6, <1>7, <1>8, <1>9, <1>10, <1>11 DEF ConfigNext

LEMMA ConfigInvariant == ConfigSpec => []ConfigInv
<1>1. ConfigInit => ConfigInv
  BY DEF ConfigInit, ConfigInv, Stages, Parts
<1>. QED
  BY <1>1, ConfigInvStep, PTL DEF ConfigSpec

(* What the router is given to listen on.                                     *)
LEMMA RouterPorts ==
  ASSUME ConfigInv, made["router"] # None
  PROVE  /\ made["router"].port \notin made["router"].additionalPorts
         /\ made["router"].publicPorts = made["router"].additionalPorts \cup {made["router"].port}
         /\ made["router"].publicPort \in made["router"].publicPorts
<1>. DEFINE router == Router(raw.router)
            port == Default(raw.router.port, 8080)
            ports == {port} \cup raw.router.additionalPorts
            tls == Default(raw.router.tls, FALSE)
<1>1. made["router"] = router
  BY DEF ConfigInv
<1>2. /\ router.port = port /\ router.additionalPorts = raw.router.additionalPorts \ {port}
      /\ router.publicPorts = ports
      /\ router.publicPort = CanonicalPort(tls, ports, port)
  BY DEF Router, OtherPorts
<1>3. router.publicPort \in ports
  <2>1. ASSUME NEW secured, NEW set, NEW p \in set
        PROVE  CanonicalPort(secured, set, p) \in set
    BY DEF CanonicalPort
  <2>2. port \in ports
    OBVIOUS
  <2>. HIDE DEF port, ports, tls, router
  <2>. QED
    BY <1>2, <2>1, <2>2
<1>. HIDE DEF router, port
<1>. QED
  BY <1>1, <1>2, <1>3

(* What the rest of the program relies on in a normalized configuration.      *)
LEMMA PartsAreUsable == ConfigInv => ConfigTypeOK
<1>. SUFFICES ASSUME ConfigInv
              PROVE  ConfigTypeOK
  OBVIOUS
<1>1. ASSUME made["services"] # None, NEW s \in DOMAIN made["services"]
      PROVE  /\ made["services"][s].instances \in Nat /\ IsPort(made["services"][s].containerPort)
             /\ IsRange(made["services"][s].portRange)
  <2>1. s \in DOMAIN raw.services /\ made["services"][s] = Service(s) /\ Wrong(s) = None
    BY <1>1 DEF ConfigInv, ServicesMade
  <2>2. /\ ~ (Default(raw.services[s].instances, 1) < 0)
        /\ IsPort(ContainerPort(raw.services[s]))
        /\ IsRange(Default(raw.services[s].portRange, made["runtime"].portRange))
    BY <2>1, ConfigAssumption DEF Wrong, Errors
  <2>3. Default(raw.services[s].instances, 1) \in Nat
    BY <2>1, <2>2, ConfigAssumption DEF ConfigInv, Default
  <2>. QED
    BY <2>1, <2>2, <2>3 DEF Service
<1>. QED
  BY <1>1, RouterPorts DEF ConfigInv, ConfigTypeOK

(* The parts that may share a Redis do, unless they are told otherwise.       *)
LEMMA NothingSplitsInv == ConfigInv => NothingSplits
<1>. SUFFICES ASSUME ConfigInv, stage = "done", made["registry"].type = "redis"
              PROVE  /\ raw.streaming.transport = None => made["streaming"].transport = "redis"
                     /\ raw.coordination.backend = None /\ raw.coordination.locks.backend = None =>
                          made["coordination"].locks.backend = "redis"
                     /\ made["streaming"].transport = "redis" => Truthy(made["streaming"].url)
                     /\ made["coordination"].locks.backend = "redis" =>
                          Truthy(made["coordination"].locks.url)
  BY DEF NothingSplits, Accepted
<1>1. StreamingMade /\ CoordinationMade
  BY DEF ConfigInv
<1>2. raw.streaming.transport = None => made["streaming"].transport = "redis"
  BY <1>1 DEF StreamingMade, Streaming, Default
<1>3. raw.coordination.backend = None /\ raw.coordination.locks.backend = None =>
        made["coordination"].locks.backend = "redis"
  BY <1>1 DEF CoordinationMade, Coordination, Default
<1>. QED
  BY <1>1, <1>2, <1>3 DEF StreamingMade, CoordinationMade

(* No key is both a secret and a line of .meshenv, and none of a backend or   *)
(* worker is neither.                                                         *)
LEMMA SecretsApartInv == ConfigInv => SecretsApart
<1>. SUFFICES ASSUME ConfigInv, stage = "done"
              PROVE  /\ made["ci"].envSecrets \cap made["ci"].envMeshenv = {}
                     /\ raw.ci.envSecrets = None =>
                          \A s \in DOMAIN made["services"] :
                            made["services"][s].type \in {"backend", "worker"} =>
                              made["services"][s].env
                                \subseteq made["ci"].envSecrets \cup made["ci"].envMeshenv
  BY DEF SecretsApart, Accepted
<1>1. /\ made["ci"].envMeshenv = raw.ci.envMeshenv
      /\ made["ci"].envSecrets
           = Default(raw.ci.envSecrets, EnvOf({"backend", "worker"}, "env")) \ raw.ci.envMeshenv
  BY DEF ConfigInv, CiMade, Secrets
<1>2. ASSUME NEW s \in DOMAIN made["services"],
             made["services"][s].type \in {"backend", "worker"}
      PROVE  made["services"][s].env \subseteq EnvOf({"backend", "worker"}, "env")
  <2>1. made["services"][s]["env"] = made["services"][s].env
    OBVIOUS
  <2>. QED
    BY <1>2, <2>1 DEF EnvOf
<1>. QED
  BY <1>1, <1>2 DEF Default

(* The parts of an accepted configuration agree, whatever the project writes. *)
THEOREM ConfigurationAgrees == ConfigSpec => []PartsAgree
<1>1. ConfigInv => PublicPortIsServed
  BY RouterPorts DEF PublicPortIsServed
<1>2. ConfigInv => PartsAgree
  BY <1>1, PartsAreUsable, NothingSplitsInv, SecretsApartInv DEF PartsAgree
<1>. QED
  BY <1>2, ConfigInvariant, PTL

-------------------------------------------------------------------------------
(* Config: the routes of a configuration *)

(* Routes of which none hides another: no wildcard, no segment that is also   *)
(* what a path has for a parameter, and literals that are worth more than a   *)
(* parameter.  Each is needed: what follows a wildcard counts although it is  *)
(* not compared, and a parameter adds its name's length to the score.         *)
PlainRoutes ==
  \A route \in AllRoutes : \A n \in DOMAIN route :
    /\ route[n] \notin {Wildcard, "x"}
    /\ route[n] # Param => Worth(Param) < Worth(route[n])

(* The best match of a path of a plain route is this route.                   *)
LEMMA OwnPath ==
  ASSUME PlainRoutes, NEW candidates,
         \A c \in candidates : c.route \in AllRoutes /\ c.rank \in Nat,
         NEW c \in candidates
  PROVE  LET best == BestMatch(PathOf(c.route), candidates)
         IN HasMatch(PathOf(c.route), candidates) /\ best \in candidates /\ best.route = c.route
<1>. DEFINE route == c.route
            path == PathOf(route)
            best == BestMatch(path, candidates)
<1>1. /\ route \in AllRoutes /\ route \in Seq(Segments)
      /\ DOMAIN path = DOMAIN route /\ Len(path) = Len(route)
      /\ \A n \in DOMAIN route : path[n] = IF route[n] = Param THEN "x" ELSE route[n]
  <2>1. route \in AllRoutes /\ route \in Seq(Segments)
    BY RoutesAreTyped
  <2>2. path \in Seq(Segments \cup {"x"}) /\ DOMAIN path = DOMAIN route /\ Len(path) = Len(route)
    BY <2>1 DEF PathOf
  <2>. QED
    BY <2>1, <2>2 DEF PathOf, PlainRoutes
<1>2. RouteMatches(path, route)
  <2>. HIDE DEF path, route
  <2>. QED
    BY <1>1 DEF RouteMatches
<1>3. HasMatch(path, candidates)
  BY <1>2 DEF HasMatch
<1>4. best \in candidates /\ RouteMatches(path, best.route) /\ Score(best.route) >= Score(route)
  BY <1>2, <1>3, BestIsBest, BestHasHighestScore
<1>5. /\ best.route \in AllRoutes /\ best.route \in Seq(Segments) /\ Score(best.route) \in Nat
      /\ Score(route) \in Nat
  BY <1>1, <1>4, RoutesAreTyped
<1>. HIDE DEF best, path, route
<1>6. Len(best.route) <= Len(route)
  BY <1>1, <1>4 DEF RouteMatches
<1>7. ASSUME NEW n \in DOMAIN best.route
      PROVE  best.route[n] = route[n] \/ Worth(best.route[n]) < Worth(route[n])
  <2>1. n \in DOMAIN route
    BY <1>1, <1>5, <1>6
  <2>2. best.route[n] \in {Param, path[n]}
    BY <1>4, <1>5, <1>7 DEF RouteMatches, PlainRoutes
  <2>3. CASE route[n] = Param
    BY <1>1, <1>5, <2>1, <2>2, <2>3 DEF PlainRoutes
  <2>4. CASE route[n] # Param
    BY <1>1, <2>1, <2>2, <2>4 DEF PlainRoutes
  <2>. QED
    BY <2>3, <2>4
<1>8. best.route = route
  BY <1>1, <1>4, <1>5, <1>6, <1>7, SameRoute
<1>. QED
  BY <1>3, <1>4, <1>8 DEF best, path, route

(* An accepted configuration has only routes RouteMatcher knows the order of. *)
LEMMA ServiceRoutes ==
  ASSUME ConfigInv, stage = "done", NEW s \in DOMAIN made["services"]
  PROVE  /\ s \in DOMAIN raw.services
         /\ made["services"][s].routes = RoutesFor(s)
         /\ RoutesFor(s) \subseteq AllRoutes
<1>1. s \in DOMAIN raw.services /\ made["services"][s].routes = RoutesFor(s)
  BY DEF ConfigInv, ServicesMade, Service
<1>2. raw.services[s].routes \subseteq AllRoutes
  BY <1>1, ConfigAssumption DEF ConfigInv, AllRoutes
<1>3. ASSUME NEW r \in made["hsm"].routes
      PROVE  r.route \in AllRoutes
  <2>1. CASE made["hsm"] = NoHsm
    BY <1>3, <2>1 DEF NoHsm
  <2>2. CASE made["hsm"] # NoHsm
    <3>1. /\ raw.hsm # None /\ raw.hsm.schema # None
          /\ r \in MappedRoutes(raw.hsm.schema, Mappings, raw.hsm.mode, DOMAIN raw.services)
      BY <1>3, <2>2 DEF ConfigInv, HsmMade
    <3>. QED
      BY <3>1, ConfigAssumption DEF ConfigInv, AllRoutes, Mappings
  <2>. QED
    BY <2>1, <2>2
<1>. QED
  BY <1>1, <1>2, <1>3 DEF RoutesFor

LEMMA EveryRouteServesInv == PlainRoutes /\ ConfigInv => EveryRouteServes
<1>. DEFINE up == {s \in DOMAIN made["services"] : made["services"][s].instances > 0}
            Of(s) == {[service |-> s, route |-> r, rank |-> 1] : r \in made["services"][s].routes}
            candidates == UNION {Of(s) : s \in up}
<1>. SUFFICES ASSUME PlainRoutes, ConfigInv, stage = "done",
                     NEW s \in up, NEW route \in made["services"][s].routes
              PROVE  /\ HasMatch(PathOf(route), candidates)
                     /\ route \in made["services"][BestMatch(PathOf(route), candidates).service].routes
  BY DEF EveryRouteServes, Accepted
<1>1. ASSUME NEW c \in candidates
      PROVE  c.route \in AllRoutes /\ c.rank \in Nat /\ c.route \in made["services"][c.service].routes
  <2>1. PICK o \in up : c \in Of(o)
    BY <1>1
  <2>. QED
    BY <2>1, ServiceRoutes
<1>2. PICK c \in candidates : c.route = route
  <2>1. [service |-> s, route |-> route, rank |-> 1] \in Of(s)
    OBVIOUS
  <2>2. [service |-> s, route |-> route, rank |-> 1] \in candidates
    BY <2>1
  <2>. QED
    BY <2>2
<1>3. /\ HasMatch(PathOf(route), candidates)
      /\ BestMatch(PathOf(route), candidates) \in candidates
      /\ BestMatch(PathOf(route), candidates).route = route
  <2>. HIDE DEF candidates, up
  <2>. QED
    BY <1>1, <1>2, OwnPath
<1>. QED
  <2>. HIDE DEF candidates, up
  <2>. QED
    BY <1>1, <1>3

(* What is mapped begins with the mapping's prefix.                           *)
LEMMA TransformedPrefix ==
  ASSUME NEW pattern \in Seq(Segments), NEW m, m.strip \in Seq(Segments), m.prefix \in Seq(Segments)
  PROVE  IsPrefix(m.prefix, Transformed(pattern, m))
<1>. DEFINE rest == IF IsPrefix(m.strip, pattern)
                    THEN SubSeq(pattern, Len(m.strip) + 1, Len(pattern)) ELSE pattern
<1>1. rest \in Seq(Segments)
  BY DEF IsPrefix
<1>2. Transformed(pattern, m) = m.prefix \o rest
  BY DEF Transformed
<1>3. ASSUME NEW a \in Seq(Segments), NEW b \in Seq(Segments)
      PROVE  IsPrefix(a, a \o b)
  <2>1. Len(a) <= Len(a \o b) /\ \A n \in 1 .. Len(a) : (a \o b)[n] = a[n]
    BY <1>3
  <2>2. SubSeq(a, 1, Len(a)) = SubSeq(a \o b, 1, Len(a))
    BY <1>3, <2>1
  <2>. QED
    BY <2>1, <2>2 DEF IsPrefix
<1>. HIDE DEF rest
<1>. QED
  BY <1>1, <1>2, <1>3

LEMMA MappedRoutesBelongInv == ConfigInv => MappedRoutesBelong
<1>. SUFFICES ASSUME ConfigInv, stage = "done", made["hsm"].enabled, NEW r \in made["hsm"].routes
              PROVE  /\ r.route \in made["services"][r.service].routes
                     /\ \E m \in Mappings :
                          /\ m.service = r.service /\ IsPrefix(m.prefix, r.route)
                          /\ \E s \in SelectedStates(raw.hsm.schema, m) : s.id = r.stateId
                     /\ r.source = "canonical" =>
                          \E route \in raw.hsm.schema.routes :
                            route.stateId = r.stateId /\ ~ route.redirects
  BY DEF MappedRoutesBelong, Accepted
<1>. DEFINE schema == raw.hsm.schema
<1>1. /\ raw.hsm # None /\ schema # None
      /\ r \in MappedRoutes(schema, Mappings, raw.hsm.mode, DOMAIN raw.services)
  BY DEF ConfigInv, HsmMade, NoHsm
<1>2. PICK m \in Mappings : m.service \in DOMAIN raw.services
                            /\ r \in CanonicalRoutes(schema, m) \cup BackendRoutes(schema, m)
  BY <1>1 DEF MappedRoutes
<1>3. /\ m.strip \in Seq(Segments) /\ m.prefix \in Seq(Segments)
      /\ \A route \in schema.routes : route.pattern \in Seq(Segments) \cup {None}
      /\ \A s \in schema.states : s.backend \subseteq Seq(Segments)
  BY <1>1, <1>2, ConfigAssumption DEF ConfigInv, Mappings
<1>4. /\ r.service = m.service /\ IsPrefix(m.prefix, r.route)
      /\ \E s \in SelectedStates(schema, m) : s.id = r.stateId
      /\ r.source = "canonical" =>
           \E route \in schema.routes : route.stateId = r.stateId /\ ~ route.redirects
  <2>1. CASE r \in CanonicalRoutes(schema, m)
    <3>1. PICK route \in schema.routes :
            /\ \E s \in SelectedStates(schema, m) : s.id = route.stateId
            /\ ~ route.redirects /\ route.pattern # None
            /\ r = [service |-> m.service, source |-> "canonical", stateId |-> route.stateId,
                    route |-> Transformed(route.pattern, m)]
      BY <2>1 DEF CanonicalRoutes
    <3>2. route.pattern \in Seq(Segments)
      BY <1>3, <3>1
    <3>. QED
      BY <1>3, <3>1, <3>2, TransformedPrefix
  <2>2. CASE r \in BackendRoutes(schema, m)
    <3>1. PICK s \in SelectedStates(schema, m) : \E pattern \in s.backend :
            r = [service |-> m.service, source |-> "backend", stateId |-> s.id,
                 route |-> Transformed(pattern, m)]
      BY <2>2 DEF BackendRoutes
    <3>2. PICK pattern \in s.backend :
            r = [service |-> m.service, source |-> "backend", stateId |-> s.id,
                 route |-> Transformed(pattern, m)]
      BY <3>1
    <3>3. pattern \in Seq(Segments)
      BY <1>3, <3>2 DEF SelectedStates
    <3>. QED
      BY <1>3, <3>1, <3>2, <3>3, TransformedPrefix
  <2>. QED
    BY <1>2, <2>1, <2>2
<1>5. r.route \in made["services"][r.service].routes
  <2>1. r.service \in DOMAIN made["services"]
    BY <1>2, <1>4 DEF ConfigInv, ServicesMade
  <2>2. r.route \in RoutesFor(r.service)
    BY DEF RoutesFor
  <2>. QED
    BY <2>1, <2>2, ServiceRoutes
<1>. QED
  BY <1>2, <1>4, <1>5

(* Each route of an accepted configuration with plain routes reaches a        *)
(* service that has it, and the state machine gives a service what its        *)
(* mappings select and no more.                                               *)
THEOREM ConfigurationServes ==
  ASSUME PlainRoutes
  PROVE  ConfigSpec => []RoutesReach
<1>1. ConfigInv => RoutesReach
  BY EveryRouteServesInv, MappedRoutesBelongInv DEF RoutesReach
<1>. QED
  BY <1>1, ConfigInvariant, PTL

-------------------------------------------------------------------------------
(* Routing: types *)

Phases == {"idle", "matching", "listing", "probing", "sent"}

Probes == [cached : Entries \cup {None}, age : Nat]

Records ==
  [phase : Phases, path : Paths \cup {<<>>}, attempt : 0 .. Attempts - 1,
   service : Services \cup {None}, target : Instances \cup {None},
   header : [service : Services, nodeId : Instances] \cup {None},
   healthy : SUBSET Instances, probes : UNION {[asked -> Probes] : asked \in SUBSET Instances}]

(* What selectTarget has found so far is of the service it has matched; the   *)
(* path of a backend keeps that match off a frontend with the catch-all only. *)
OfService(r) ==
  /\ r.phase # "idle" => r.path \in Paths
  /\ r.phase \in {"listing", "probing", "sent"} =>
       /\ r.service \in Services
       /\ TypeOf[r.service] = "frontend" /\ ClaimedByBackend(r.path) => RoutesOf[r.service] # {<<>>}
  /\ r.phase = "probing" =>
       /\ \A i \in r.healthy : ServiceOf[i] = r.service
       /\ \A i \in DOMAIN r.probes : ServiceOf[i] = r.service
  /\ r.phase = "sent" => r.target \in Instances /\ ServiceOf[r.target] = r.service
  /\ r.header # None => ServiceOf[r.header.nodeId] = r.header.service

CacheTypes ==
  /\ routable \subseteq Instances /\ young \subseteq Instances
  /\ world \in [Instances -> {"ok", "failing", "refusing"}]
  /\ cache \in [Instances -> Entries \cup {None}]
  /\ setup \in Setups

CursorTypes ==
  /\ cursor \in [Services -> Nat]
  /\ \A s \in Services : cursor[s] \in 0 .. Rotation[s] - 1

JarTypes ==
  /\ jar \in [Clients -> [service : Services, nodeId : Instances] \cup {None}]
  /\ \A c \in Clients : jar[c] # None => ServiceOf[jar[c].nodeId] = jar[c].service

RequestTypes ==
  /\ request \in [Clients -> Records]
  /\ \A c \in Clients : OfService(request[c])

RoutingTypes == CacheTypes /\ CursorTypes /\ JarTypes /\ RequestTypes

(* An entry is an entry after whatever a probe or an attempt makes of it.     *)
LEMMA LeastOfTwo ==
  ASSUME NEW a \in Nat, NEW b \in Nat
  PROVE  Min({a, b}) = IF a <= b THEN a ELSE b
BY DEF Min

LEMMA VerdictType ==
  ASSUME NEW cached \in Entries \cup {None}, NEW given \in {"ok", "failing", "refusing"}
  PROVE  /\ Previous(cached) \in Entries
         /\ Verdict(cached, given).failures \in 0 .. FailureThreshold
         /\ Verdict(cached, given).healthy \in BOOLEAN
<1>1. Previous(cached) \in Entries
  BY RoutingAssumption DEF Previous, Entries
<1>2. Min({Previous(cached).failures + 1, FailureThreshold}) \in 0 .. FailureThreshold
  <2>1. Previous(cached).failures + 1 \in Nat /\ FailureThreshold \in Nat
    BY <1>1, RoutingAssumption DEF Entries
  <2>. QED
    BY <2>1, LeastOfTwo
<1>3. Previous(cached).healthy \in BOOLEAN
  BY <1>1 DEF Entries
<1>. QED
  BY <1>1, <1>2, <1>3, RoutingAssumption DEF Verdict

LEMMA StoredType ==
  ASSUME NEW probe \in Probes, NEW given \in {"ok", "failing", "refusing"}
  PROVE  Stored(probe, given) \in Entries
<1>1. probe.cached \in Entries \cup {None} /\ probe.age \in Nat
  BY DEF Probes
<1>2. Min({probe.age, CacheMs}) \in 0 .. CacheMs
  BY <1>1, LeastOfTwo, RoutingAssumption
<1>3. ASSUME NEW seen \in 0 .. StaleGraceMs \cup {Never}
      PROVE  AgedSeen(seen, probe.age) \in 0 .. StaleGraceMs \cup {Never}
  BY <1>1, <1>3, RoutingAssumption DEF AgedSeen
<1>4. 0 \in 0 .. StaleGraceMs /\ Previous(probe.cached).seen \in 0 .. StaleGraceMs \cup {Never}
  BY <1>1, VerdictType, RoutingAssumption DEF Entries
<1>5. AgedSeen(IF given = "ok" THEN 0 ELSE Previous(probe.cached).seen, probe.age)
        \in 0 .. StaleGraceMs \cup {Never}
  BY <1>3, <1>4
<1>. QED
  BY <1>1, <1>2, <1>5, VerdictType DEF Stored, Entries

LEMMA AgedType ==
  ASSUME NEW entry \in Entries \cup {None}
  PROVE  Aged(entry) \in Entries \cup {None}
<1>1. CASE entry = None
  BY <1>1 DEF Aged
<1>2. CASE entry # None
  <2>1. Later(entry.age, CacheMs) \in 0 .. CacheMs
    BY <1>2, RoutingAssumption DEF Later, Entries
  <2>2. AgedSeen(entry.seen, 1) \in 0 .. StaleGraceMs \cup {Never}
    BY <1>2, RoutingAssumption DEF AgedSeen, Entries
  <2>. QED
    BY <1>2, <2>1, <2>2 DEF Aged, Entries
<1>. QED
  BY <1>1, <1>2

-------------------------------------------------------------------------------
(* Routing: steps keep the types *)

AllProbes == UNION {[asked -> Probes] : asked \in SUBSET Instances}

LEMMA NoProbes == <<>> \in AllProbes
<1>1. <<>> \in [{} -> Probes]
  OBVIOUS
<1>. QED
  BY <1>1 DEF AllProbes

LEMMA SetType ==
  ASSUME RequestTypes, NEW c \in Clients, NEW r \in Records, OfService(r), Set(c, r)
  PROVE  RequestTypes'
<1>1. request' \in [Clients -> Records]
  BY DEF Set, RequestTypes
<1>2. ASSUME NEW d \in Clients PROVE OfService(request'[d])
  BY DEF Set, RequestTypes
<1>3. ASSUME NEW d \in Clients PROVE OfService(request[d])'
  BY <1>2 DEF OfService
<1>. QED
  BY <1>1, <1>3 DEF RequestTypes

LEMMA NoRequestType == NoRequest \in Records /\ OfService(NoRequest)
<1>1. 0 \in 0 .. Attempts - 1
  BY RoutingAssumption
<1>2. NoRequest \in Records
  BY <1>1, NoProbes DEF NoRequest, Records, AllProbes, Phases
<1>. QED
  BY <1>2 DEF NoRequest, OfService

LEMMA RetryType ==
  ASSUME RequestTypes, NEW c \in Clients, RetryOrAnswer(c), request[c].phase # "idle"
  PROVE  RequestTypes'
<1>. DEFINE r == request[c]
            again == [r EXCEPT !.phase = "matching", !.attempt = r.attempt + 1, !.service = None,
                               !.target = None, !.healthy = {}, !.probes = <<>>]
<1>1. r \in Records /\ OfService(r)
  BY DEF RequestTypes
<1>2. CASE r.attempt < Attempts - 1 /\ Set(c, again)
  <2>1. r.attempt + 1 \in 0 .. Attempts - 1
    BY <1>1, <1>2, RoutingAssumption DEF Records
  <2>2. again \in Records
    BY <1>1, <2>1, NoProbes DEF Records, AllProbes, Phases
  <2>3. OfService(again)
    BY <1>1 DEF Records, OfService
  <2>. HIDE DEF again
  <2>. QED
    BY <1>2, <2>2, <2>3, SetType
<1>3. CASE Set(c, NoRequest)
  BY <1>3, NoRequestType, SetType
<1>. QED
  BY <1>2, <1>3 DEF RetryOrAnswer

LEMMA ArriveType ==
  ASSUME RequestTypes, NEW c \in Clients, NEW path \in Paths, Arrive(c, path)
  PROVE  RequestTypes'
<1>. DEFINE r == [NoRequest EXCEPT !.phase = "matching", !.path = path]
<1>1. r \in Records /\ OfService(r)
  BY NoRequestType DEF Records, OfService, Phases
<1>. HIDE DEF r
<1>2. Set(c, r)
  BY DEF Arrive, r
<1>. QED
  BY <1>1, <1>2, SetType

(* The candidates are routes of services, of known order.                     *)
LEMMA CandidateFacts ==
  ASSUME NEW c \in Candidates
  PROVE  /\ c.service \in Services /\ c.route \in RoutesOf[c.service]
         /\ c.route \in AllRoutes /\ c.rank \in Nat
<1>1. PICK n \in DOMAIN Registered :
        \E route \in RoutesOf[ServiceOf[Registered[n]]] :
          c = [service |-> ServiceOf[Registered[n]], route |-> route, rank |-> n]
  BY DEF Candidates
<1>2. PICK route \in RoutesOf[ServiceOf[Registered[n]]] :
        c = [service |-> ServiceOf[Registered[n]], route |-> route, rank |-> n]
  BY <1>1
<1>3. n \in Nat /\ ServiceOf[Registered[n]] \in Services
  BY RoutingAssumption DEF Instances
<1>. QED
  BY <1>2, <1>3, RoutingAssumption DEF AllRoutes

LEMMA MatchType ==
  ASSUME RequestTypes, NEW c \in Clients, Match(c)
  PROVE  RequestTypes'
<1>. DEFINE best == BestMatch(request[c].path, Candidates)
            r == [request[c] EXCEPT !.phase = "listing", !.service = best.service]
<1>1. CASE Routed(request[c].path) /\ Set(c, r)
  <2>1. best \in Candidates
    BY <1>1, CandidateFacts, BestIsBest DEF Routed
  <2>2. best.service \in Services /\ best.route \in RoutesOf[best.service]
    BY <2>1, CandidateFacts
  <2>3. TypeOf[best.service] = "frontend" /\ ClaimedByBackend(request[c].path)
          => RoutesOf[best.service] # {<<>>}
    BY <1>1, <2>2 DEF Routed
  <2>4. request[c] \in Records /\ OfService(request[c]) /\ request[c].phase = "matching"
    BY DEF RequestTypes, Match
  <2>. HIDE DEF best
  <2>5. r \in Records /\ OfService(r)
    BY <2>2, <2>3, <2>4 DEF Records, OfService, Phases
  <2>. HIDE DEF r
  <2>. QED
    BY <1>1, <2>5, SetType
<1>. QED
  BY <1>1, RetryType DEF Match

LEMMA ListType ==
  ASSUME CacheTypes, RequestTypes, NEW c \in Clients, List(c)
  PROVE  CacheTypes' /\ RequestTypes'
<1>. DEFINE r == request[c]
            listed == {i \in routable : ServiceOf[i] = r.service}
            checked == IF r.service \in Probed THEN listed ELSE {}
            starting == {i \in checked \cap young : ~ Fresh(cache[i])}
            asked == {i \in checked \ young : ~ Fresh(cache[i])}
            healthy == (listed \ checked) \cup starting
                         \cup {i \in checked : Fresh(cache[i]) /\ cache[i].healthy}
            probes == [i \in asked |-> [cached |-> cache[i], age |-> 0]]
            next == [r EXCEPT !.phase = "probing", !.healthy = healthy, !.probes = probes]
<1>1. /\ r.phase = "listing" /\ Set(c, next)
      /\ cache' = [i \in Instances |-> IF i \in starting THEN StartingEntry ELSE cache[i]]
      /\ UNCHANGED <<setup, routable, world, young>>
  BY DEF List
<1>2. StartingEntry \in Entries
  BY RoutingAssumption DEF StartingEntry, Entries
<1>3. cache' \in [Instances -> Entries \cup {None}]
  <2>. HIDE DEF starting
  <2>. QED
    BY <1>1, <1>2 DEF CacheTypes
<1>4. CacheTypes'
  <2>. HIDE DEF starting
  <2>. QED
    BY <1>1, <1>3 DEF CacheTypes
<1>5. /\ listed \subseteq Instances /\ checked \subseteq listed
      /\ starting \subseteq listed /\ asked \subseteq listed
  BY DEF CacheTypes
<1>6. healthy \subseteq listed
  BY <1>5
<1>7. probes \in AllProbes
  <2>1. \A i \in asked : cache[i] \in Entries \cup {None}
    BY <1>5 DEF CacheTypes
  <2>2. asked \in SUBSET Instances
    BY <1>5
  <2>. HIDE DEF asked
  <2>3. probes \in [asked -> Probes]
    BY <2>1 DEF Probes
  <2>. QED
    BY <2>2, <2>3 DEF AllProbes
<1>8. r \in Records /\ OfService(r)
  BY DEF RequestTypes
<1>9. DOMAIN probes = asked /\ \A i \in listed : ServiceOf[i] = r.service
  OBVIOUS
<1>. HIDE DEF asked, starting, checked, healthy, probes, listed
<1>10. next \in Records
  BY <1>5, <1>6, <1>7, <1>8 DEF Records, AllProbes, Phases
<1>11. OfService(next)
  BY <1>1, <1>5, <1>6, <1>8, <1>9 DEF Records, OfService
<1>. HIDE DEF next
<1>. QED
  BY <1>1, <1>4, <1>10, <1>11, SetType

LEMMA ProbeEndsType ==
  ASSUME CacheTypes, RequestTypes, NEW c \in Clients, NEW i \in Instances, Answer(c, i)
  PROVE  CacheTypes' /\ RequestTypes'
<1>. DEFINE r == request[c]
            entry == Stored(r.probes[i], world[i])
            healthy == IF entry.healthy THEN r.healthy \cup {i} ELSE r.healthy
            probes == [j \in DOMAIN r.probes \ {i} |-> r.probes[j]]
            next == [r EXCEPT !.healthy = healthy, !.probes = probes]
<1>1. r \in Records /\ OfService(r) /\ r.phase = "probing" /\ i \in DOMAIN r.probes
  BY DEF RequestTypes, Answer
<1>2. PICK asked \in SUBSET Instances : r.probes \in [asked -> Probes]
  BY <1>1 DEF Records
<1>3. entry \in Entries
  BY <1>1, <1>2, StoredType DEF CacheTypes
<1>. HIDE DEF entry
<1>4. cache' = [cache EXCEPT ![i] = entry] /\ UNCHANGED <<setup, routable, world, young>>
  BY DEF Answer, entry
<1>5. CacheTypes'
  BY <1>3, <1>4 DEF CacheTypes
<1>6. Set(c, next)
  <2>1. next = [r EXCEPT !.healthy = IF entry.healthy THEN @ \cup {i} ELSE @,
                         !.probes = [j \in DOMAIN @ \ {i} |-> @[j]]]
    OBVIOUS
  <2>. HIDE DEF next
  <2>. QED
    BY <2>1 DEF Answer, entry
<1>7. probes \in AllProbes /\ DOMAIN probes \subseteq DOMAIN r.probes
  <2>1. probes \in [asked \ {i} -> Probes]
    BY <1>2
  <2>2. asked \ {i} \in SUBSET Instances
    BY <1>2
  <2>. HIDE DEF probes
  <2>. QED
    BY <2>1, <2>2, <1>2 DEF AllProbes
<1>8. healthy \subseteq r.healthy \cup {i}
  OBVIOUS
<1>. HIDE DEF healthy, probes
<1>9. next \in Records
  BY <1>1, <1>7, <1>8 DEF Records, AllProbes
<1>10. OfService(next)
  BY <1>1, <1>7, <1>8 DEF Records, OfService
<1>. HIDE DEF next
<1>. QED
  BY <1>5, <1>6, <1>9, <1>10, SetType

(* The load balancer picks one of the list.                                   *)
LEMMA ChooseType ==
  ASSUME CursorTypes, RequestTypes, NEW c \in Clients, Choose(c)
  PROVE  CursorTypes' /\ RequestTypes'
<1>. DEFINE r == request[c]
            rotates == Rotates(r.service, r.healthy, jar[c])
<1>1. r \in Records /\ OfService(r) /\ r.phase = "probing"
  BY DEF RequestTypes, Choose
<1>2. CASE r.healthy = {} /\ RetryOrAnswer(c) /\ UNCHANGED cursor
  BY <1>1, <1>2, RetryType DEF CursorTypes
<1>3. ASSUME NEW i \in r.healthy,
             Set(c, [r EXCEPT !.phase = "sent", !.target = i, !.healthy = {},
                              !.header = IF StrategyOf[r.service] = "session-affinity" /\ rotates
                                         THEN SignedCookie(r.service, i) ELSE @]),
             cursor' = [cursor EXCEPT ![r.service] = IF rotates THEN NextCursor(r.service, @) ELSE @]
      PROVE  CursorTypes' /\ RequestTypes'
  <2>1. i \in Instances /\ ServiceOf[i] = r.service /\ r.service \in Services
    BY <1>1 DEF Records, OfService
  <2>2. CursorTypes'
    <3>1. Rotation[r.service] \in Nat \ {0}
      BY <2>1, RoutingAssumption
    <3>2. cursor[r.service] \in Nat
      BY <2>1 DEF CursorTypes
    <3>3. NextCursor(r.service, cursor[r.service]) \in 0 .. Rotation[r.service] - 1
      BY <3>1, <3>2 DEF NextCursor
    <3>. DEFINE next == IF rotates THEN NextCursor(r.service, cursor[r.service]) ELSE cursor[r.service]
    <3>4. next \in 0 .. Rotation[r.service] - 1
      BY <3>3, <2>1 DEF CursorTypes
    <3>5. cursor' = [cursor EXCEPT ![r.service] = next]
      BY <1>3
    <3>. HIDE DEF next
    <3>6. next \in Nat
      BY <3>1, <3>4
    <3>. QED
      BY <2>1, <3>4, <3>5, <3>6 DEF CursorTypes
  <2>. DEFINE header == IF StrategyOf[r.service] = "session-affinity" /\ rotates
                        THEN SignedCookie(r.service, i) ELSE r.header
              next == [r EXCEPT !.phase = "sent", !.target = i, !.healthy = {}, !.header = header]
  <2>3. header \in [service : Services, nodeId : Instances] \cup {None}
    BY <1>1, <2>1 DEF SignedCookie, Records
  <2>4. header # None => ServiceOf[header.nodeId] = header.service
    BY <1>1, <2>1 DEF SignedCookie, OfService
  <2>5. Set(c, next)
    BY <1>3
  <2>. HIDE DEF header
  <2>6. next \in Records
    BY <1>1, <2>1, <2>3 DEF Records, Phases
  <2>7. OfService(next)
    BY <1>1, <2>1, <2>4 DEF Records, OfService
  <2>. HIDE DEF next
  <2>. QED
    BY <2>2, <2>5, <2>6, <2>7, SetType
<1>. QED
  BY <1>2, <1>3 DEF Choose

LEMMA RespondType ==
  ASSUME JarTypes, RequestTypes, NEW c \in Clients, Respond(c)
  PROVE  JarTypes' /\ RequestTypes'
<1>1. request[c] \in Records /\ OfService(request[c]) /\ Set(c, NoRequest)
  BY DEF RequestTypes, Respond
<1>. DEFINE cookie == IF request[c].header = None THEN jar[c] ELSE request[c].header
<1>2. /\ cookie \in [service : Services, nodeId : Instances] \cup {None}
      /\ cookie # None => ServiceOf[cookie.nodeId] = cookie.service
  BY <1>1 DEF Records, OfService, JarTypes
<1>3. jar' = [jar EXCEPT ![c] = cookie]
  BY DEF Respond
<1>. HIDE DEF cookie
<1>4. JarTypes'
  BY <1>2, <1>3 DEF JarTypes
<1>. QED
  BY <1>1, <1>4, NoRequestType, SetType

LEMMA RefusedType ==
  ASSUME CacheTypes, RequestTypes, NEW c \in Clients, Refused(c)
  PROVE  CacheTypes' /\ RequestTypes'
<1>1. /\ request[c].target \in Instances /\ RetryOrAnswer(c) /\ request[c].phase = "sent"
      /\ UNCHANGED <<setup, routable, world, young>>
      /\ cache' = [cache EXCEPT ![request[c].target] = Invalidated(@)]
  BY DEF Refused, RequestTypes, OfService
<1>2. \A entry : Invalidated(entry) \in Entries
  BY RoutingAssumption DEF Invalidated, Entries
<1>3. CacheTypes'
  BY <1>1, <1>2 DEF CacheTypes
<1>. QED
  BY <1>1, <1>3, RetryType

LEMMA TickType ==
  ASSUME CacheTypes, RequestTypes, Tick
  PROVE  CacheTypes' /\ RequestTypes'
<1>1. CacheTypes'
  <2>1. \A i \in Instances : Aged(cache[i]) \in Entries \cup {None}
    BY AgedType DEF CacheTypes
  <2>2. cache' \in [Instances -> Entries \cup {None}]
    BY <2>1 DEF Tick
  <2>. QED
    BY <2>2 DEF Tick, CacheTypes
<1>. DEFINE next(r) == [r EXCEPT !.probes = Waited(r.probes)]
<1>2. request' = [c \in Clients |-> next(request[c])]
  BY DEF Tick
<1>3. ASSUME NEW r \in Records, OfService(r)
      PROVE  next(r) \in Records /\ OfService(next(r))
  <2>1. PICK asked \in SUBSET Instances : r.probes \in [asked -> Probes]
    BY DEF Records
  <2>2. Waited(r.probes) \in [asked -> Probes]
    BY <2>1 DEF Probes, Waited
  <2>3. Waited(r.probes) \in AllProbes /\ DOMAIN Waited(r.probes) = DOMAIN r.probes
    BY <2>1, <2>2 DEF AllProbes
  <2>4. next(r) = [r EXCEPT !.probes = Waited(r.probes)]
    OBVIOUS
  <2>. HIDE DEF next
  <2>5. next(r) \in Records
    BY <2>3, <2>4 DEF Records, AllProbes
  <2>6. OfService(next(r))
    BY <1>3, <2>3, <2>4 DEF Records, OfService
  <2>. QED
    BY <2>5, <2>6
<1>. HIDE DEF next
<1>4. request' \in [Clients -> Records] /\ \A c \in Clients : OfService(request'[c])
  BY <1>2, <1>3 DEF RequestTypes
<1>5. RequestTypes'
  BY <1>4 DEF RequestTypes, OfService
<1>. QED
  BY <1>1, <1>5

LEMMA InitTypes == Init => RoutingTypes
<1>. SUFFICES ASSUME Init PROVE RoutingTypes
  OBVIOUS
<1>1. CacheTypes
  BY RoutingAssumption DEF Init, CacheTypes
<1>2. CursorTypes
  <2>1. \A s \in Services : 0 \in 0 .. Rotation[s] - 1
    BY RoutingAssumption
  <2>. QED
    BY <2>1 DEF Init, CursorTypes
<1>3. JarTypes
  BY DEF Init, JarTypes
<1>4. RequestTypes
  BY NoRequestType DEF Init, RequestTypes
<1>. QED
  BY <1>1, <1>2, <1>3, <1>4 DEF RoutingTypes

(* What a request has matched stays what it has matched, whatever the other   *)
(* requests, the registry and the instances do.                               *)
LEMMA StepTypes == RoutingTypes /\ [Next]_vars => RoutingTypes'
<1>. SUFFICES ASSUME RoutingTypes, [Next]_vars PROVE RoutingTypes'
  OBVIOUS
<1>. USE DEF RoutingTypes
<1>1. ASSUME NEW c \in setup.clients, NEW path \in Paths, Arrive(c, path) PROVE RoutingTypes'
  <2>1. c \in Clients
    BY RoutingAssumption DEF CacheTypes
  <2>. QED
    BY <1>1, <2>1, ArriveType DEF Arrive, CacheTypes, CursorTypes, JarTypes
<1>2. ASSUME NEW c \in Clients, Match(c) PROVE RoutingTypes'
  BY <1>2, MatchType DEF Match, CacheTypes, CursorTypes, JarTypes
<1>3. ASSUME NEW c \in Clients, List(c) PROVE RoutingTypes'
  BY <1>3, ListType DEF List, CursorTypes, JarTypes
<1>4. ASSUME NEW c \in Clients, NEW i \in Instances, Answer(c, i) PROVE RoutingTypes'
  BY <1>4, ProbeEndsType DEF Answer, CursorTypes, JarTypes
<1>5. ASSUME NEW c \in Clients, Choose(c) PROVE RoutingTypes'
  BY <1>5, ChooseType DEF Choose, CacheTypes, JarTypes
<1>6. ASSUME NEW c \in Clients, Respond(c) PROVE RoutingTypes'
  BY <1>6, RespondType DEF Respond, CacheTypes, CursorTypes
<1>7. ASSUME NEW c \in Clients, Refused(c) PROVE RoutingTypes'
  BY <1>7, RefusedType DEF Refused, CursorTypes, JarTypes
<1>8. CASE Tick
  BY <1>8, TickType DEF Tick, CursorTypes, JarTypes
<1>9. ASSUME NEW i \in Flaky, GraceEnds(i) PROVE RoutingTypes'
  BY <1>9 DEF GraceEnds, CacheTypes, CursorTypes, JarTypes, RequestTypes, OfService
<1>10. ASSUME NEW i \in Flaky, Registers(i) PROVE RoutingTypes'
  BY <1>10, RoutingAssumption DEF Registers, CacheTypes, CursorTypes, JarTypes, RequestTypes, OfService
<1>11. ASSUME NEW i \in Flaky, NEW state \in {"ok", "failing", "refusing"}, Turns(i, state)
       PROVE  RoutingTypes'
  BY <1>11, RoutingAssumption DEF Turns, CacheTypes, CursorTypes, JarTypes, RequestTypes, OfService
<1>12. CASE UNCHANGED vars
  BY <1>12 DEF vars, CacheTypes, CursorTypes, JarTypes, RequestTypes, OfService
<1>. QED
  BY <1>1, <1>2, <1>3, <1>4, <1>5, <1>6, <1>7, <1>8, <1>9, <1>10, <1>11, <1>12 DEF Next, Serve

-------------------------------------------------------------------------------
(* Routing: a request goes to the service it belongs to *)

LEMMA PrefixIsMatch ==
  ASSUME NEW path \in Seq(Segments), NEW route \in Seq(Segments), IsLiteral(route)
  PROVE  IsPrefix(route, path) <=> RouteMatches(path, route)
<1>1. RouteMatches(path, route) <=> Len(route) <= Len(path) /\ \A n \in DOMAIN route : route[n] = path[n]
  BY DEF RouteMatches, IsLiteral
<1>2. IsPrefix(route, path) <=>
        Len(route) <= Len(path) /\ SubSeq(route, 1, Len(route)) = SubSeq(path, 1, Len(route))
  BY DEF IsPrefix
<1>3. ASSUME Len(route) <= Len(path)
      PROVE  SubSeq(route, 1, Len(route)) = SubSeq(path, 1, Len(route))
               <=> \A n \in DOMAIN route : route[n] = path[n]
  <2>1. /\ SubSeq(route, 1, Len(route)) = [n \in 1 .. Len(route) |-> route[n]]
        /\ SubSeq(path, 1, Len(route)) = [n \in 1 .. Len(route) |-> path[n]]
    BY <1>3
  <2>. QED
    BY <2>1
<1>. QED
  BY <1>1, <1>2, <1>3

(* The longer of two prefixes of a path has the higher score.                 *)
LEMMA LongerIsMoreSpecific ==
  ASSUME NEW path \in Seq(Segments), NEW a \in Seq(Segments), NEW b \in Seq(Segments),
         IsLiteral(a), IsLiteral(b), RouteMatches(path, a), RouteMatches(path, b),
         Score(a) >= Score(b)
  PROVE  Len(b) <= Len(a)
<1>. SUFFICES ASSUME Len(a) < Len(b) PROVE FALSE
  OBVIOUS
<1>1. \A n \in DOMAIN a : n \in DOMAIN b /\ a[n] = b[n]
  BY DEF RouteMatches, IsLiteral
<1>2. \A n \in DOMAIN a : Worth(a[n]) <= Worth(b[n])
  <2>. SUFFICES ASSUME NEW n \in DOMAIN a PROVE Worth(a[n]) <= Worth(b[n])
    OBVIOUS
  <2>1. Worth(a[n]) \in Nat /\ a[n] = b[n]
    BY <1>1, WorthType
  <2>. QED
    BY <2>1
<1>3. Score(a) < Score(b)
  BY <1>2, MoreSpecific
<1>. QED
  BY <1>3, ScoreType

LEMMA LongestIsBest == LongestPrefixWins
<1>1. Range(RouteOrder) \subseteq Seq(Segments)
  BY RoutesAreTyped DEF AllRoutes
<1>2. ASSUME NEW path \in Paths \cup Range(RouteOrder),
             NEW c \in Candidates, IsLiteral(c.route), IsPrefix(c.route, path)
      PROVE  /\ HasMatch(path, Candidates)
             /\ IsLiteral(BestMatch(path, Candidates).route) =>
                  Len(c.route) <= Len(BestMatch(path, Candidates).route)
  <2>1. path \in Seq(Segments) /\ c.route \in Seq(Segments)
    BY <1>1, CandidateFacts, RoutesAreTyped, RoutingAssumption
  <2>2. RouteMatches(path, c.route)
    BY <1>2, <2>1, PrefixIsMatch
  <2>3. HasMatch(path, Candidates)
    BY <2>2 DEF HasMatch
  <2>. DEFINE best == BestMatch(path, Candidates)
  <2>4. best \in Candidates /\ RouteMatches(path, best.route)
    BY <2>3, CandidateFacts, BestIsBest
  <2>5. Score(best.route) >= Score(c.route)
    BY <2>2, CandidateFacts, BestHasHighestScore
  <2>6. best.route \in Seq(Segments)
    BY <2>4, CandidateFacts, RoutesAreTyped
  <2>. HIDE DEF best
  <2>7. IsLiteral(best.route) => Len(c.route) <= Len(best.route)
    BY <1>2, <2>1, <2>2, <2>4, <2>5, <2>6, LongerIsMoreSpecific
  <2>. QED
    BY <2>3, <2>7 DEF best
<1>3. ASSUME NEW path \in Paths \cup Range(RouteOrder), HasMatch(path, Candidates),
             IsLiteral(BestMatch(path, Candidates).route)
      PROVE  /\ BestMatch(path, Candidates) \in Candidates
             /\ IsPrefix(BestMatch(path, Candidates).route, path)
  <2>1. /\ BestMatch(path, Candidates) \in Candidates
        /\ RouteMatches(path, BestMatch(path, Candidates).route)
    BY <1>3, CandidateFacts, BestIsBest
  <2>2. path \in Seq(Segments) /\ BestMatch(path, Candidates).route \in Seq(Segments)
    BY <1>1, <2>1, CandidateFacts, RoutesAreTyped, RoutingAssumption
  <2>. QED
    BY <1>3, <2>1, <2>2, PrefixIsMatch
<1>4. ASSUME NEW path \in Paths \cup Range(RouteOrder)
      PROVE  LET literal == {c.route : c \in {d \in Candidates : IsLiteral(d.route)}}
                 fitting == {route \in literal : IsPrefix(route, path)}
             IN /\ fitting # {} => HasMatch(path, Candidates)
                /\ HasMatch(path, Candidates) /\ IsLiteral(BestMatch(path, Candidates).route) =>
                     /\ BestMatch(path, Candidates).route \in fitting
                     /\ \A route \in fitting : Len(route) <= Len(BestMatch(path, Candidates).route)
  <2>. DEFINE literal == {c.route : c \in {d \in Candidates : IsLiteral(d.route)}}
              fitting == {route \in literal : IsPrefix(route, path)}
  <2>1. ASSUME NEW route \in fitting
        PROVE  \E c \in Candidates : c.route = route /\ IsLiteral(c.route) /\ IsPrefix(c.route, path)
    OBVIOUS
  <2>2. \A route \in fitting :
          /\ HasMatch(path, Candidates)
          /\ IsLiteral(BestMatch(path, Candidates).route) =>
               Len(route) <= Len(BestMatch(path, Candidates).route)
    BY <1>2, <2>1
  <2>3. HasMatch(path, Candidates) /\ IsLiteral(BestMatch(path, Candidates).route) =>
          BestMatch(path, Candidates).route \in fitting
    BY <1>3
  <2>. QED
    BY <2>2, <2>3
<1>. QED
  BY <1>4 DEF LongestPrefixWins

LEMMA TypesAreRight == RoutingTypes => RightService
<1>. SUFFICES ASSUME RoutingTypes PROVE RightService
  OBVIOUS
<1>1. TypeOK
  BY DEF RoutingTypes, CacheTypes, CursorTypes, JarTypes, RequestTypes, OfService, Records, TypeOK
<1>2. BackendPathsStay
  <2>. SUFFICES ASSUME NEW c \in Clients, request[c].phase = "sent",
                       TypeOf[request[c].service] = "frontend",
                       NEW s \in DOMAIN TypeOf, TypeOf[s] \notin {"frontend", "worker"},
                       NEW route \in RoutesOf[s] \ {<<>>}, IsPrefix(route, request[c].path)
                PROVE  RoutesOf[request[c].service] # {<<>>}
    BY DEF BackendPathsStay
  <2>1. ClaimedByBackend(request[c].path)
    BY DEF ClaimedByBackend
  <2>. QED
    BY <2>1 DEF RoutingTypes, RequestTypes, OfService
<1>. QED
  BY <1>1, <1>2, LongestIsBest DEF RightService

(* MeshRouterServer.selectTarget over RouteMatcher, InstanceRegistry and      *)
(* LoadBalancer: a request goes to the service of the longest literal route   *)
(* its path begins with, to an instance of this service, and a backend's path *)
(* is not served by a catch-all frontend while the backend is away.           *)
THEOREM RequestsReachTheirService == Spec => []RightService
<1>1. Init => RoutingTypes
  BY InitTypes
<1>2. RoutingTypes /\ [Next]_vars => RoutingTypes'
  BY StepTypes
<1>3. RoutingTypes => RightService
  BY TypesAreRight
<1>. QED
  BY <1>1, <1>2, <1>3, PTL DEF Spec

-------------------------------------------------------------------------------
(* Routing: the way back into the health cache *)

Recovers(i) == cache[i] # None /\ ~ cache[i].healthy /\ cache'[i] # None /\ cache'[i].healthy

Reason(i) ==
  \/ world[i] # "refusing"
  \/ i \in young
  \/ \E c \in Clients :
       /\ i \in DOMAIN request[c].probes
       /\ request[c].probes[i].cached = None \/ request[c].probes[i].cached.healthy

(* A refusal makes no unhealthy instance healthy.                             *)
LEMMA RefusalIsNoVerdict ==
  ASSUME NEW probe, Stored(probe, "refusing").healthy
  PROVE  probe.cached = None \/ probe.cached.healthy
<1>1. Verdict(probe.cached, "refusing").healthy
  BY DEF Stored
<1>2. Previous(probe.cached).healthy
  BY <1>1 DEF Verdict
<1>. QED
  BY <1>2 DEF Previous

LEMMA RecoveryHasReason ==
  ASSUME RoutingTypes, [Next]_vars, NEW i \in Instances, Recovers(i)
  PROVE  Reason(i)
<1>. USE DEF RoutingTypes
<1>1. ASSUME UNCHANGED cache PROVE FALSE
  BY <1>1 DEF Recovers
<1>2. ASSUME NEW c \in Clients, List(c) PROVE Reason(i)
  BY <1>2 DEF List, Recovers, Reason
<1>3. ASSUME NEW c \in Clients, NEW j \in Instances, Answer(c, j) PROVE Reason(i)
  <2>1. cache' = [cache EXCEPT ![j] = Stored(request[c].probes[j], world[j])]
        /\ j \in DOMAIN request[c].probes
    BY <1>3 DEF Answer
  <2>2. i = j /\ Stored(request[c].probes[i], world[i]).healthy
    BY <2>1 DEF Recovers, CacheTypes
  <2>. QED
    BY <2>1, <2>2, RefusalIsNoVerdict DEF Reason
<1>4. ASSUME NEW c \in Clients, Refused(c) PROVE Reason(i)
  BY <1>4 DEF Refused, Invalidated, Recovers, CacheTypes
<1>5. ASSUME Tick PROVE FALSE
  <2>1. cache'[i] = Aged(cache[i])
    BY <1>5 DEF Tick
  <2>. QED
    BY <2>1 DEF Aged, Recovers, CacheTypes, Entries
<1>. QED
  BY <1>1, <1>2, <1>3, <1>4, <1>5
     DEF Next, Serve, Arrive, Match, Choose, Respond, GraceEnds, Registers, Turns, vars

(* InstanceRegistry.checkHttpHealth and invalidateHealth, in every            *)
(* interleaving of requests and probes: what is unhealthy comes back by an    *)
(* answer, by its starting grace or by a probe begun while it was healthy.    *)
THEOREM UnhealthyComesBackByAnswer == Spec => BackByAnswer
<1>1. Init => RoutingTypes
  BY InitTypes
<1>2. RoutingTypes /\ [Next]_vars => RoutingTypes'
  BY StepTypes
<1>3. ASSUME RoutingTypes, [Next]_vars
      PROVE  [\A i \in Instances :
                cache[i] # None /\ ~ cache[i].healthy /\ cache'[i] # None /\ cache'[i].healthy =>
                  \/ world[i] # "refusing"
                  \/ i \in young
                  \/ \E c \in Clients :
                       /\ i \in DOMAIN request[c].probes
                       /\ request[c].probes[i].cached = None \/ request[c].probes[i].cached.healthy]_vars
  BY <1>3, RecoveryHasReason DEF Recovers, Reason
<1>. QED
  BY <1>1, <1>2, <1>3, PTL DEF Spec, BackByAnswer

-------------------------------------------------------------------------------
(* RequestFront *)

(* How a request comes to be where it is: only upgrades are tunnelled, only  *)
(* requests within the hop limit are proxied, and a request of which an      *)
(* attempt was made is back at the front only one hop further.               *)
Path(r) ==
  /\ hops[r] >= kind[r].hops
  /\ at[r] \in {"upgrading", "tunnel"} => kind[r].upgrade
  /\ at[r] \in {"screening", "reading", "routing", "proxying"} => ~kind[r].upgrade
  /\ at[r] \in {"routing", "proxying"} => hops[r] <= MaxHops
  /\ r \in sent /\ at[r] \in {"new", "screening", "reading"} /\ ~kind[r].upgrade
       => hops[r] > kind[r].hops

PathsAreTrue == \A r \in Requests : Path(r)

FrontInv == FrontTypeOK /\ PathsAreTrue /\ QueuedApart /\ CountsAreTrue

Those(a) == {r \in Requests : answer[r] = a}

(* A kind has the fields handle looks at.                                    *)
LEMMA KindFacts ==
  ASSUME FrontTypeOK, NEW r \in Requests
  PROVE  /\ kind[r] \in Kinds
         /\ kind[r].upgrade \in BOOLEAN /\ kind[r].hops \in 0..HopBound
         /\ kind[r].to \in {"nowhere", "management", "errors", "report", "service"}
         /\ kind[r].body \in {"valid", "invalid", "large", "cut"}
  BY FrontAssumption DEF FrontTypeOK

-------------------------------------------------------------------------------
(* Typing *)

LEMMA GoesType ==
  ASSUME FrontTypeOK, NEW r \in Requests, at[r] # "over", NEW to \in Behind \cup {"new", "reading"},
         Goes(r, to), kind' = kind, hops' \in [Requests -> 0..HopBound],
         sent' \subseteq Requests, queue' \subseteq Requests,
         noTarget' \in Nat, errors' \in Nat, draining' \in BOOLEAN
  PROVE  FrontTypeOK'
<1>1. 0 \in 0..RetryAttempts - 1
  BY FrontAssumption
<1>2. attempt' \in [Requests -> 0..RetryAttempts - 1]
  BY <1>1 DEF FrontTypeOK, Goes
<1>3. at' \in [Requests -> {"new", "reading", "over"} \cup Behind]
  BY DEF FrontTypeOK, Goes
<1>4. ASSUME NEW x \in Requests PROVE at'[x] = "over" <=> answer'[x] # "none"
  BY DEF FrontTypeOK, Goes, Behind
<1>. QED
  BY <1>2, <1>3, <1>4 DEF FrontTypeOK, Goes

LEMMA AnswerType ==
  ASSUME FrontTypeOK, NEW r \in Requests, at[r] # "over", NEW what \in Answers \ {"none"},
         Reply(r, what), kind' = kind, hops' \in [Requests -> 0..HopBound],
         sent' \subseteq Requests, queue' \subseteq Requests,
         noTarget' \in Nat, errors' \in Nat, draining' \in BOOLEAN
  PROVE  FrontTypeOK'
<1>1. 0 \in 0..RetryAttempts - 1
  BY FrontAssumption
<1>2. attempt' \in [Requests -> 0..RetryAttempts - 1]
  BY <1>1 DEF FrontTypeOK, Reply
<1>3. /\ at' \in [Requests -> {"new", "reading", "over"} \cup Behind]
      /\ answer' \in [Requests -> Answers]
  BY DEF FrontTypeOK, Reply
<1>4. ASSUME NEW x \in Requests PROVE at'[x] = "over" <=> answer'[x] # "none"
  BY DEF FrontTypeOK, Reply
<1>. QED
  BY <1>2, <1>3, <1>4 DEF FrontTypeOK

LEMMA PauseType ==
  ASSUME FrontTypeOK, NEW r \in Requests, at[r] # "over", NEW to \in Behind,
         Pause(r, to), MoreAttempts(r), kind' = kind, hops' \in [Requests -> 0..HopBound],
         sent' \subseteq Requests, queue' \subseteq Requests,
         noTarget' \in Nat, errors' \in Nat, draining' \in BOOLEAN
  PROVE  FrontTypeOK'
<1>1. attempt' \in [Requests -> 0..RetryAttempts - 1]
  BY FrontAssumption DEF FrontTypeOK, Pause, MoreAttempts
<1>2. at' \in [Requests -> {"new", "reading", "over"} \cup Behind]
  BY DEF FrontTypeOK, Pause
<1>3. ASSUME NEW x \in Requests PROVE at'[x] = "over" <=> answer'[x] # "none"
  BY DEF FrontTypeOK, Pause, Behind
<1>. QED
  BY <1>1, <1>2, <1>3 DEF FrontTypeOK, Pause

-------------------------------------------------------------------------------
(* Counting *)

(* An answer adds one request to those with that answer.                     *)
LEMMA OneMore ==
  ASSUME FrontTypeOK, NEW r \in Requests, at[r] # "over", NEW what \in Answers \ {"none"},
         Reply(r, what), NEW a \in Answers \ {"none"}
  PROVE  /\ Those(a)' = IF a = what THEN Those(a) \cup {r} ELSE Those(a)
         /\ Cardinality(Those(a)') = IF a = what THEN Cardinality(Those(a)) + 1
                                                 ELSE Cardinality(Those(a))
<1>1. answer[r] = "none"
  BY DEF FrontTypeOK
<1>2. r \notin Those(a)
  BY <1>1 DEF Those
<1>3. Those(a)' = IF a = what THEN Those(a) \cup {r} ELSE Those(a)
  BY <1>1 DEF FrontTypeOK, Reply, Those
<1>4. IsFiniteSet(Those(a))
  BY FS_Subset, FrontAssumption DEF Those
<1>. QED
  BY <1>2, <1>3, <1>4, FS_AddElement

-------------------------------------------------------------------------------
(* Steps *)

(* Neither the queue nor a count changes where nobody is answered.           *)
LEMMA UnansweredStep ==
  ASSUME FrontInv, FrontTypeOK', NEW r \in Requests, at[r] # "over",
         UNCHANGED <<kind, answer, queue, metrics>>,
         \A x \in Requests : hops'[x] >= hops[x], sent' \subseteq sent \cup {r},
         \A x \in Requests \ {r} : at'[x] = at[x] /\ hops'[x] = hops[x],
         Path(r)'
  PROVE  FrontInv'
<1>1. PathsAreTrue'
  BY DEF FrontInv, PathsAreTrue, Path
<1>2. CountsAreTrue'
  BY DEF FrontInv, CountsAreTrue, metrics
<1>3. r \notin queue
  BY DEF FrontInv, FrontTypeOK, QueuedApart
<1>4. QueuedApart'
  <2>1. \A x \in Requests : hops[x] \in Nat /\ hops'[x] \in Nat /\ kind[x].hops \in Nat
    BY KindFacts DEF FrontInv, FrontTypeOK
  <2>2. ASSUME NEW x \in queue' \cap sent' PROVE hops'[x] > kind'[x].hops
    <3>1. x \in queue \cap sent /\ x \in Requests
      BY <1>3 DEF FrontInv, FrontTypeOK
    <3>. QED
      BY <2>1, <3>1 DEF FrontInv, QueuedApart
  <2>. QED
    BY <2>2 DEF FrontInv, QueuedApart
<1>. QED
  BY <1>1, <1>2, <1>4 DEF FrontInv

(* An answer is counted and queued as it says.                               *)
LEMMA AnsweredStep ==
  ASSUME FrontInv, NEW r \in Requests, at[r] # "over", NEW what \in Answers \ {"none"},
         Reply(r, what), UNCHANGED <<kind, hops, draining>>,
         sent' = sent \/ (sent' = sent \cup {r} /\ what # "queued"),
         queue' = IF what = "queued" THEN queue \cup {r} ELSE queue,
         errors' = IF what = "failed" THEN errors + 1 ELSE errors,
         noTarget' = IF what = "noTarget" THEN noTarget + 1 ELSE noTarget,
         (what = "queued" /\ r \in sent) => hops[r] > kind[r].hops
  PROVE  FrontInv'
<1>. USE DEF FrontInv
<1>1. FrontTypeOK'
  <2>1. /\ sent' \subseteq Requests /\ queue' \subseteq Requests
        /\ noTarget' \in Nat /\ errors' \in Nat /\ draining' \in BOOLEAN
        /\ hops' \in [Requests -> 0..HopBound]
    BY DEF FrontTypeOK
  <2>. QED
    BY <2>1, AnswerType
<1>2. at'[r] = "over" /\ \A x \in Requests \ {r} : at'[x] = at[x]
  BY DEF FrontTypeOK, Reply
<1>3. PathsAreTrue'
  <2>1. ASSUME NEW x \in Requests, x # r PROVE Path(x)'
    BY <1>2, <2>1 DEF PathsAreTrue, Path
  <2>2. Path(r)'
    BY <1>2 DEF PathsAreTrue, Path
  <2>. QED
    BY <2>1, <2>2 DEF PathsAreTrue
<1>4. CountsAreTrue'
  <2>1. "failed" \in Answers \ {"none"} /\ "noTarget" \in Answers \ {"none"}
    BY DEF Answers
  <2>2. Cardinality(Those("failed")') = IF what = "failed" THEN Cardinality(Those("failed")) + 1
                                        ELSE Cardinality(Those("failed"))
    BY <2>1, OneMore
  <2>3. Cardinality(Those("noTarget")') = IF what = "noTarget" THEN Cardinality(Those("noTarget")) + 1
                                          ELSE Cardinality(Those("noTarget"))
    BY <2>1, OneMore
  <2>. QED
    BY <2>2, <2>3 DEF CountsAreTrue, Those
<1>5. QueuedApart'
  <2>1. "queued" \in Answers \ {"none"}
    BY DEF Answers
  <2>2. Those("queued")' = IF "queued" = what THEN Those("queued") \cup {r} ELSE Those("queued")
    BY <2>1, OneMore
  <2>3. queue' = Those("queued")'
    BY <2>2 DEF QueuedApart, Those
  <2>4. r \notin queue
    BY DEF FrontTypeOK, QueuedApart
  <2>5. \A x \in queue' \cap sent' : hops'[x] > kind'[x].hops
    BY <2>4 DEF QueuedApart
  <2>. QED
    BY <2>3, <2>5 DEF QueuedApart, Those
<1>. QED
  BY <1>1, <1>3, <1>4, <1>5

(* Going on to another place, admission by the hop count, and the failure of *)
(* a handler.                                                                *)
LEMMA GoesStep ==
  ASSUME FrontInv, NEW r \in Requests, at[r] # "over", NEW to \in Behind \cup {"new", "reading"},
         Goes(r, to), UNCHANGED <<kind, hops, sent, queue, metrics>>, draining' \in BOOLEAN,
         Path(r)'
  PROVE  FrontInv'
<1>1. /\ sent' \subseteq Requests /\ queue' \subseteq Requests
      /\ noTarget' \in Nat /\ errors' \in Nat /\ hops' \in [Requests -> 0..HopBound]
  BY DEF FrontInv, FrontTypeOK, metrics
<1>2. FrontTypeOK'
  BY <1>1, GoesType DEF FrontInv
<1>3. \A x \in Requests \ {r} : at'[x] = at[x]
  BY DEF FrontInv, FrontTypeOK, Goes
<1>4. \A x \in Requests : hops'[x] >= hops[x]
  BY DEF FrontInv, FrontTypeOK
<1>. QED
  BY <1>2, <1>3, <1>4, UnansweredStep DEF Goes

LEMMA AdmitStep ==
  ASSUME FrontInv, NEW r \in Requests, at[r] \in {"new", "screening"}, ~kind[r].upgrade,
         Admit(r), UNCHANGED <<kind, hops, sent, queue, metrics, draining>>
  PROVE  FrontInv'
<1>1. CASE TooFar(r)
  <2>1. Reply(r, "loop") /\ "loop" \in Answers \ {"none"}
    BY <1>1 DEF Admit, Answers
  <2>. QED
    BY <2>1, AnsweredStep DEF metrics
<1>2. CASE ~TooFar(r)
  <2>1. Goes(r, "routing") /\ "routing" \in Behind
    BY <1>2 DEF Admit, Behind
  <2>2. at'[r] = "routing"
    BY <2>1 DEF Goes, FrontInv, FrontTypeOK
  <2>3. hops[r] <= MaxHops
    BY <1>2, FrontAssumption DEF TooFar, FrontInv, FrontTypeOK
  <2>4. Path(r)'
    BY <2>2, <2>3 DEF FrontInv, PathsAreTrue, Path
  <2>5. draining' \in BOOLEAN
    BY DEF FrontInv, FrontTypeOK
  <2>. QED
    BY <2>1, <2>4, <2>5, GoesStep
<1>. QED
  BY <1>1, <1>2

LEMMA FailStep ==
  ASSUME FrontInv, NEW r \in Requests, at[r] # "over", Fail(r),
         UNCHANGED <<kind, hops, queue, draining>>, sent' = sent \/ sent' = sent \cup {r}
  PROVE  FrontInv'
<1>1. Reply(r, "failed") /\ "failed" \in Answers \ {"none"}
  BY DEF Fail, Answers
<1>. QED
  BY <1>1, AnsweredStep DEF Fail

(* What handle and handleUpgrade do before their first await.                *)
LEMMA NewStep ==
  ASSUME FrontInv, NEW r \in Requests,
         BadUrl(r) \/ Manage(r) \/ ServePage(r) \/ Report(r) \/ Request(r) \/ Upgrade(r)
  PROVE  FrontInv'
<1>1. at[r] = "new" /\ at[r] # "over"
  BY DEF BadUrl, Manage, ServePage, Report, Request, Upgrade, NewRequest
<1>2. draining \in BOOLEAN /\ kind[r].upgrade \in BOOLEAN
  BY KindFacts DEF FrontInv, FrontTypeOK
<1>3. CASE BadUrl(r)
  BY <1>1, <1>3, FailStep DEF BadUrl
<1>4. CASE Manage(r) \/ ServePage(r)
  <2>1. Reply(r, "served") /\ "served" \in Answers \ {"none"}
    BY <1>4 DEF Manage, ServePage, Answers
  <2>. QED
    BY <1>1, <1>4, <2>1, AnsweredStep DEF Manage, ServePage, metrics
<1>5. CASE Report(r)
  <2>1. PICK to \in {"screening", "reading"} : Goes(r, to)
    BY <1>5 DEF Report
  <2>2. at'[r] = to
    BY <2>1 DEF Goes, FrontInv, FrontTypeOK
  <2>3. Path(r)'
    BY <1>1, <1>5, <2>2 DEF Report, NewRequest, FrontInv, PathsAreTrue, Path
  <2>4. to \in Behind \cup {"new", "reading"}
    BY DEF Behind
  <2>. QED
    BY <1>1, <1>2, <1>5, <2>1, <2>3, <2>4, GoesStep DEF Report
<1>6. CASE Request(r)
  <2>1. CASE draining
    <3>1. Reply(r, "draining") /\ "draining" \in Answers \ {"none"}
      BY <1>6, <2>1 DEF Request, Answers
    <3>. QED
      BY <1>1, <1>6, <3>1, AnsweredStep DEF Request, metrics
  <2>2. CASE ~draining
    BY <1>1, <1>6, <2>2, AdmitStep DEF Request, NewRequest
  <2>. QED
    BY <1>2, <2>1, <2>2
<1>7. CASE Upgrade(r)
  <2>1. CASE draining
    <3>1. Reply(r, "draining") /\ "draining" \in Answers \ {"none"}
      BY <1>7, <2>1 DEF Upgrade, Answers
    <3>. QED
      BY <1>1, <1>7, <2>1, <3>1, AnsweredStep DEF Upgrade, metrics
  <2>2. CASE ~draining /\ kind[r].to = "nowhere"
    BY <1>1, <1>7, <2>2, FailStep DEF Upgrade
  <2>3. CASE ~draining /\ kind[r].to # "nowhere"
    <3>1. Goes(r, "upgrading") /\ "upgrading" \in Behind
      BY <1>7, <2>3 DEF Upgrade, Behind
    <3>2. at'[r] = "upgrading"
      BY <3>1 DEF Goes, FrontInv, FrontTypeOK
    <3>3. Path(r)'
      BY <1>7, <3>2 DEF Upgrade, FrontInv, PathsAreTrue, Path
    <3>. QED
      BY <1>1, <1>2, <1>7, <2>3, <3>1, <3>3, GoesStep DEF Upgrade
  <2>. QED
    BY <1>2, <2>1, <2>2, <2>3
<1>. QED
  BY <1>3, <1>4, <1>5, <1>6, <1>7

(* An attempt that is over and is followed by another.                       *)
LEMMA PauseStep ==
  ASSUME FrontInv, NEW r \in Requests, at[r] \in {"screening", "routing", "proxying", "upgrading"},
         NEW to \in Behind, to = at[r] \/ (at[r] = "proxying" /\ to = "routing"),
         Pause(r, to), MoreAttempts(r), UNCHANGED <<kind, hops, queue, metrics, draining>>,
         sent' = sent \/ (sent' = sent \cup {r} /\ at[r] = "proxying")
  PROVE  FrontInv'
<1>1. /\ sent' \subseteq Requests /\ queue' \subseteq Requests
      /\ noTarget' \in Nat /\ errors' \in Nat /\ hops' \in [Requests -> 0..HopBound]
      /\ draining' \in BOOLEAN
  BY DEF FrontInv, FrontTypeOK, metrics
<1>2. FrontTypeOK'
  BY <1>1, PauseType DEF FrontInv
<1>3. at'[r] = to /\ \A x \in Requests \ {r} : at'[x] = at[x]
  BY DEF FrontInv, FrontTypeOK, Pause
<1>4. \A x \in Requests : hops'[x] >= hops[x]
  BY DEF FrontInv, FrontTypeOK
<1>5. Path(r)'
  BY <1>3 DEF FrontInv, PathsAreTrue, Path
<1>. QED
  BY <1>2, <1>3, <1>4, <1>5, UnansweredStep DEF Pause

LEMMA SelectStep ==
  ASSUME FrontInv, NEW r \in Requests,
         NotSelected(r) \/ SelectionFails(r) \/ Forward(r) \/ Selected(r)
  PROVE  FrontInv'
<1>1. CASE NotSelected(r)
  <2>1. CASE MoreAttempts(r)
    <3>1. UNCHANGED <<kind, hops, queue, metrics, draining>> /\ sent' = sent
      BY <1>1, <2>1 DEF NotSelected
    <3>2. CASE at[r] = "screening"
      <4>1. Pause(r, "screening") /\ "screening" \in Behind
        BY <1>1, <2>1, <3>2 DEF NotSelected, Pause, Behind
      <4>. QED
        BY <2>1, <3>1, <3>2, <4>1, PauseStep
    <3>3. CASE at[r] = "routing"
      <4>1. Pause(r, "routing") /\ "routing" \in Behind
        BY <1>1, <2>1, <3>3 DEF NotSelected, Pause, Behind
      <4>. QED
        BY <2>1, <3>1, <3>3, <4>1, PauseStep
    <3>4. CASE at[r] = "upgrading"
      <4>1. Pause(r, "upgrading") /\ "upgrading" \in Behind
        BY <1>1, <2>1, <3>4 DEF NotSelected, Pause, Behind
      <4>. QED
        BY <2>1, <3>1, <3>4, <4>1, PauseStep
    <3>. QED
      BY <1>1, <3>2, <3>3, <3>4 DEF NotSelected
  <2>2. CASE ~MoreAttempts(r) /\ at[r] = "screening"
    <3>1. Goes(r, "reading")
      BY <1>1, <2>2 DEF NotSelected
    <3>2. at'[r] = "reading"
      BY <3>1 DEF Goes, FrontInv, FrontTypeOK
    <3>3. Path(r)'
      BY <1>1, <2>2, <3>2 DEF NotSelected, FrontInv, PathsAreTrue, Path
    <3>4. draining' \in BOOLEAN
      BY <1>1 DEF NotSelected, FrontInv, FrontTypeOK
    <3>. QED
      BY <1>1, <2>2, <3>1, <3>3, <3>4, GoesStep DEF NotSelected
  <2>3. CASE ~MoreAttempts(r) /\ at[r] # "screening"
    <3>1. Reply(r, "noTarget") /\ "noTarget" \in Answers \ {"none"}
      BY <1>1, <2>3 DEF NotSelected, RefuseUntargeted, Answers
    <3>. QED
      BY <1>1, <2>3, <3>1, AnsweredStep DEF NotSelected, RefuseUntargeted
  <2>. QED
    BY <2>1, <2>2, <2>3
<1>2. CASE Forward(r)
  <2>1. ~kind[r].upgrade
    BY <1>2 DEF Forward, FrontInv, PathsAreTrue, Path
  <2>. QED
    BY <1>2, <2>1, AdmitStep DEF Forward
<1>3. CASE Selected(r)
  <2>1. at'[r] = IF at[r] = "routing" THEN "proxying" ELSE "tunnel"
    BY <1>3 DEF Selected, FrontInv, FrontTypeOK
  <2>2. \A x \in Requests \ {r} : at'[x] = at[x]
    BY <1>3 DEF Selected, FrontInv, FrontTypeOK
  <2>3. FrontTypeOK'
    <3>1. at' \in [Requests -> {"new", "reading", "over"} \cup Behind]
      BY <1>3 DEF Selected, FrontInv, FrontTypeOK, Behind
    <3>2. ASSUME NEW x \in Requests PROVE at'[x] = "over" <=> answer'[x] # "none"
      BY <1>3, <2>1, <2>2 DEF Selected, FrontInv, FrontTypeOK
    <3>. QED
      BY <1>3, <3>1, <3>2 DEF Selected, FrontInv, FrontTypeOK, metrics
  <2>4. Path(r)'
    BY <1>3, <2>1 DEF Selected, FrontInv, PathsAreTrue, Path
  <2>5. \A x \in Requests : hops'[x] >= hops[x]
    BY <1>3 DEF Selected, FrontInv, FrontTypeOK
  <2>. QED
    BY <1>3, <2>2, <2>3, <2>4, <2>5, UnansweredStep DEF Selected
<1>4. CASE SelectionFails(r)
  BY <1>4, FailStep DEF SelectionFails
<1>. QED
  BY <1>1, <1>2, <1>3, <1>4

LEMMA ProxyStep ==
  ASSUME FrontInv, NEW r \in Requests, Answered(r) \/ ComesBack(r) \/ TargetFails(r)
  PROVE  FrontInv'
<1>1. CASE Answered(r)
  <2>1. Reply(r, "target") /\ "target" \in Answers \ {"none"}
    BY <1>1 DEF Answered, Answers
  <2>. QED
    BY <1>1, <2>1, AnsweredStep DEF Answered, metrics
<1>2. CASE ComesBack(r)
  <2>1. /\ at' = [at EXCEPT ![r] = "new"] /\ at[r] # "over"
        /\ hops' = [hops EXCEPT ![r] = AddHop(@)]
    BY <1>2 DEF ComesBack, Goes
  <2>2. hops[r] \in 0..HopBound /\ AddHop(hops[r]) \in 0..HopBound
    BY FrontAssumption DEF AddHop, FrontInv, FrontTypeOK
  <2>3. hops' \in [Requests -> 0..HopBound]
    BY <2>1, <2>2 DEF FrontInv, FrontTypeOK
  <2>4. at'[r] = "new" /\ hops'[r] = AddHop(hops[r])
    BY <2>1 DEF FrontInv, FrontTypeOK
  <2>5. \A x \in Requests \ {r} : at'[x] = at[x] /\ hops'[x] = hops[x]
    BY <2>1 DEF FrontInv, FrontTypeOK
  <2>6. hops'[r] >= hops[r] /\ (hops[r] <= MaxHops => hops'[r] > hops[r])
    BY <2>2, <2>4, FrontAssumption DEF AddHop
  <2>7. \A x \in Requests : hops[x] \in Nat
    BY DEF FrontInv, FrontTypeOK
  <2>8. \A x \in Requests : hops'[x] >= hops[x]
    BY <2>5, <2>6, <2>7
  <2>9. kind[r].hops \in Nat /\ MaxHops \in Nat /\ hops'[r] \in Nat
    BY <2>3, KindFacts, FrontAssumption DEF FrontInv
  <2>10. Path(r)'
    <3>1. kind'[r] = kind[r] /\ sent' = sent
      BY <1>2 DEF ComesBack
    <3>2. hops'[r] >= kind[r].hops
      BY <2>6, <2>7, <2>9 DEF FrontInv, PathsAreTrue, Path
    <3>3. ~kind[r].upgrade => hops'[r] > kind[r].hops
      BY <1>2, <2>6, <2>7, <2>9 DEF ComesBack, FrontInv, PathsAreTrue, Path
    <3>. QED
      BY <2>4, <3>1, <3>2, <3>3 DEF Path
  <2>11. FrontTypeOK'
    <3>1. /\ sent' \subseteq Requests /\ queue' \subseteq Requests /\ kind' = kind
          /\ noTarget' \in Nat /\ errors' \in Nat /\ draining' \in BOOLEAN
      BY <1>2 DEF ComesBack, FrontInv, FrontTypeOK, metrics
    <3>. QED
      BY <1>2, <2>1, <2>3, <3>1, GoesType DEF ComesBack, FrontInv
  <2>. QED
    BY <1>2, <2>1, <2>5, <2>8, <2>10, <2>11, UnansweredStep DEF ComesBack, Goes
<1>3. CASE TargetFails(r)
  <2>1. CASE at[r] = "proxying" /\ MoreAttempts(r) /\ Retry(r)
    <3>1. Pause(r, "routing") /\ "routing" \in Behind
      BY <2>1 DEF Retry, Behind
    <3>. QED
      BY <1>3, <2>1, <3>1, PauseStep DEF TargetFails, Retry
  <2>2. CASE at[r] = "proxying" /\ Fail(r)
    BY <1>3, <2>2, FailStep DEF TargetFails
  <2>3. CASE at[r] = "tunnel" /\ Reply(r, "dropped") /\ UNCHANGED metrics
    <3>1. "dropped" \in Answers \ {"none"}
      BY DEF Answers
    <3>. QED
      BY <1>3, <2>3, <3>1, AnsweredStep DEF TargetFails, metrics
  <2>. QED
    BY <1>3, <2>1, <2>2, <2>3 DEF TargetFails
<1>. QED
  BY <1>1, <1>2, <1>3

(* IncidentReportSink.accept: only a valid body is queued.                   *)
LEMMA AcceptStep ==
  ASSUME FrontInv, NEW r \in Requests, Accept(r)
  PROVE  FrontInv'
<1>1. at[r] = "reading" /\ UNCHANGED <<kind, hops, sent, metrics, draining>>
  BY DEF Accept
<1>2. r \in sent => hops[r] > kind[r].hops
  BY <1>1 DEF FrontInv, PathsAreTrue, Path
<1>3. CASE kind[r].body = "valid"
  <2>1. Reply(r, "queued") /\ queue' = queue \cup {r} /\ "queued" \in Answers \ {"none"}
    BY <1>3 DEF Accept, Answers
  <2>2. at[r] # "over" /\ errors' = errors /\ noTarget' = noTarget
    BY <1>1 DEF metrics
  <2>. QED
    BY <1>1, <1>2, <2>1, <2>2, AnsweredStep
<1>4. CASE kind[r].body = "invalid"
  <2>1. Reply(r, "rejected") /\ queue' = queue /\ "rejected" \in Answers \ {"none"}
    BY <1>4 DEF Accept, Answers
  <2>. QED
    BY <1>1, <2>1, AnsweredStep DEF metrics
<1>5. CASE kind[r].body \notin {"valid", "invalid"}
  <2>1. Reply(r, "dropped") /\ queue' = queue /\ "dropped" \in Answers \ {"none"}
    BY <1>5 DEF Accept, Answers
  <2>. QED
    BY <1>1, <2>1, AnsweredStep DEF metrics
<1>. QED
  BY <1>3, <1>4, <1>5

-------------------------------------------------------------------------------
LEMMA FrontInvInit == FrontInit => FrontInv
<1>. SUFFICES ASSUME FrontInit PROVE FrontInv
  OBVIOUS
<1>1. FrontTypeOK
  <2>1. 0 \in 0..RetryAttempts - 1
    BY FrontAssumption
  <2>2. hops \in [Requests -> 0..HopBound]
    BY FrontAssumption DEF FrontInit
  <2>. QED
    BY <2>1, <2>2 DEF FrontInit, FrontTypeOK, Answers
<1>2. PathsAreTrue
  BY <1>1, KindFacts DEF FrontInit, PathsAreTrue, Path
<1>3. QueuedApart
  BY DEF FrontInit, QueuedApart
<1>4. CountsAreTrue
  <2>1. {r \in Requests : answer[r] = "failed"} = {} /\ {r \in Requests : answer[r] = "noTarget"} = {}
    BY DEF FrontInit
  <2>. QED
    BY <2>1, FS_EmptySet DEF FrontInit, CountsAreTrue
<1>. QED
  BY <1>1, <1>2, <1>3, <1>4 DEF FrontInv

LEMMA FrontInvStep == FrontInv /\ [FrontNext]_frontVars => FrontInv'
<1>. SUFFICES ASSUME FrontInv, [FrontNext]_frontVars PROVE FrontInv'
  OBVIOUS
<1>1. ASSUME NEW r \in Requests, Turn(r) PROVE FrontInv'
  BY <1>1, NewStep, SelectStep, ProxyStep, AcceptStep DEF Turn
<1>2. CASE Drain
  BY <1>2 DEF Drain, FrontInv, FrontTypeOK, PathsAreTrue, Path, QueuedApart, CountsAreTrue, metrics
<1>3. CASE UNCHANGED frontVars
  BY <1>3 DEF frontVars, FrontInv, FrontTypeOK, PathsAreTrue, Path, QueuedApart, CountsAreTrue, metrics
<1>. QED
  BY <1>1, <1>2, <1>3 DEF FrontNext

(* What is queued and counted agrees with the answers clients got, and no    *)
(* report in the queue was sent before it came back (IncidentReportSink,     *)
(* RouterMetrics).  The inductive invariant adds how a request got where it  *)
(* is.                                                                       *)
THEOREM AnswersAgree == FrontSpec => []AnswersAreTrue
<1>1. FrontInv => AnswersAreTrue
  BY DEF FrontInv, AnswersAreTrue
<1>. QED
  BY <1>1, FrontInvInit, FrontInvStep, PTL DEF FrontSpec

(* While the router drains nothing more gets behind its front, neither what  *)
(* comes in nor a report nor what comes back (MeshRouterServer.handle).      *)
THEOREM NothingTaken == FrontSpec => DrainingTakesNothing
<1>1. FrontTypeOK /\ FrontNext => (draining => AtBack' \subseteq AtBack)
  <2>. SUFFICES ASSUME FrontTypeOK, FrontNext, draining, NEW x \in Requests, at'[x] \in Behind
                PROVE  at[x] \in Behind
    BY DEF AtBack
  <2>1. CASE Drain
    BY <2>1 DEF Drain
  <2>2. ASSUME NEW r \in Requests, Turn(r) PROVE at[x] \in Behind
    <3>1. ASSUME at[r] \notin Behind PROVE at'[r] \notin Behind
      <4>1. at[r] \in {"new", "reading", "over"}
        BY <3>1 DEF FrontTypeOK
      <4>2. CASE BadUrl(r) \/ Manage(r) \/ ServePage(r) \/ Report(r) \/ Request(r) \/ Upgrade(r)
        BY <4>2 DEF BadUrl, Manage, ServePage, Report, Screened, Request, Upgrade, Goes, Reply,
                    Fail, FrontTypeOK, Behind
      <4>3. CASE Accept(r)
        BY <4>3 DEF Accept, Reply, FrontTypeOK, Behind
      <4>. QED
        BY <2>2, <4>1, <4>2, <4>3
           DEF Turn, NotSelected, SelectionFails, Forward, Selected, Answered, ComesBack, TargetFails
    <3>2. \A y \in Requests \ {r} : at'[y] = at[y]
      <4>1. CASE BadUrl(r) \/ Manage(r) \/ ServePage(r) \/ Report(r) \/ Request(r) \/ Upgrade(r) \/ Accept(r)
        BY <4>1 DEF BadUrl, Manage, ServePage, Report, Request, Upgrade, Accept, Goes, Reply,
                    Admit, Fail, FrontTypeOK
      <4>2. CASE NotSelected(r) \/ SelectionFails(r) \/ Forward(r) \/ Selected(r)
        BY <4>2 DEF NotSelected, SelectionFails, Forward, Selected, Goes, Reply, Pause, Fail, Admit,
                    RefuseUntargeted, FrontTypeOK
      <4>3. CASE Answered(r) \/ ComesBack(r) \/ TargetFails(r)
        BY <4>3 DEF Answered, ComesBack, TargetFails, Retry, Fail, Goes, Reply, Pause, FrontTypeOK
      <4>. QED
        BY <2>2, <4>1, <4>2, <4>3 DEF Turn
    <3>. QED
      BY <3>1, <3>2
  <2>. QED
    BY <2>1, <2>2 DEF FrontNext
<1>2. FrontTypeOK /\ [FrontNext]_frontVars => [draining => AtBack' \subseteq AtBack]_frontVars
  BY <1>1
<1>3. FrontInv => FrontTypeOK
  BY DEF FrontInv
<1>. QED
  BY <1>2, <1>3, FrontInvInit, FrontInvStep, PTL DEF FrontSpec, DrainingTakesNothing
===============================================================================
