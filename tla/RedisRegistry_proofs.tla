------------------------- MODULE RedisRegistry_proofs -------------------------
(***************************************************************************)
(* Proofs about RedisRegistry, for every set of nodes, heartbeats and       *)
(* listers: typing, clean stops, what a drain achieves, and what lists may  *)
(* do to a live instance.                                                   *)
(***************************************************************************)
EXTENDS RedisRegistry, TLAPS

(* Every reachable state has the declared types.                            *)
THEOREM TypeCorrect == Spec => []TypeOK
<1>1. Init => TypeOK
  BY DEF Init, TypeOK, Idle
<1>2. TypeOK /\ [Next]_vars => TypeOK'
  <2>. SUFFICES ASSUME TypeOK, [Next]_vars
                PROVE  TypeOK'
    OBVIOUS
  <2>. USE DEF TypeOK
  <2>1. ASSUME NEW n \in Nodes,
               \/ Start(n) \/ Drain(n) \/ Stop(n) \/ Crash(n)
               \/ LifeCycle(n) \/ DrainFails(n) \/ Expire(n)
        PROVE  TypeOK'
    <3>1. CASE Start(n) \/ Drain(n) \/ Stop(n) \/ DrainFails(n) \/ Expire(n)
      BY <3>1 DEF Start, Drain, Stop, DrainFails, Expire, Goes, Store
    <3>2. CASE Crash(n)
      BY <3>2 DEF Crash
    <3>3. CASE RegisterAdd(n) \/ RegisterSet(n)
      BY <3>3 DEF RegisterAdd, RegisterSet, Goes, Store
    <3>4. CASE DrainGet(n) \/ DrainSet(n)
      BY <3>4 DEF DrainGet, DrainSet, Drained, Goes, Store
    <3>5. CASE UnregisterDelete(n) \/ UnregisterRemove(n)
      BY <3>5 DEF UnregisterDelete, UnregisterRemove, Goes, Store
    <3>. QED
      BY <2>1, <3>1, <3>2, <3>3, <3>4, <3>5 DEF LifeCycle
  <2>2. ASSUME NEW n \in Nodes, NEW b \in Beats,
               BeatSend(n, b) \/ BeatGet(n, b) \/ BeatSet(n, b) \/ BeatFails(n, b)
        PROVE  TypeOK'
    <3>1. ASSUME NEW from, NEW to \in {"none", "GET", "running", "draining"},
                 BeatBecomes(n, b, from, to)
          PROVE  beat' \in [Nodes -> [Beats -> {"none", "GET", "running", "draining"}]]
      BY <3>1 DEF BeatBecomes
    <3>2. beat' \in [Nodes -> [Beats -> {"none", "GET", "running", "draining"}]]
      BY <2>2, <3>1 DEF BeatSend, BeatGet, BeatSet, BeatFails
    <3>3. record' \in [Nodes -> {"none", "running", "draining"}]
      BY <2>2 DEF BeatSend, BeatGet, BeatSet, BeatFails, Store
    <3>. QED
      BY <2>2, <3>2, <3>3 DEF BeatSend, BeatGet, BeatSet, BeatFails
  <2>3. ASSUME NEW l \in Listers, Listing(l)
        PROVE  TypeOK'
    <3>1. CASE ListBegin(l)
      BY <3>1 DEF ListBegin
    <3>2. CASE ListRemove(l)
      BY <3>2 DEF ListRemove, Idle
    <3>3. ASSUME NEW n \in Nodes, ListGet(l, n)
          PROVE  TypeOK'
      BY <3>3 DEF ListGet
    <3>. QED
      BY <2>3, <3>1, <3>2, <3>3 DEF Listing
  <2>4. CASE UNCHANGED vars
    BY <2>4 DEF vars
  <2>. QED
    BY <2>1, <2>2, <2>3, <2>4 DEF Next
<1>. QED
  BY <1>1, <1>2, PTL DEF Spec

-------------------------------------------------------------------------------
(* After a clean stop nothing brings an instance back into the index.       *)
THEOREM StopIsClean == Spec => []StoppedIsUnlisted
<1>1. Init => StoppedIsUnlisted
  BY DEF Init, StoppedIsUnlisted
<1>2. TypeOK /\ StoppedIsUnlisted /\ [Next]_vars => StoppedIsUnlisted'
  <2>. SUFFICES ASSUME TypeOK, StoppedIsUnlisted, [Next]_vars
                PROVE  StoppedIsUnlisted'
    OBVIOUS
  <2>. USE DEF TypeOK, StoppedIsUnlisted
  <2>1. ASSUME NEW n \in Nodes,
               \/ Start(n) \/ Drain(n) \/ Stop(n) \/ Crash(n)
               \/ LifeCycle(n) \/ DrainFails(n) \/ Expire(n)
        PROVE  StoppedIsUnlisted'
    BY <2>1 DEF Start, Drain, Stop, Crash, LifeCycle, RegisterAdd, RegisterSet, DrainGet,
                DrainSet, UnregisterDelete, UnregisterRemove, DrainFails, Expire, Goes
  <2>2. ASSUME NEW n \in Nodes, NEW b \in Beats,
               BeatSend(n, b) \/ BeatGet(n, b) \/ BeatSet(n, b) \/ BeatFails(n, b)
        PROVE  StoppedIsUnlisted'
    BY <2>2 DEF BeatSend, BeatGet, BeatSet, BeatFails
  <2>3. ASSUME NEW l \in Listers, Listing(l)
        PROVE  StoppedIsUnlisted'
    BY <2>3 DEF Listing, ListBegin, ListRemove, ListGet
  <2>4. CASE UNCHANGED vars
    BY <2>4 DEF vars
  <2>. QED
    BY <2>1, <2>2, <2>3, <2>4 DEF Next
<1>. QED
  BY <1>1, <1>2, TypeCorrect, PTL DEF Spec

-------------------------------------------------------------------------------
(* What keeps a drain: neither the record nor a heartbeat in flight says    *)
(* "running" any more.                                                      *)
DrainInv ==
  \A n \in Nodes : node[n] = "drained" /\ n \notin overtaken =>
    record[n] # "running" /\ \A b \in Beats : beat[n][b] # "running"

LEMMA DrainInvStep == TypeOK /\ DrainInv /\ [Next]_vars => DrainInv'
<1>. SUFFICES ASSUME TypeOK, DrainInv, [Next]_vars, NEW m \in Nodes,
                     node'[m] = "drained", m \notin overtaken'
              PROVE  record'[m] # "running" /\ \A b \in Beats : beat'[m][b] # "running"
  BY DEF DrainInv
<1>. USE DEF TypeOK, DrainInv
<1>1. ASSUME NEW n \in Nodes,
             Start(n) \/ Drain(n) \/ Stop(n) \/ Crash(n) \/ DrainFails(n) \/ Expire(n)
      PROVE  record'[m] # "running" /\ \A b \in Beats : beat'[m][b] # "running"
  BY <1>1 DEF Start, Drain, Stop, Crash, DrainFails, Expire, Goes, Store
<1>2. ASSUME NEW n \in Nodes, LifeCycle(n)
      PROVE  record'[m] # "running" /\ \A b \in Beats : beat'[m][b] # "running"
  <2>1. CASE DrainGet(n) \/ DrainSet(n)
    BY <2>1 DEF DrainGet, DrainSet, Drained, Goes, Store
  <2>2. CASE \/ RegisterAdd(n) \/ RegisterSet(n)
             \/ UnregisterDelete(n) \/ UnregisterRemove(n)
    BY <2>2 DEF RegisterAdd, RegisterSet, UnregisterDelete, UnregisterRemove, Goes, Store
  <2>. QED
    BY <1>2, <2>1, <2>2 DEF LifeCycle
<1>3. ASSUME NEW n \in Nodes, NEW b \in Beats,
             BeatSend(n, b) \/ BeatGet(n, b) \/ BeatSet(n, b) \/ BeatFails(n, b)
      PROVE  record'[m] # "running" /\ \A c \in Beats : beat'[m][c] # "running"
  BY <1>3 DEF BeatSend, BeatGet, BeatSet, BeatFails, BeatBecomes, Store
<1>4. ASSUME NEW l \in Listers, Listing(l)
      PROVE  record'[m] # "running" /\ \A b \in Beats : beat'[m][b] # "running"
  BY <1>4 DEF Listing, ListBegin, ListRemove, ListGet
<1>5. CASE UNCHANGED vars
  BY <1>5 DEF vars
<1>. QED
  BY <1>1, <1>2, <1>3, <1>4, <1>5 DEF Next

(* A drain that no heartbeat overtook sticks.                               *)
THEOREM DrainIsKept == Spec => []DrainHolds
<1>1. Init => DrainInv
  BY DEF Init, DrainInv
<1>2. DrainInv => DrainHolds
  BY DEF DrainInv, DrainHolds
<1>. QED
  BY <1>1, <1>2, DrainInvStep, TypeCorrect, PTL DEF Spec

-------------------------------------------------------------------------------
(* No list that begins after a live instance is in place removes it.        *)
THEOREM ListsSpareTheLiving == Spec => ListedStaysListed
<1>1. ASSUME TypeOK, [Next]_vars, NEW m \in Nodes, Established(m), Beating(m)'
      PROVE  Established(m)'
  <2>. SUFFICES /\ record'[m] # "none" /\ m \in index'
                /\ \A l \in Listers : m \notin list'[l].missing
    BY <1>1 DEF Established
  <2>. USE <1>1 DEF TypeOK, Established
  <2>1. ASSUME NEW n \in Nodes,
               \/ Start(n) \/ Drain(n) \/ Stop(n) \/ Crash(n)
               \/ LifeCycle(n) \/ DrainFails(n) \/ Expire(n)
        PROVE  /\ record'[m] # "none" /\ m \in index'
               /\ \A l \in Listers : m \notin list'[l].missing
    BY <2>1 DEF Beating, Start, Drain, Stop, Crash, LifeCycle, RegisterAdd, RegisterSet,
                DrainGet, DrainSet, UnregisterDelete, UnregisterRemove, DrainFails, Expire,
                Goes, Store
  <2>2. ASSUME NEW n \in Nodes, NEW b \in Beats,
               BeatSend(n, b) \/ BeatGet(n, b) \/ BeatSet(n, b) \/ BeatFails(n, b)
        PROVE  /\ record'[m] # "none" /\ m \in index'
               /\ \A l \in Listers : m \notin list'[l].missing
    BY <2>2 DEF BeatSend, BeatGet, BeatSet, BeatFails, BeatBecomes, Store
  <2>3. ASSUME NEW k \in Listers, Listing(k)
        PROVE  /\ record'[m] # "none" /\ m \in index'
               /\ \A l \in Listers : m \notin list'[l].missing
    BY <2>3 DEF Listing, ListBegin, ListRemove, ListGet, Idle
  <2>4. CASE UNCHANGED vars
    BY <2>4 DEF vars
  <2>. QED
    BY <2>1, <2>2, <2>3, <2>4 DEF Next
<1>2. TypeOK /\ [Next]_vars
      => [\A n \in Nodes : Established(n) /\ Beating(n)' => Established(n)']_vars
  BY <1>1
<1>. QED
  BY <1>2, TypeCorrect, PTL DEF Spec, ListedStaysListed
===============================================================================
