----------------------------- MODULE Locks_proofs -----------------------------
(***************************************************************************)
(* Proofs about Locks, for every set of tasks, keys and owners and every    *)
(* choice of the times: typing, releases paired with runs, releases only by *)
(* the owner, and, for the tasks that renew in time, mutual exclusion and   *)
(* the refinement of LeaseMutex.                                            *)
(***************************************************************************)
EXTENDS Locks, TLAPS

USE TasksAssumption, TimesAssumption

Lease == [owner : Owners \cup {NoOwner}, left : Nat]

(* Pruning keeps the unexpired leases and frees every other key.            *)
LEMMA PrunedFacts ==
  ASSUME TypeOK
  PROVE  /\ Pruned \in [Keys -> Lease]
         /\ \A k \in Keys : Live(k) => Pruned[k] = locks[k]
         /\ \A k \in Keys : ~ Live(k) => Pruned[k] = Free
BY DEF TypeOK, Pruned, Live, Free, Lease

(* A renewal touches only the key of its task, only when the task's manager *)
(* holds an unexpired lease on it, and then only the time left.             *)
LEMMA RenewedForm ==
  ASSUME TypeOK, NEW t \in Tasks, NEW ttl \in Nat \ {0}
  PROVE  Renewed(t, ttl) =
           IF OwnsLock(t)
           THEN [Pruned EXCEPT ![KeyOf[t]] = [owner |-> OwnerOf[t], left |-> ttl]]
           ELSE Pruned
<1>1. CASE OwnsLock(t)
  <2>1. /\ Pruned \in [Keys -> Lease]
        /\ KeyOf[t] \in Keys
        /\ Pruned[KeyOf[t]] = locks[KeyOf[t]] /\ locks[KeyOf[t]].owner = OwnerOf[t]
    BY <1>1, PrunedFacts DEF OwnsLock
  <2>2. [Pruned[KeyOf[t]] EXCEPT !.left = ttl] = [owner |-> OwnerOf[t], left |-> ttl]
    BY <2>1 DEF Lease
  <2>. QED
    BY <1>1, <2>1, <2>2 DEF Renewed
<1>2. CASE ~ OwnsLock(t)
  BY <1>2 DEF Renewed
<1>. QED
  BY <1>1, <1>2

LEMMA RenewedFacts ==
  ASSUME TypeOK, NEW t \in Tasks, NEW ttl \in Nat \ {0}, NEW k \in Keys
  PROVE  /\ Renewed(t, ttl) \in [Keys -> Lease]
         /\ ~ Live(k) => Renewed(t, ttl)[k] = Free
         /\ Live(k) => Renewed(t, ttl)[k].left > 0 /\ Renewed(t, ttl)[k].owner = locks[k].owner
         /\ Live(k) /\ ~ (OwnsLock(t) /\ k = KeyOf[t]) => Renewed(t, ttl)[k] = locks[k]
         /\ OwnsLock(t) /\ k = KeyOf[t] => Renewed(t, ttl)[k].left = ttl
BY PrunedFacts, RenewedForm DEF Lease, Live, OwnsLock, Free

(* A release frees the key of its task if its manager holds an unexpired    *)
(* lease on it, and leaves every other lease alone.                         *)
LEMMA ReleasedFacts ==
  ASSUME TypeOK, NEW t \in Tasks, NEW k \in Keys
  PROVE  /\ Released(t) \in [Keys -> Lease]
         /\ ~ Live(k) => Released(t)[k] = Free
         /\ Live(k) => IF k = KeyOf[t] /\ OwnerOf[t] = locks[k].owner
                       THEN Released(t)[k] = Free
                       ELSE Released(t)[k] = locks[k]
BY PrunedFacts DEF Released, OwnsLock, Lease, Free

(* The renewal period is a positive number of milliseconds.                 *)
LEMMA RenewEveryType == \A t \in Tasks : RenewEvery(t) \in Nat \ {0}
BY DEF RenewEvery

-------------------------------------------------------------------------------
(* Every reachable state has the declared types.                            *)
THEOREM TypeCorrect == Spec => []TypeOK
<1>1. Init => TypeOK
  BY DEF Init, TypeOK, Free
<1>2. TypeOK /\ [Next]_vars => TypeOK'
  <2>. SUFFICES ASSUME TypeOK, [Next]_vars
                PROVE  TypeOK'
    OBVIOUS
  <2>. USE DEF TypeOK, Lease
  <2>1. ASSUME NEW t \in Tasks, Granted(t)
        PROVE  TypeOK'
    <3>1. LeaseFor(t) \in Lease
      BY DEF LeaseFor
    <3>2. locks' \in [Keys -> Lease]
      BY <2>1, <3>1, PrunedFacts DEF Granted
    <3>. QED
      BY <2>1, <3>2, RenewEveryType DEF Granted
  <2>2. ASSUME NEW t \in Tasks, NEW left \in Int, Refused(t, left)
        PROVE  TypeOK'
    BY <2>2, PrunedFacts DEF Refused, SleepFor
  <2>3. ASSUME NEW t \in Tasks, Call(t)
        PROVE  TypeOK'
    BY <2>1, <2>2, <2>3 DEF Call
  <2>4. ASSUME NEW t \in Tasks, Retry(t)
        PROVE  TypeOK'
    BY <2>1, <2>2, <2>4 DEF Retry
  <2>5. ASSUME NEW t \in Tasks, RenewTick(t)
        PROVE  TypeOK'
    <3>1. locks' \in [Keys -> Lease]
      BY <2>5, RenewedFacts DEF RenewTick
    <3>. QED
      BY <2>5, <3>1, RenewEveryType DEF RenewTick
  <2>6. ASSUME NEW t \in Tasks, RenewByHand(t)
        PROVE  TypeOK'
    <3>1. locks' \in [Keys -> Lease]
      BY <2>6, RenewedFacts DEF RenewByHand
    <3>. QED
      BY <2>6, <3>1 DEF RenewByHand
  <2>7. ASSUME NEW t \in Tasks, Settle(t)
        PROVE  TypeOK'
    <3>1. locks' \in [Keys -> Lease]
      BY <2>7, ReleasedFacts DEF Settle
    <3>. QED
      BY <2>7, <3>1 DEF Settle
  <2>8. CASE List
    BY <2>8, PrunedFacts DEF List
  <2>9. CASE Tick
    <3>1. locks' \in [Keys -> Lease]
      BY <2>9 DEF Tick, Live
    <3>. QED
      BY <2>9, <3>1 DEF Tick
  <2>10. CASE UNCHANGED vars
    BY <2>10 DEF vars
  <2>. QED
    BY <2>3, <2>4, <2>5, <2>6, <2>7, <2>8, <2>9, <2>10 DEF Next
<1>. QED
  BY <1>1, <1>2, PTL DEF Spec

-------------------------------------------------------------------------------
(* While a lease is unexpired, a task of its owner is inside the function   *)
(* it protects: leases are never left behind by a finished call.            *)
THEOREM OrphanFree == Spec => []NoOrphanLock
<1>1. Init => NoOrphanLock
  BY DEF Init, NoOrphanLock, Live, Free
<1>2. TypeOK /\ NoOrphanLock /\ [Next]_vars => NoOrphanLock'
  <2>. SUFFICES ASSUME TypeOK, NoOrphanLock, [Next]_vars,
                       NEW k \in Keys, Live(k)'
                PROVE  \E t \in Tasks : /\ pc'[t] = "running"
                                        /\ KeyOf[t] = k
                                        /\ OwnerOf[t] = locks'[k].owner
    BY DEF NoOrphanLock
  <2>. USE DEF TypeOK, Live
  <2>1. ASSUME NEW t \in Tasks, Granted(t)
        PROVE  \E u \in Tasks : pc'[u] = "running" /\ KeyOf[u] = k /\ OwnerOf[u] = locks'[k].owner
    <3>1. CASE k = KeyOf[t]
      <4>1. locks'[k].owner = OwnerOf[t] /\ pc'[t] = "running"
        BY <2>1, <3>1, PrunedFacts DEF Granted, LeaseFor
      <4>. QED
        BY <3>1, <4>1
    <3>2. CASE k # KeyOf[t]
      <4>1. Live(k) /\ locks'[k] = locks[k]
        BY <2>1, <3>2, PrunedFacts DEF Granted, Free
      <4>2. \A u \in Tasks : pc[u] = "running" => pc'[u] = "running"
        BY <2>1 DEF Granted
      <4>. QED
        BY <4>1, <4>2 DEF NoOrphanLock
    <3>. QED
      BY <3>1, <3>2
  <2>2. ASSUME NEW t \in Tasks, pc[t] # "running", NEW left \in Int, Refused(t, left)
        PROVE  \E u \in Tasks : pc'[u] = "running" /\ KeyOf[u] = k /\ OwnerOf[u] = locks'[k].owner
    <3>1. Live(k) /\ locks'[k] = locks[k]
      BY <2>2, PrunedFacts DEF Refused, Free
    <3>2. \A u \in Tasks : pc[u] = "running" => pc'[u] = "running"
      BY <2>2 DEF Refused
    <3>. QED
      BY <3>1, <3>2 DEF NoOrphanLock
  <2>3. ASSUME NEW t \in Tasks, Call(t) \/ Retry(t)
        PROVE  \E u \in Tasks : pc'[u] = "running" /\ KeyOf[u] = k /\ OwnerOf[u] = locks'[k].owner
    BY <2>1, <2>2, <2>3 DEF Call, Retry
  <2>4. ASSUME NEW t \in Tasks, NEW ttl \in Nat \ {0}, locks' = Renewed(t, ttl), UNCHANGED pc
        PROVE  \E u \in Tasks : pc'[u] = "running" /\ KeyOf[u] = k /\ OwnerOf[u] = locks'[k].owner
    <3>1. Live(k) /\ locks'[k].owner = locks[k].owner
      BY <2>4, RenewedFacts DEF Free
    <3>. QED
      BY <2>4, <3>1 DEF NoOrphanLock
  <2>5. ASSUME NEW t \in Tasks, RenewTick(t) \/ RenewByHand(t)
        PROVE  \E u \in Tasks : pc'[u] = "running" /\ KeyOf[u] = k /\ OwnerOf[u] = locks'[k].owner
    BY <2>4, <2>5 DEF RenewTick, RenewByHand
  <2>6. ASSUME NEW t \in Tasks, Settle(t)
        PROVE  \E u \in Tasks : pc'[u] = "running" /\ KeyOf[u] = k /\ OwnerOf[u] = locks'[k].owner
    <3>1. /\ Live(k) /\ locks'[k] = locks[k]
          /\ ~ (KeyOf[t] = k /\ OwnerOf[t] = locks[k].owner)
      BY <2>6, ReleasedFacts DEF Settle, Free
    <3>2. PICK u \in Tasks : pc[u] = "running" /\ KeyOf[u] = k /\ OwnerOf[u] = locks[k].owner
      BY <3>1 DEF NoOrphanLock
    <3>3. u # t /\ pc'[u] = "running"
      BY <2>6, <3>1, <3>2 DEF Settle
    <3>. QED
      BY <3>1, <3>2, <3>3
  <2>7. CASE List
    <3>1. Live(k) /\ locks'[k] = locks[k]
      BY <2>7, PrunedFacts DEF List, Free
    <3>. QED
      BY <2>7, <3>1 DEF NoOrphanLock, List
  <2>8. CASE Tick
    <3>1. Live(k) /\ locks'[k].owner = locks[k].owner
      BY <2>8 DEF Tick
    <3>. QED
      BY <2>8, <3>1 DEF NoOrphanLock, Tick
  <2>9. CASE UNCHANGED vars
    BY <2>9 DEF vars, NoOrphanLock
  <2>. QED
    BY <2>3, <2>5, <2>6, <2>7, <2>8, <2>9 DEF Next
<1>. QED
  BY <1>1, <1>2, TypeCorrect, PTL DEF Spec

(* A lease ends by running out or by the end of a call of its own manager.  *)
THEOREM OwnerScoped == Spec => ReleasedOnlyByOwner
<1>. DEFINE Ends(k) == Live(k) /\ ~ (Live(k)' /\ locks'[k].owner = locks[k].owner)
            Excused(k) ==
              \/ locks[k].left = 1 /\ Tick
              \/ \E t \in Tasks :
                   /\ KeyOf[t] = k /\ OwnerOf[t] = locks[k].owner
                   /\ pc[t] = "running" /\ pc'[t] # "running"
<1>1. TypeOK /\ [Next]_vars => [\A k \in Keys : Ends(k) => Excused(k)]_vars
  <2>. SUFFICES ASSUME TypeOK, Next, NEW k \in Keys, Ends(k)
                PROVE  Excused(k)
    OBVIOUS
  <2>. USE DEF TypeOK, Live
  <2>1. ASSUME NEW t \in Tasks, Call(t) \/ Retry(t)
        PROVE  FALSE
    BY <2>1, PrunedFacts DEF Call, Retry, Granted, Refused
  <2>2. ASSUME NEW t \in Tasks, RenewTick(t) \/ RenewByHand(t)
        PROVE  FALSE
    <3>1. PICK ttl \in Nat \ {0} : locks' = Renewed(t, ttl)
      BY <2>2 DEF RenewTick, RenewByHand
    <3>2. locks'[k].left > 0 /\ locks'[k].owner = locks[k].owner
      BY <3>1, RenewedFacts
    <3>. QED
      BY <3>2
  <2>3. ASSUME NEW t \in Tasks, Settle(t)
        PROVE  Excused(k)
    <3>1. KeyOf[t] = k /\ OwnerOf[t] = locks[k].owner
      BY <2>3, ReleasedFacts DEF Settle
    <3>2. pc[t] = "running" /\ pc'[t] # "running"
      BY <2>3 DEF Settle
    <3>. QED
      BY <3>1, <3>2
  <2>4. CASE List
    BY <2>4, PrunedFacts DEF List
  <2>5. CASE Tick
    BY <2>5 DEF Tick
  <2>. QED
    BY <2>1, <2>2, <2>3, <2>4, <2>5 DEF Next
<1>. QED
  BY <1>1, TypeCorrect, PTL DEF Spec, ReleasedOnlyByOwner

-------------------------------------------------------------------------------
(* The tasks that renew in time.  The invariant ties the clock of the       *)
(* renewal timer to the clock of the lease: without it, exclusion is not    *)
(* inductive, since Tick could run a lease out under a running function.    *)

LeaseInv == TypeOK /\ RenewalAhead /\ MutualExclusion

(* The two clocks of one running task, as RenewalAhead relates them.        *)
Ahead(t) ==
  /\ OwnsLock(t)
  /\ -MaxLag <= timer[t] /\ timer[t] <= RenewEvery(t)
  /\ timer[t] + MaxLag < locks[KeyOf[t]].left

(* A key with no unexpired lease has no task that renews in time inside.    *)
LEMMA FreeKeyIsEmpty ==
  ASSUME RenewalAhead, NEW t \in Tasks, NEW u \in Tasks,
         ~ Live(KeyOf[t]), pc[u] = "running", InTime(u)
  PROVE  KeyOf[u] # KeyOf[t]
BY DEF RenewalAhead, OwnsLock

(* Of the tasks of one manager and one key, at most one runs if any of them *)
(* that runs renews in time.                                                *)
LEMMA AloneInManager ==
  ASSUME Apart, LeaseInv, NEW t \in Tasks, NEW u \in Tasks,
         pc[t] = "running", pc[u] = "running", InTime(u),
         KeyOf[t] = KeyOf[u], OwnerOf[t] = OwnerOf[u]
  PROVE  t = u
BY DEF Apart, LeaseInv, MutualExclusion

LEMMA LeaseInvInit == Init => LeaseInv
<1>1. Init => TypeOK
  BY DEF Init, TypeOK, Free
<1>. QED
  BY <1>1 DEF Init, LeaseInv, RenewalAhead, MutualExclusion

LEMMA LeaseInvStep ==
  ASSUME Apart, LeaseInv, TypeOK', [Next]_vars
  PROVE  LeaseInv'
<1>. USE DEF LeaseInv
<1>0. SUFFICES RenewalAhead' /\ MutualExclusion'
  OBVIOUS
<1>1. ASSUME NEW u \in Tasks, pc[u] = "running", InTime(u)
      PROVE  Ahead(u) /\ Live(KeyOf[u]) /\ KeyOf[u] \in Keys
  BY <1>1 DEF RenewalAhead, Ahead, OwnsLock
\* It is enough that each task that renews in time and runs after the step is
\* ahead, and entered, if it did, a key that no such task was inside.
<1>2. ASSUME \A u \in Tasks : pc'[u] = "running" /\ InTime(u) => Ahead(u)',
             \A u, w \in Tasks :
               /\ pc'[u] = "running" /\ pc[u] # "running"
               /\ pc'[w] = "running" /\ InTime(w) /\ KeyOf[u] = KeyOf[w]
               => u = w
      PROVE  LeaseInv'
  <2>1. RenewalAhead'
    BY <1>2 DEF RenewalAhead, Ahead, OwnsLock, Live, InTime, RenewEvery
  <2>2. MutualExclusion'
    BY <1>2 DEF MutualExclusion, InTime, RenewEvery
  <2>. QED
    BY <2>1, <2>2
<1>3. ASSUME NEW t \in Tasks, pc[t] # "running", Granted(t)
      PROVE  LeaseInv'
  <2>1. ASSUME NEW u \in Tasks, pc'[u] = "running", InTime(u), u # t
        PROVE  Ahead(u)' /\ KeyOf[u] # KeyOf[t]
    <3>1. pc[u] = "running" /\ timer'[u] = timer[u]
      BY <1>3, <2>1 DEF Granted, TypeOK
    <3>2. KeyOf[u] # KeyOf[t]
      BY <1>3, <2>1, <3>1, FreeKeyIsEmpty DEF Granted
    <3>3. locks'[KeyOf[u]] = locks[KeyOf[u]]
      BY <1>1, <1>3, <2>1, <3>1, <3>2, PrunedFacts DEF Granted
    <3>. QED
      BY <1>1, <2>1, <3>1, <3>2, <3>3 DEF Ahead, OwnsLock, Live
  <2>2. ASSUME InTime(t)
        PROVE  Ahead(t)'
    <3>1. /\ timer'[t] = RenewEvery(t)
          /\ locks'[KeyOf[t]] = [owner |-> OwnerOf[t], left |-> Ttl[t]]
      BY <1>3, PrunedFacts DEF Granted, LeaseFor, TypeOK
    <3>. QED
      BY <2>2, <3>1, RenewEveryType DEF Ahead, OwnsLock, Live, InTime
  <2>3. \A u \in Tasks : pc'[u] = "running" /\ pc[u] # "running" => u = t
    BY <1>3 DEF Granted, TypeOK
  <2>. QED
    BY <1>2, <2>1, <2>2, <2>3
<1>4. ASSUME UNCHANGED <<timer>>,
             \A u \in Tasks : pc'[u] = "running" => pc[u] = "running",
             \A u \in Tasks :
               pc'[u] = "running" /\ InTime(u) => locks'[KeyOf[u]] = locks[KeyOf[u]]
      PROVE  LeaseInv'
  <2>1. \A u \in Tasks : pc'[u] = "running" /\ InTime(u) => Ahead(u)'
    BY <1>1, <1>4 DEF Ahead, OwnsLock, Live
  <2>. QED
    BY <1>2, <1>4, <2>1
<1>5. ASSUME NEW t \in Tasks, NEW left \in Int, Refused(t, left)
      PROVE  LeaseInv'
  <2>1. \A u \in Tasks : pc'[u] = "running" => pc[u] = "running"
    BY <1>5 DEF Refused, TypeOK
  <2>2. \A u \in Tasks :
          pc'[u] = "running" /\ InTime(u) => locks'[KeyOf[u]] = locks[KeyOf[u]]
    BY <1>1, <1>5, <2>1, PrunedFacts DEF Refused
  <2>. QED
    BY <1>4, <1>5, <2>1, <2>2 DEF Refused
<1>6. ASSUME NEW t \in Tasks, Call(t) \/ Retry(t)
      PROVE  LeaseInv'
  <2>1. pc[t] # "running" /\ WaitMs[t] \in Int /\ wait[t] \in Int
    BY <1>6 DEF Call, Retry, TypeOK
  <2>. QED
    BY <1>3, <1>5, <1>6, <2>1 DEF Call, Retry
\* A renewal, by timer or by hand, of a lease that outlasts the timer's period.
<1>7. ASSUME NEW t \in Tasks, NEW ttl \in Nat \ {0}, pc[t] = "running",
             locks' = Renewed(t, ttl), UNCHANGED pc,
             InTime(t) => RenewEvery(t) + MaxLag < ttl,
             \/ UNCHANGED timer
             \/ timer' = [timer EXCEPT ![t] = RenewEvery(t)]
      PROVE  LeaseInv'
  <2>1. ASSUME NEW u \in Tasks, pc'[u] = "running", InTime(u)
        PROVE  Ahead(u)'
    <3>1. pc[u] = "running" /\ Ahead(u) /\ Live(KeyOf[u]) /\ KeyOf[u] \in Keys
      BY <1>1, <1>7, <2>1
    <3>2. CASE u = t
      <4>1. /\ locks'[KeyOf[t]].left = ttl
            /\ locks'[KeyOf[t]].owner = locks[KeyOf[t]].owner
        BY <1>7, <3>1, <3>2, RenewedFacts DEF Ahead
      <4>2. -MaxLag <= timer'[t] /\ timer'[t] <= RenewEvery(t) /\ timer'[t] \in Int
        BY <1>7, <3>1, <3>2, RenewEveryType DEF Ahead, TypeOK
      <4>3. timer'[t] + MaxLag < locks'[KeyOf[t]].left
        BY <1>7, <2>1, <3>2, <4>1, <4>2, RenewEveryType
      <4>. QED
        BY <1>7, <3>1, <3>2, <4>1, <4>2, <4>3 DEF Ahead, OwnsLock, Live
    <3>3. CASE u # t
      <4>1. ~ (OwnsLock(t) /\ KeyOf[u] = KeyOf[t])
        BY <1>7, <2>1, <3>1, <3>3, AloneInManager DEF Ahead, OwnsLock
      <4>2. locks'[KeyOf[u]] = locks[KeyOf[u]]
        BY <1>7, <3>1, <4>1, RenewedFacts
      <4>3. timer'[u] = timer[u]
        BY <1>7, <3>3 DEF TypeOK
      <4>. QED
        BY <3>1, <4>2, <4>3 DEF Ahead, OwnsLock, Live
    <3>. QED
      BY <3>2, <3>3
  <2>. QED
    BY <1>2, <1>7, <2>1
<1>8. ASSUME NEW t \in Tasks, RenewTick(t)
      PROVE  LeaseInv'
  BY <1>7, <1>8 DEF RenewTick, InTime
<1>9. ASSUME NEW t \in Tasks, RenewByHand(t)
      PROVE  LeaseInv'
  BY <1>7, <1>9 DEF RenewByHand, InTime
<1>10. ASSUME NEW t \in Tasks, Settle(t)
       PROVE  LeaseInv'
  <2>1. ASSUME NEW u \in Tasks, pc'[u] = "running", InTime(u)
        PROVE  Ahead(u)'
    <3>1. u # t /\ pc[u] = "running" /\ timer'[u] = timer[u]
      BY <1>10, <2>1 DEF Settle, TypeOK
    <3>2. Ahead(u) /\ Live(KeyOf[u]) /\ KeyOf[u] \in Keys
      BY <1>1, <2>1, <3>1
    <3>3. ~ (KeyOf[u] = KeyOf[t] /\ OwnerOf[t] = locks[KeyOf[u]].owner)
      BY <1>10, <2>1, <3>1, <3>2, AloneInManager DEF Settle, Ahead, OwnsLock
    <3>4. locks'[KeyOf[u]] = locks[KeyOf[u]]
      BY <1>10, <3>2, <3>3, ReleasedFacts DEF Settle
    <3>. QED
      BY <3>1, <3>2, <3>4 DEF Ahead, OwnsLock, Live
  <2>2. \A u \in Tasks : pc'[u] = "running" => pc[u] = "running"
    BY <1>10 DEF Settle, TypeOK
  <2>. QED
    BY <1>2, <2>1, <2>2
<1>11. CASE List
  <2>1. \A u \in Tasks :
          pc'[u] = "running" /\ InTime(u) => locks'[KeyOf[u]] = locks[KeyOf[u]]
    BY <1>1, <1>11, PrunedFacts DEF List
  <2>. QED
    BY <1>4, <1>11, <2>1 DEF List
<1>12. CASE Tick
  <2>1. ASSUME NEW u \in Tasks, pc'[u] = "running", InTime(u)
        PROVE  Ahead(u)'
    <3>1. pc[u] = "running" /\ Ahead(u) /\ Live(KeyOf[u]) /\ KeyOf[u] \in Keys
      BY <1>1, <1>12, <2>1 DEF Tick
    <3>2. timer[u] > -MaxLag /\ timer'[u] = timer[u] - 1
      BY <1>12, <2>1, <3>1 DEF Tick, Renewing, InTime
    <3>3. /\ locks'[KeyOf[u]].left = locks[KeyOf[u]].left - 1
          /\ locks'[KeyOf[u]].owner = locks[KeyOf[u]].owner
      BY <1>12, <3>1 DEF Tick, TypeOK
    <3>4. timer[u] \in Int /\ locks[KeyOf[u]].left \in Nat /\ RenewEvery(u) \in Nat
      BY <3>1, RenewEveryType DEF TypeOK
    <3>. QED
      BY <3>1, <3>2, <3>3, <3>4 DEF Ahead, OwnsLock, Live
  <2>. QED
    BY <1>2, <1>12, <2>1 DEF Tick
<1>13. CASE UNCHANGED vars
  BY <1>4, <1>13 DEF vars
<1>. QED
  BY <1>6, <1>8, <1>9, <1>10, <1>11, <1>12, <1>13 DEF Next

(* While no task that renews too late shares manager and key with one that  *)
(* renews in time, the latter never run together under one key, and each    *)
(* renewal comes before the lease it renews runs out.                       *)
THEOREM Exclusion ==
  ASSUME Apart
  PROVE  Spec => [](RenewalAhead /\ MutualExclusion)
<1>1. Init => LeaseInv
  BY LeaseInvInit
<1>2. LeaseInv /\ TypeOK' /\ [Next]_vars => LeaseInv'
  BY LeaseInvStep
<1>3. LeaseInv => RenewalAhead /\ MutualExclusion
  BY DEF LeaseInv
<1>. QED
  BY <1>1, <1>2, <1>3, TypeCorrect, PTL DEF Spec

(* The calls that renew in time implement the abstract lease mutex: every   *)
(* step of the backend and the managers enters a free key, leaves one, or   *)
(* is invisible.                                                            *)
THEOREM ImplementsLeaseMutex ==
  ASSUME Apart
  PROVE  Spec => MutexSpec
<1>1. Init => Mutex!Init
  BY DEF Init, Mutex!Init, InTimeRuns
<1>2. LeaseInv /\ [Next]_vars => [Mutex!Next]_InTimeRuns
  <2>. SUFFICES ASSUME LeaseInv, [Next]_vars
                PROVE  [Mutex!Next]_InTimeRuns
    OBVIOUS
  <2>. USE DEF LeaseInv
  <2>1. ASSUME UNCHANGED pc
        PROVE  UNCHANGED InTimeRuns
    BY <2>1 DEF InTimeRuns, InTime, RenewEvery
  <2>2. ASSUME NEW t \in Tasks, pc[t] # "running", Granted(t)
        PROVE  [Mutex!Next]_InTimeRuns
    <3>1. \A u \in Tasks : u # t => pc'[u] = pc[u]
      BY <2>2 DEF Granted, TypeOK
    <3>2. pc'[t] = "running"
      BY <2>2 DEF Granted, TypeOK
    <3>3. CASE InTime(t)
      <4>1. InTimeRuns' = InTimeRuns \cup {t}
        BY <2>2, <3>1, <3>2, <3>3 DEF InTimeRuns, InTime, RenewEvery
      <4>2. \A u \in InTimeRuns : KeyOf[u] # KeyOf[t]
        BY <2>2, FreeKeyIsEmpty DEF Granted, InTimeRuns
      <4>. QED
        BY <4>1, <4>2 DEF Mutex!Next, Mutex!Enter
    <3>4. CASE ~ InTime(t)
      BY <3>1, <3>4 DEF InTimeRuns, InTime, RenewEvery
    <3>. QED
      BY <3>3, <3>4
  <2>3. ASSUME NEW t \in Tasks, pc[t] # "running", NEW left \in Int, Refused(t, left)
        PROVE  UNCHANGED InTimeRuns
    <3>1. \A u \in Tasks : pc'[u] = "running" <=> pc[u] = "running"
      BY <2>3 DEF Refused, TypeOK
    <3>. QED
      BY <3>1 DEF InTimeRuns, InTime, RenewEvery
  <2>4. ASSUME NEW t \in Tasks, Call(t) \/ Retry(t)
        PROVE  [Mutex!Next]_InTimeRuns
    <3>1. pc[t] # "running" /\ WaitMs[t] \in Int /\ wait[t] \in Int
      BY <2>4 DEF Call, Retry, TypeOK
    <3>. QED
      BY <2>2, <2>3, <2>4, <3>1 DEF Call, Retry
  <2>5. ASSUME NEW t \in Tasks, Settle(t)
        PROVE  [Mutex!Next]_InTimeRuns
    <3>1. pc[t] = "running" /\ pc'[t] # "running" /\ \A u \in Tasks : u # t => pc'[u] = pc[u]
      BY <2>5 DEF Settle, TypeOK
    <3>2. InTimeRuns' = InTimeRuns \ {t}
      BY <3>1 DEF InTimeRuns, InTime, RenewEvery
    <3>. QED
      BY <3>1, <3>2 DEF Mutex!Next, Mutex!Leave, InTimeRuns
  <2>6. CASE (\E t \in Tasks : RenewTick(t) \/ RenewByHand(t)) \/ List \/ Tick \/ UNCHANGED vars
    BY <2>1, <2>6 DEF RenewTick, RenewByHand, List, Tick, vars
  <2>. QED
    BY <2>4, <2>5, <2>6 DEF Next
<1>3. Spec => []LeaseInv
  <2>1. LeaseInv /\ TypeOK' /\ [Next]_vars => LeaseInv'
    BY LeaseInvStep
  <2>. QED
    BY <2>1, LeaseInvInit, TypeCorrect, PTL DEF Spec
<1>. QED
  BY <1>1, <1>2, <1>3, PTL DEF Spec, MutexSpec, Mutex!Spec
===============================================================================
