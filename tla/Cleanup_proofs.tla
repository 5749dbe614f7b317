---------------------------- MODULE Cleanup_proofs ----------------------------
(***************************************************************************)
(* Proofs about Cleanup, for any nodes, tasks and keys and any number of    *)
(* failing commands: a scheduler knows its runs, and of the nodes that run  *)
(* a task one at a time does if no two tasks share a key.                   *)
(***************************************************************************)
EXTENDS Cleanup, TLAPS

USE TasksAssumption

(* Every task has a key of its own, as it has unless it is given one: the    *)
(* default is made of its name (CleanupScheduler.runProtected).  Two tasks   *)
(* of a node that share a key look alike to Redis: one whose release comes   *)
(* after its lease ran out would delete the lock of the other.               *)
KeysApart == \A t, u \in Tasks : KeyOf[t] = KeyOf[u] => t = u

LEMMA RunFacts == \A x \in Runs : x = <<x[1], x[2]>> /\ x[1] \in Nodes /\ x[2] \in Tasks /\ Key(x) \in Keys
BY DEF Runs, Key

KnownInv == TypeOK /\ StatusIsTrue /\ StopReachesRuns

(* What may happen to locks, and how a run comes to its end.                 *)
LEMMA EndFacts ==
  ASSUME TypeOK, NEW x \in Runs, NEW outcome \in {"succeeded", "failed"}, End(x, outcome)
  PROVE  /\ pc' \in [Runs -> {"none", "timer", "acquire", "index", "inside", "done", "threw"}]
         /\ status' \in [Runs -> {"idle", "running", "succeeded", "failed", "stopped"}]
         /\ pc'[x] \in {"none", "timer"} /\ status'[x] = outcome
         /\ \A y \in Runs \ {x} : pc'[y] = pc[y] /\ status'[y] = status[y]
BY DEF TypeOK, End, After, StatusOf

LEMMA KnownInvStep == KnownInv /\ [Next]_vars => KnownInv'
<1>. SUFFICES ASSUME KnownInv, [Next]_vars
              PROVE  KnownInv'
  OBVIOUS
<1>. USE DEF KnownInv, redis, TypeOK, StatusIsTrue, StopReachesRuns, Active
<1>1. ASSUME NEW n \in Nodes, Start(n) PROVE KnownInv'
  <2>1. \A x \in Runs : x[1] = n => pc[x] = "none"
    <3>. SUFFICES ASSUME NEW x \in Runs, x[1] = n PROVE pc[x] = "none"
      OBVIOUS
    <3>1. x = <<n, x[2]>> /\ x[2] \in Tasks
      BY RunFacts
    <3>2. pc[<<n, x[2]>>] = "none"
      BY <1>1, <3>1 DEF Start
    <3>. QED
      BY <3>1, <3>2
  <2>2. \A x \in Runs : pc'[x] = IF x[1] = n THEN "timer" ELSE pc[x]
    BY <1>1 DEF Start
  <2>3. TypeOK'
    BY <1>1 DEF Start
  <2>. QED
    BY <1>1, <2>1, <2>2, <2>3 DEF Start
<1>2. ASSUME NEW n \in Nodes, Stop(n) PROVE KnownInv'
  BY <1>2 DEF Stop, Aborts
<1>3. ASSUME NEW n \in Nodes, Crash(n) PROVE KnownInv'
  BY <1>3 DEF Crash
<1>4. ASSUME NEW x \in Runs, Run(x) PROVE KnownInv'
  BY <1>4 DEF Run
<1>5. ASSUME NEW x \in Runs, Acquire(x) PROVE KnownInv'
  <2>1. CASE Free(Key(x))
    BY <1>5, <2>1, RunFacts DEF Acquire, SetNx
  <2>2. CASE ~Free(Key(x))
    <3>1. PICK outcome \in {"succeeded", "failed"} : End(x, outcome)
      BY <1>5, <2>2 DEF Acquire
    <3>. QED
      BY <1>5, <2>2, <3>1, EndFacts DEF Acquire
  <2>. QED
    BY <2>1, <2>2
<1>6. ASSUME NEW x \in Runs, Enter(x) PROVE KnownInv'
  BY <1>6, RunFacts DEF Enter, Sadd
<1>7. ASSUME NEW x \in Runs, Leave(x) PROVE KnownInv'
  BY <1>7 DEF Leave
<1>8. ASSUME NEW x \in Runs, Released(x) PROVE KnownInv'
  <2>1. PICK outcome \in {"succeeded", "failed"} : End(x, outcome)
    BY <1>8 DEF Released
  <2>2. locks' \in [Keys -> Nodes \cup {NoOwner}] /\ index' \subseteq Keys
    BY <1>8 DEF Released, Release
  <2>. QED
    BY <1>8, <2>1, <2>2, EndFacts DEF Released
<1>9. ASSUME NEW x \in Runs, Fault(x) PROVE KnownInv'
  <2>1. End(x, "failed")
    BY <1>9 DEF Fault
  <2>. QED
    BY <1>9, <2>1, EndFacts DEF Fault
<1>10. ASSUME NEW x \in Runs, Overrun(x) PROVE KnownInv'
  BY <1>10 DEF Overrun
<1>11. ASSUME NEW k \in Keys, Lapse(k) PROVE KnownInv'
  BY <1>11 DEF Lapse, Expire
<1>12. CASE Lists
  <2>1. listing'.left \cup listing'.stale \subseteq Keys /\ index' \subseteq Keys
    <3>1. CASE List
      BY <3>1 DEF List, NotListing
    <3>2. CASE ListGet
      BY <3>2 DEF ListGet
    <3>3. CASE ListDone
      BY <3>3 DEF ListDone, NotListing
    <3>. QED
      BY <1>12, <3>1, <3>2, <3>3 DEF Lists, Listing
  <2>2. UNCHANGED <<locks, byLeader, pc, status, aborted, stopped, crashed, faults>>
    BY <1>12 DEF Lists, Listing, List, ListGet, ListDone
  <2>. QED
    BY <2>1, <2>2
<1>13. CASE UNCHANGED vars
  BY <1>13 DEF vars
<1>. QED
  BY <1>1, <1>2, <1>3, <1>4, <1>5, <1>6, <1>7, <1>8, <1>9, <1>10, <1>11, <1>12, <1>13 DEF Next, Goes

(* A scheduler knows its runs: a task is shown as running if and only if it  *)
(* runs, and every run that is on its way when its scheduler is stopped has  *)
(* an aborted signal (CleanupScheduler.runTask, snapshots, stop).  The       *)
(* parts are inductive together.                                             *)
THEOREM KnowsItsRuns == Spec => []RunsAreKnown
<1>1. Init => KnownInv
  BY RunFacts DEF Init, RedisInit, NotListing, KnownInv, TypeOK, StatusIsTrue, StopReachesRuns, Active
<1>2. KnownInv => RunsAreKnown
  BY DEF KnownInv, RunsAreKnown
<1>. QED
  BY <1>1, <1>2, KnownInvStep, PTL DEF Spec

-------------------------------------------------------------------------------
(* Who may be about to run a task, or runs it, has the lock: nobody waits    *)
(* for a lock, and a lease ends only if its owner is not about to renew it.  *)
Holds == \A x \in Runs : pc[x] \in {"index", "inside"} /\ Up(x) => Owns(Key(x), x[1])

LEMMA HoldsStep ==
  ASSUME KeysApart
  PROVE  TypeOK /\ Holds /\ [Next]_vars => Holds'
<1>. SUFFICES ASSUME TypeOK, Holds, [Next]_vars, NEW y \in Runs, pc'[y] \in {"index", "inside"}, Up(y)'
              PROVE  locks'[Key(y)] = y[1]
  BY DEF Holds, Owns, Key
<1>. USE DEF Holds, TypeOK, Owns
<1>1. Up(y) /\ y[1] \in Nodes /\ y[2] \in Tasks /\ Key(y) \in Keys /\ y[1] # NoOwner
  <2>1. crashed \subseteq crashed'
    BY DEF Next, Start, Stop, Crash, Run, Goes, Acquire, Enter, Leave, Released, Fault, Overrun, Lapse, Lists, vars
  <2>. QED
    BY <2>1, RunFacts DEF Up
(* Other runs under the same key are runs of the same task on other nodes.   *)
<1>2. \A x \in Runs : x # y /\ Key(x) = Key(y) => x[1] # y[1]
  BY RunFacts, <1>1 DEF KeysApart, Key
<1>3. ASSUME NEW x \in Runs, Acquire(x) PROVE locks'[Key(y)] = y[1]
  <2>1. CASE Free(Key(x))
    <3>1. /\ locks' = [locks EXCEPT ![Key(x)] = x[1]] /\ locks[Key(x)] = NoOwner
          /\ pc' = [pc EXCEPT ![x] = "index"]
      BY <1>3, <2>1 DEF Acquire, SetNx, Free
    <3>. QED
      BY <1>1, <1>2, <3>1
  <2>2. CASE ~Free(Key(x))
    <3>1. PICK outcome \in {"succeeded", "failed"} : End(x, outcome)
      BY <1>3, <2>2 DEF Acquire
    <3>. QED
      BY <1>1, <1>3, <2>2, <3>1, EndFacts DEF Acquire
  <2>. QED
    BY <2>1, <2>2
<1>4. ASSUME NEW x \in Runs, Released(x) PROVE locks'[Key(y)] = y[1]
  <2>1. PICK outcome \in {"succeeded", "failed"} : End(x, outcome)
    BY <1>4 DEF Released
  <2>2. x # y /\ pc[y] \in {"index", "inside"} /\ locks[Key(y)] = y[1]
    BY <1>1, <2>1, EndFacts
  <2>3. locks' = [locks EXCEPT ![Key(x)] = IF locks[Key(x)] = x[1] THEN NoOwner ELSE @]
    BY <1>4 DEF Released, Release
  <2>. QED
    BY <1>1, <1>2, <2>2, <2>3
<1>5. ASSUME NEW k \in Keys, Lapse(k) PROVE locks'[Key(y)] = y[1]
  <2>1. locks[Key(y)] = y[1] /\ pc[y] \in {"index", "inside"}
    BY <1>1, <1>5 DEF Lapse
  <2>2. k # Key(y)
    BY <1>1, <1>5, <2>1 DEF Lapse, Unrenewed
  <2>. QED
    BY <1>1, <1>5, <2>1, <2>2 DEF Lapse, Expire
<1>6. CASE UNCHANGED locks /\ pc[y] \in {"index", "inside"}
  BY <1>1, <1>6
<1>7. ASSUME NEW n \in Nodes, Start(n) \/ Stop(n) \/ Crash(n)
      PROVE  UNCHANGED locks /\ pc[y] \in {"index", "inside"}
  BY <1>7, RunFacts DEF Start, Stop, Crash, redis
<1>8. ASSUME NEW x \in Runs, Run(x) \/ Enter(x) \/ Leave(x) \/ Fault(x) \/ Overrun(x)
      PROVE  UNCHANGED locks /\ pc[y] \in {"index", "inside"}
  <2>1. CASE Run(x) \/ Enter(x) \/ Leave(x) \/ Overrun(x)
    BY <2>1 DEF Run, Enter, Leave, Overrun, redis
  <2>2. CASE Fault(x)
    BY <2>2, EndFacts DEF Fault, redis
  <2>. QED
    BY <1>8, <2>1, <2>2
<1>9. CASE Lists \/ UNCHANGED vars
  BY <1>6, <1>9 DEF Lists, Listing, List, ListGet, ListDone, redis, vars
<1>. QED
  BY <1>3, <1>4, <1>5, <1>6, <1>7, <1>8, <1>9 DEF Next, Goes

(* Of the nodes that run a task one at a time does, although its lease ends  *)
(* when it crashes, fails or is slow to release (RedisLockBackend under      *)
(* runExclusive and runWhenLeader).  Exclusion is not inductive: what        *)
(* carries it is Holds, that the lock is kept from the answer to SET NX on.  *)
THEOREM OneAtATime ==
  ASSUME KeysApart
  PROVE  Spec => []OneNodeAtATime
<1>1. Init => Holds
  BY DEF Init, Holds
<1>2. TypeOK /\ Holds => OneNodeAtATime
  <2>. SUFFICES ASSUME Holds, NEW x \in Runs, NEW y \in Runs, x # y, Key(x) = Key(y),
                       pc[x] = "inside", pc[y] = "inside", Up(x), Up(y)
                PROVE  FALSE
    BY DEF OneNodeAtATime
  <2>1. x[1] = y[1]
    BY DEF Holds, Owns
  <2>2. x[2] = y[2]
    BY RunFacts DEF KeysApart, Key
  <2>. QED
    BY <2>1, <2>2, RunFacts
<1>3. RunsAreKnown => TypeOK
  BY DEF RunsAreKnown
<1>. QED
  BY <1>1, <1>2, <1>3, HoldsStep, KnowsItsRuns, PTL DEF Spec

-------------------------------------------------------------------------------
(* The nodes that are up and run a task.                                     *)
NodesIn(t) == {n \in Nodes : pc[<<n, t>>] = "inside" /\ n \notin crashed}

Lease(t) == INSTANCE LeaseMutex WITH
  Tasks <- Nodes, KeyOf <- [n \in Nodes |-> KeyOf[t]], inside <- NodesIn(t)

(* A node enters a task only when no other is in it; whatever else happens,  *)
(* a crash included, takes at most one node out of it.                       *)
LEMMA LeaseStep ==
  ASSUME KeysApart, TypeOK, Holds, [Next]_vars, NEW t \in Tasks
  PROVE  [Lease(t)!Next]_(NodesIn(t))
<1>. USE DEF TypeOK
<1>1. ASSUME NEW n \in Nodes, NodesIn(t)' = NodesIn(t) \ {n}
      PROVE  [Lease(t)!Next]_(NodesIn(t))
  BY <1>1 DEF Lease!Next, Lease!Leave
<1>2. ASSUME NEW x \in Runs, UNCHANGED crashed, \A y \in Runs \ {x} : pc'[y] = pc[y], pc'[x] # "inside"
      PROVE  [Lease(t)!Next]_(NodesIn(t))
  <2>1. x[1] \in Nodes /\ x = <<x[1], x[2]>>
    BY RunFacts
  <2>2. \A m \in Nodes : <<m, t>> \in Runs
    BY DEF Runs
  <2>3. CASE x[2] = t
    <3>1. <<x[1], t>> = x /\ \A m \in Nodes \ {x[1]} : <<m, t>> \in Runs \ {x}
      BY <2>1, <2>2, <2>3
    <3>2. \A m \in Nodes \ {x[1]} : pc'[<<m, t>>] = pc[<<m, t>>]
      BY <1>2, <3>1
    <3>3. NodesIn(t)' = NodesIn(t) \ {x[1]}
      BY <1>2, <3>1, <3>2 DEF NodesIn
    <3>. QED
      BY <1>1, <2>1, <3>3
  <2>4. CASE x[2] # t
    <3>1. \A m \in Nodes : <<m, t>> \in Runs \ {x}
      BY <2>2, <2>4
    <3>2. NodesIn(t)' = NodesIn(t)
      BY <1>2, <3>1 DEF NodesIn
    <3>. QED
      BY <3>2
  <2>. QED
    BY <2>3, <2>4
<1>3. ASSUME NEW x \in Runs, Enter(x) PROVE [Lease(t)!Next]_(NodesIn(t))
  <2>1. x[1] \in Nodes /\ x = <<x[1], x[2]>> /\ \A m \in Nodes : <<m, t>> \in Runs
    BY RunFacts DEF Runs
  <2>2. /\ pc[x] = "index" /\ Up(x) /\ UNCHANGED crashed
        /\ pc' = [pc EXCEPT ![x] = "inside"]
    BY <1>3 DEF Enter
  <2>3. CASE x[2] = t
    <3>1. NodesIn(t) = {}
      <4>. SUFFICES ASSUME NEW m \in NodesIn(t) PROVE FALSE
        OBVIOUS
      <4>. DEFINE y == <<m, t>>
      <4>1. m \in Nodes /\ y \in Runs /\ pc[y] = "inside" /\ Up(y) /\ y[1] = m /\ y[2] = t
        BY <2>1 DEF NodesIn, Up
      <4>2. locks[KeyOf[t]] = m /\ locks[KeyOf[t]] = x[1]
        BY <2>2, <2>3, <4>1 DEF Holds, Owns, Key
      <4>. QED
        BY <2>1, <2>2, <2>3, <4>1, <4>2
    <3>2. <<x[1], t>> = x /\ \A m \in Nodes \ {x[1]} : <<m, t>> \in Runs \ {x}
      BY <2>1, <2>3
    <3>3. pc'[x] = "inside" /\ \A m \in Nodes \ {x[1]} : pc'[<<m, t>>] = pc[<<m, t>>]
      BY <2>2, <3>2
    <3>4. NodesIn(t)' = NodesIn(t) \cup {x[1]}
      BY <2>1, <2>2, <3>2, <3>3 DEF NodesIn, Up
    <3>5. Lease(t)!Enter(x[1])
      BY <3>1, <3>4 DEF Lease!Enter
    <3>. QED
      BY <2>1, <3>5 DEF Lease!Next
  <2>4. CASE x[2] # t
    <3>1. \A m \in Nodes : <<m, t>> \in Runs \ {x}
      BY <2>1, <2>4
    <3>2. NodesIn(t)' = NodesIn(t)
      BY <2>2, <3>1 DEF NodesIn
    <3>. QED
      BY <3>2
  <2>. QED
    BY <2>3, <2>4
<1>4. ASSUME NEW x \in Runs, Run(x) PROVE [Lease(t)!Next]_(NodesIn(t))
  BY <1>2, <1>4 DEF Run
<1>5. ASSUME NEW x \in Runs, NEW outcome \in {"succeeded", "failed"}, End(x, outcome), UNCHANGED crashed
      PROVE  [Lease(t)!Next]_(NodesIn(t))
  BY <1>2, <1>5, EndFacts
<1>6. ASSUME NEW x \in Runs, Acquire(x) PROVE [Lease(t)!Next]_(NodesIn(t))
  <2>1. CASE Free(Key(x))
    BY <1>2, <1>6, <2>1 DEF Acquire
  <2>2. CASE ~Free(Key(x))
    <3>1. PICK outcome \in {"succeeded", "failed"} : End(x, outcome)
      BY <1>6, <2>2 DEF Acquire
    <3>. QED
      BY <1>5, <1>6, <3>1 DEF Acquire
  <2>. QED
    BY <2>1, <2>2
<1>7. ASSUME NEW x \in Runs, Leave(x) PROVE [Lease(t)!Next]_(NodesIn(t))
  BY <1>2, <1>7 DEF Leave
<1>8. ASSUME NEW x \in Runs, Released(x) PROVE [Lease(t)!Next]_(NodesIn(t))
  BY <1>5, <1>8 DEF Released
<1>9. ASSUME NEW x \in Runs, Fault(x) PROVE [Lease(t)!Next]_(NodesIn(t))
  BY <1>5, <1>9 DEF Fault
<1>10. ASSUME NEW n \in Nodes, Crash(n) PROVE [Lease(t)!Next]_(NodesIn(t))
  <2>1. NodesIn(t)' = NodesIn(t) \ {n}
    BY <1>10 DEF Crash, NodesIn
  <2>. QED
    BY <1>1, <2>1
<1>11. ASSUME NEW n \in Nodes, Start(n) PROVE [Lease(t)!Next]_(NodesIn(t))
  <2>1. \A m \in Nodes : <<m, t>> \in Runs /\ <<m, t>>[1] = m
    BY DEF Runs
  <2>2. NodesIn(t)' = NodesIn(t)
    BY <1>11, <2>1 DEF Start, NodesIn
  <2>. QED
    BY <2>2
<1>12. ASSUME UNCHANGED <<pc, crashed>> PROVE [Lease(t)!Next]_(NodesIn(t))
  BY <1>12 DEF NodesIn
<1>13. CASE \E n \in Nodes : Stop(n)
  BY <1>12, <1>13 DEF Stop
<1>14. CASE \E x \in Runs : Overrun(x)
  BY <1>12, <1>14 DEF Overrun
<1>15. CASE (\E k \in Keys : Lapse(k)) \/ Lists \/ UNCHANGED vars
  BY <1>12, <1>15 DEF Lapse, Lists, vars
<1>. QED
  BY <1>3, <1>4, <1>6, <1>7, <1>8, <1>9, <1>10, <1>11, <1>13, <1>14, <1>15 DEF Next, Goes

(* For every task, a lock or leadership taken in Redis is to the nodes what  *)
(* LeaseMutex promises, crashes included.                                    *)
THEOREM ImplementsLease ==
  ASSUME KeysApart, NEW t \in Tasks
  PROVE  Spec => Lease(t)!Spec
<1>1. Init => Lease(t)!Init
  BY DEF Init, Runs, Lease!Init, NodesIn
<1>2. TypeOK /\ Holds /\ [Next]_vars => [Lease(t)!Next]_(NodesIn(t))
  BY LeaseStep
<1>3. RunsAreKnown => TypeOK
  BY DEF RunsAreKnown
<1>4. Init => Holds
  BY DEF Init, Holds
<1>. QED
  BY <1>1, <1>2, <1>3, <1>4, HoldsStep, KnowsItsRuns, PTL DEF Spec, Lease!Spec
===============================================================================
