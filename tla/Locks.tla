-------------------------------- MODULE Locks ---------------------------------
(***************************************************************************)
(* Lock leases: MemoryLockBackend, LockLease, LockManager and the leader   *)
(* election built on them.                                                 *)
(*                                                                         *)
(* A task is one call site of LockManager.runExclusive, or, for the tasks  *)
(* in Leaders, of LeaderElection.runWhenLeader; it may be called again and *)
(* again.  A task without automatic renewal also stands for a lease taken  *)
(* with acquire, tryAcquire, elect or tryElect and released by hand.       *)
(*                                                                         *)
(* An action is one turn of the event loop, with the microtasks it queues: *)
(* the backend keeps its table in memory and answers at once.  Time is     *)
(* discrete and every instant is kept as the time left until it, so that   *)
(* Date.now() >= x reads "nothing is left of x".  A timer fires when       *)
(* nothing is left, and at the latest MaxLag later: that bound on a busy   *)
(* event loop is the one assumption about the scheduler.                   *)
(***************************************************************************)
EXTENDS Integers

CONSTANTS
  Tasks,          \* call sites of runExclusive and runWhenLeader
  Keys,           \* lock keys
  Owners,         \* owner ids, one per LockManager
  NoOwner,        \* the owner of a key nobody has locked
  KeyOf,          \* the key a task locks
  OwnerOf,        \* the owner id of the manager a task is called on
  Leaders,        \* the tasks that are runWhenLeader calls
  AutoRenew,      \* the tasks whose lease is renewed by a timer
  Ttl,            \* options.ttlMs
  RenewOption,    \* options.renewEveryMs, 0 when it is not given
  WaitMs,         \* options.waitMs
  RetryMs,        \* options.retryMs
  MinRenewEvery,  \* the floor of the default renewal period (1000 ms)
  HandTtl,        \* the time a renewal by hand asks for (30 s by default)
  MaxLag          \* how late the event loop may run a timer

ASSUME TasksAssumption ==
  /\ KeyOf \in [Tasks -> Keys]
  /\ OwnerOf \in [Tasks -> Owners]
  /\ NoOwner \notin Owners
  /\ Leaders \subseteq AutoRenew
  /\ AutoRenew \subseteq Tasks

(* runWhenLeader only tries: it calls tryElect, which never waits. *)
ASSUME LeadersTry == \A t \in Leaders : WaitMs[t] = 0

ASSUME TimesAssumption ==
  /\ Ttl \in [Tasks -> Nat \ {0}]
  /\ RenewOption \in [Tasks -> Nat]
  /\ WaitMs \in [Tasks -> Nat]
  /\ RetryMs \in Nat \ {0}
  /\ MinRenewEvery \in Nat \ {0}
  /\ HandTtl \in Nat \ {0}
  /\ MaxLag \in Nat

VARIABLES
  locks,    \* the backend's table: owner of each key and time left of its lease
  pc,       \* where each task is
  wake,     \* time left of the sleep of a task that waits in acquire
  wait,     \* time left until its deadline
  timer,    \* time left until the renewal timer of a running task fires
  aborted   \* the leaders whose AbortSignal has fired

vars == <<locks, pc, wake, wait, timer, aborted>>

-------------------------------------------------------------------------------
(* MemoryLockBackend *)

Free == [owner |-> NoOwner, left |-> 0]

Live(k) == locks[k].left > 0

Pruned == [k \in Keys |-> IF Live(k) THEN locks[k] ELSE Free]

OwnsLock(t) == Live(KeyOf[t]) /\ locks[KeyOf[t]].owner = OwnerOf[t]

LeaseFor(t) == [owner |-> OwnerOf[t], left |-> Ttl[t]]

Renewed(t, ttl) ==
  IF OwnsLock(t) THEN [Pruned EXCEPT ![KeyOf[t]].left = ttl] ELSE Pruned

(* Mutant of Released: the owner is not compared. *)
ReleasedAnyOwner(t) ==
  IF Live(KeyOf[t]) THEN [Pruned EXCEPT ![KeyOf[t]] = Free] ELSE Pruned

Released(t) ==
  IF OwnsLock(t) THEN [Pruned EXCEPT ![KeyOf[t]] = Free] ELSE Pruned

-------------------------------------------------------------------------------
(* LockManager and LeaderElection *)

RenewEvery(t) ==
  IF RenewOption[t] > 0 THEN RenewOption[t]
  ELSE IF Ttl[t] \div 2 > MinRenewEvery THEN Ttl[t] \div 2 ELSE MinRenewEvery

SleepFor(left) == IF left < RetryMs THEN left ELSE RetryMs

Init ==
  /\ locks = [k \in Keys |-> Free]
  /\ pc = [t \in Tasks |-> "idle"]
  /\ wake = [t \in Tasks |-> 0]
  /\ wait = [t \in Tasks |-> 0]
  /\ timer = [t \in Tasks |-> 0]
  /\ aborted = {}

(* Mutant of Granted: the owner of a lock may lock it again. *)
GrantedReentrant(t) ==
  /\ Live(KeyOf[t]) => OwnsLock(t)
  /\ locks' = [Pruned EXCEPT ![KeyOf[t]] = LeaseFor(t)]
  /\ pc' = [pc EXCEPT ![t] = "running"]
  /\ timer' = [timer EXCEPT ![t] = RenewEvery(t)]
  /\ wake' = [wake EXCEPT ![t] = 0]
  /\ wait' = [wait EXCEPT ![t] = 0]
  /\ aborted' = aborted \ {t}

(* acquire got a lease: the renewal timer is armed and the function starts. *)
Granted(t) ==
  /\ ~ Live(KeyOf[t])
  /\ locks' = [Pruned EXCEPT ![KeyOf[t]] = LeaseFor(t)]
  /\ pc' = [pc EXCEPT ![t] = "running"]
  /\ timer' = [timer EXCEPT ![t] = RenewEvery(t)]
  /\ wake' = [wake EXCEPT ![t] = 0]
  /\ wait' = [wait EXCEPT ![t] = 0]
  /\ aborted' = aborted \ {t}

(* acquire was refused with `left` to go until its deadline: it gives up, or *)
(* sleeps and tries again.                                                   *)
Refused(t, left) ==
  /\ Live(KeyOf[t])
  /\ locks' = Pruned
  /\ \/ /\ left <= 0
        /\ pc' = [pc EXCEPT ![t] = "refused"]
        /\ wake' = [wake EXCEPT ![t] = 0]
        /\ wait' = [wait EXCEPT ![t] = 0]
     \/ /\ left > 0
        /\ pc' = [pc EXCEPT ![t] = "waiting"]
        /\ wake' = [wake EXCEPT ![t] = SleepFor(left)]
        /\ wait' = [wait EXCEPT ![t] = left]
  /\ UNCHANGED <<timer, aborted>>

Call(t) ==
  /\ pc[t] \in {"idle", "refused"}
  /\ Granted(t) \/ Refused(t, WaitMs[t])

(* Mutant of Retry: every attempt starts a deadline of its own. *)
RetryWithFreshDeadline(t) ==
  /\ pc[t] = "waiting"
  /\ wake[t] <= 0
  /\ Granted(t) \/ Refused(t, WaitMs[t])

Retry(t) ==
  /\ pc[t] = "waiting"
  /\ wake[t] <= 0
  /\ Granted(t) \/ Refused(t, wait[t])

(* Mutant of RenewTick: a lost lease aborts no signal.                       *)
RenewTickDeaf(t) ==
  /\ pc[t] = "running" /\ t \in AutoRenew /\ timer[t] <= 0
  /\ timer' = [timer EXCEPT ![t] = RenewEvery(t)]
  /\ locks' = Renewed(t, Ttl[t])
  /\ UNCHANGED <<pc, wake, wait, aborted>>

(* The interval fires: the lease is renewed.  runExclusive ignores the       *)
(* answer, runWhenLeader aborts its signal when it is false; both leave the  *)
(* timer running.                                                            *)
RenewTick(t) ==
  /\ pc[t] = "running"
  /\ t \in AutoRenew
  /\ timer[t] <= 0
  /\ timer' = [timer EXCEPT ![t] = RenewEvery(t)]
  /\ locks' = Renewed(t, Ttl[t])
  /\ aborted' = IF t \in Leaders /\ ~ OwnsLock(t) THEN aborted \cup {t} ELSE aborted
  /\ UNCHANGED <<pc, wake, wait>>

(* The protected function renews the lease it was handed; a leader's handle  *)
(* offers no renewal.                                                        *)
RenewByHand(t) ==
  /\ pc[t] = "running"
  /\ t \notin Leaders
  /\ locks' = Renewed(t, HandTtl)
  /\ UNCHANGED <<pc, wake, wait, timer, aborted>>

(* Mutant of Settle: the lock is left to run out. *)
SettleWithoutRelease(t) ==
  /\ pc[t] = "running"
  /\ pc' = [pc EXCEPT ![t] = "idle"]
  /\ timer' = [timer EXCEPT ![t] = 0]
  /\ aborted' = aborted \ {t}
  /\ UNCHANGED <<locks, wake, wait>>

(* The protected function returns or throws: the timer is cleared and the    *)
(* lease released.  (The signal is aborted too, when nobody listens.)        *)
Settle(t) ==
  /\ pc[t] = "running"
  /\ pc' = [pc EXCEPT ![t] = "idle"]
  /\ timer' = [timer EXCEPT ![t] = 0]
  /\ locks' = Released(t)
  /\ aborted' = aborted \ {t}
  /\ UNCHANGED <<wake, wait>>

(* list() prunes what has expired. *)
List ==
  /\ locks' = Pruned
  /\ UNCHANGED <<pc, wake, wait, timer, aborted>>

Renewing(t) == pc[t] = "running" /\ t \in AutoRenew

(* One unit of time passes, unless a timer is as late as it may be. *)
Tick ==
  /\ \A t \in Tasks : pc[t] = "waiting" => wake[t] > -MaxLag
  /\ \A t \in Tasks : Renewing(t) => timer[t] > -MaxLag
  /\ locks' = [k \in Keys |-> IF Live(k) THEN [locks[k] EXCEPT !.left = @ - 1] ELSE locks[k]]
  /\ wake' = [t \in Tasks |-> IF pc[t] = "waiting" THEN wake[t] - 1 ELSE wake[t]]
  /\ wait' = [t \in Tasks |-> IF pc[t] = "waiting" THEN wait[t] - 1 ELSE wait[t]]
  /\ timer' = [t \in Tasks |-> IF Renewing(t) THEN timer[t] - 1 ELSE timer[t]]
  /\ UNCHANGED <<pc, aborted>>

Next ==
  \/ \E t \in Tasks : Call(t) \/ Retry(t) \/ RenewTick(t) \/ RenewByHand(t) \/ Settle(t)
  \/ List
  \/ Tick

(* Time passes and due timers fire; nothing forces a protected function to   *)
(* end or a task to be called.                                               *)
Fairness ==
  /\ WF_vars(Tick)
  /\ \A t \in Tasks : WF_vars(Retry(t)) /\ WF_vars(RenewTick(t))

Spec == Init /\ [][Next]_vars
FairSpec == Spec /\ Fairness

-------------------------------------------------------------------------------
(* Properties *)

(* The type invariant. *)
TypeOK ==
  /\ locks \in [Keys -> [owner : Owners \cup {NoOwner}, left : Nat]]
  /\ pc \in [Tasks -> {"idle", "waiting", "running", "refused"}]
  /\ wake \in [Tasks -> Int]
  /\ wait \in [Tasks -> Int]
  /\ timer \in [Tasks -> Int]
  /\ aborted \subseteq Leaders

(* A task renews in time when each renewal, however late its timer fires,    *)
(* comes before the lease it renews runs out.                                *)
InTime(t) ==
  /\ t \in AutoRenew
  /\ RenewEvery(t) + MaxLag < Ttl[t]
  /\ RenewEvery(t) + MaxLag < HandTtl

(* No task that renews too late shares both lock manager and key with one    *)
(* that renews in time: the backend could not tell their leases apart.       *)
Apart ==
  \A t, u \in Tasks :
    InTime(t) /\ KeyOf[t] = KeyOf[u] /\ OwnerOf[t] = OwnerOf[u] => InTime(u)

(* LockManager.runExclusive: while the function of a task that renews in     *)
(* time runs, its manager holds the lease, and the next renewal, however     *)
(* late, comes before the lease runs out: whatever tasks that renew too late *)
(* do to the leases of others.                                               *)
RenewalAhead ==
  \A t \in Tasks : pc[t] = "running" /\ InTime(t) =>
    /\ OwnsLock(t)
    /\ -MaxLag <= timer[t] /\ timer[t] <= RenewEvery(t)
    /\ timer[t] + MaxLag < locks[KeyOf[t]].left

(* "Do not let two nodes do the same work at the same time": two tasks that  *)
(* renew in time never run under one key together.                           *)
MutualExclusion ==
  \A t, u \in Tasks :
    /\ pc[t] = "running" /\ InTime(t)
    /\ pc[u] = "running" /\ InTime(u)
    /\ KeyOf[t] = KeyOf[u]
    => t = u

(* Releases are paired with runs: while a lease is unexpired, a task of its  *)
(* owner is inside the function it protects, so no lock outlives its work.   *)
NoOrphanLock ==
  \A k \in Keys :
    Live(k) => \E t \in Tasks :
                 pc[t] = "running" /\ KeyOf[t] = k /\ OwnerOf[t] = locks[k].owner

(* "Owner-scoped and released only by the owner": a lease ends by running    *)
(* out or because a task of its owner finished, also when tasks whose lease  *)
(* was taken over renew and release late.                                    *)
ReleasedOnlyByOwner ==
  [][\A k \in Keys :
       Live(k) /\ ~ (Live(k)' /\ locks'[k].owner = locks[k].owner)
       => \/ locks[k].left = 1 /\ Tick
          \/ \E t \in Tasks :
               /\ KeyOf[t] = k /\ OwnerOf[t] = locks[k].owner
               /\ pc[t] = "running" /\ pc'[t] # "running"]_vars

(* A call that waits for a lock gets it or gives up.                         *)
WaitEnds == \A t \in Tasks : pc[t] = "waiting" ~> pc[t] # "waiting"

(* LeaderElection.runWhenLeader: a leader whose lease went to another owner  *)
(* is told through its signal, unless it ends or leads again first.          *)
DeposedLeaderHears ==
  \A t \in Leaders :
    pc[t] = "running" /\ Live(KeyOf[t]) /\ ~ OwnsLock(t)
    ~> pc[t] # "running" \/ t \in aborted \/ OwnsLock(t)

(* The calls that renew in time implement the abstract lease: each enters    *)
(* only when no other is inside under its key.                               *)
InTimeRuns == {t \in Tasks : pc[t] = "running" /\ InTime(t)}
Mutex == INSTANCE LeaseMutex WITH inside <- InTimeRuns
MutexSpec == Mutex!Spec

===============================================================================
