-------------------------------- MODULE Cleanup --------------------------------
(***************************************************************************)
(* CleanupScheduler on several nodes, with locks in Redis: every node runs  *)
(* every task again and again, under a lock or as leader of a group, so     *)
(* that one node at a time does.  Nobody waits for a lock: a node that does *)
(* not get it lets the run go and comes back after the interval.            *)
(*                                                                         *)
(* A Redis command is an action of its own.  A lease outlives its holder's  *)
(* run as long as the renewals go through, which Locks looks at; it runs    *)
(* out once its holder is gone, has failed to release it or is still        *)
(* waiting for the release to be answered.  A renewal that throws is an     *)
(* unhandled rejection, which ends the process: one of the ways to Crash.   *)
(***************************************************************************)
EXTENDS RedisLocks, Naturals

CONSTANTS
  Nodes,    \* the processes with a scheduler, a lock manager each
  Tasks,    \* the tasks, registered on all of them
  KeyOf,    \* the lock key or leader group of each task
  Faults    \* bound: Redis commands that fail

ASSUME TasksAssumption ==
  /\ KeyOf \in [Tasks -> Keys]
  /\ NoOwner \notin Nodes
  /\ Faults \in Nat

VARIABLES
  byLeader, \* the tasks that run as leader
  pc,       \* where each node is with each task
  status,   \* task.status
  aborted,  \* the runs whose signal is aborted
  stopped,  \* the nodes whose scheduler was stopped
  crashed,  \* the nodes that are gone
  faults    \* how many commands have failed

vars == <<redis, listing, byLeader, pc, status, aborted, stopped, crashed, faults>>

Runs == Nodes \X Tasks
Up(x) == x[1] \notin crashed
Key(x) == KeyOf[x[2]]

Init ==
  /\ RedisInit
  /\ byLeader \in SUBSET Tasks
  /\ pc = [x \in Runs |-> "none"]
  /\ status = [x \in Runs |-> "idle"]
  /\ aborted = {}
  /\ stopped = {}
  /\ crashed = {}
  /\ faults = 0

Start(n) ==
  /\ n \notin stopped \cup crashed
  /\ \A t \in Tasks : pc[n, t] = "none"
  /\ pc' = [x \in Runs |-> IF x[1] = n THEN "timer" ELSE pc[x]]
  /\ UNCHANGED <<redis, listing, byLeader, status, aborted, stopped, crashed, faults>>

\* The timer fires: runTask returns at once after a stop, else it has a new
\* controller and SET NX is sent.
Run(x) ==
  /\ pc[x] = "timer" /\ Up(x)
  /\ IF x[1] \notin stopped
     THEN /\ pc' = [pc EXCEPT ![x] = "acquire"]
          /\ status' = [status EXCEPT ![x] = "running"]
          /\ aborted' = aborted \ {x}
     ELSE pc' = [pc EXCEPT ![x] = "none"] /\ UNCHANGED <<status, aborted>>
  /\ UNCHANGED <<redis, listing, byLeader, stopped, crashed, faults>>

\* Mutant of After: a run that failed is not followed by another.
AfterSuccess(x, outcome) == IF x[1] \in stopped \/ outcome = "failed" THEN "none" ELSE "timer"

\* The finally of runTask sets the next timer.
After(x, outcome) == IF x[1] \in stopped THEN "none" ELSE "timer"

\* The last writer wins, "stopped" and "skipped" included.
StatusOf(x, outcome) == outcome

\* The end of runTask.
End(x, outcome) ==
  /\ pc' = [pc EXCEPT ![x] = After(x, outcome)]
  /\ status' = [status EXCEPT ![x] = StatusOf(x, outcome)]

\* SET NX is answered: the index is next, or the run is over.  Without the
\* lock a task fails, and one that runs by leader succeeds (it was "skipped",
\* which the end of runTask overwrites).
Acquire(x) ==
  /\ pc[x] = "acquire" /\ Up(x)
  /\ IF Free(Key(x))
     THEN SetNx(Key(x), x[1]) /\ pc' = [pc EXCEPT ![x] = "index"] /\ UNCHANGED status
     ELSE End(x, IF x[2] \in byLeader THEN "succeeded" ELSE "failed") /\ UNCHANGED locks
  /\ UNCHANGED <<index, listing, byLeader, aborted, stopped, crashed, faults>>

Enter(x) ==
  /\ pc[x] = "index" /\ Up(x)
  /\ Sadd(Key(x))
  /\ pc' = [pc EXCEPT ![x] = "inside"]
  /\ UNCHANGED <<locks, listing, byLeader, status, aborted, stopped, crashed, faults>>

\* The task returns or throws; its renewal timer is cleared and EVAL is sent.
Leave(x) ==
  /\ pc[x] = "inside" /\ Up(x)
  /\ \E next \in {"done", "threw"} : pc' = [pc EXCEPT ![x] = next]
  /\ UNCHANGED <<redis, listing, byLeader, status, aborted, stopped, crashed, faults>>

Released(x) ==
  /\ pc[x] \in {"done", "threw"} /\ Up(x)
  /\ Release(Key(x), x[1])
  /\ End(x, IF pc[x] = "done" THEN "succeeded" ELSE "failed")
  /\ UNCHANGED <<listing, byLeader, aborted, stopped, crashed, faults>>

\* A command fails: the run fails with it, and its lock, if it has one, stays.
Fault(x) ==
  /\ pc[x] \in {"acquire", "index", "done", "threw"} /\ Up(x)
  /\ faults < Faults /\ faults' = faults + 1
  /\ End(x, "failed")
  /\ UNCHANGED <<redis, listing, byLeader, aborted, stopped, crashed>>

\* The timer of maxRuntimeMs.
Overrun(x) ==
  /\ pc[x] \in {"acquire", "index", "inside", "done", "threw"} /\ Up(x)
  /\ aborted' = aborted \cup {x}
  /\ UNCHANGED <<redis, listing, byLeader, pc, status, stopped, crashed, faults>>

Active(x) == pc[x] \notin {"none", "timer"}

\* Mutant of Aborts: only what runs is told.
AbortsInside(n) == {x \in Runs : x[1] = n /\ pc[x] = "inside"}

Aborts(n) == {x \in Runs : x[1] = n /\ Active(x)}

Stop(n) ==
  /\ n \notin stopped \cup crashed
  /\ stopped' = stopped \cup {n}
  /\ status' = [x \in Runs |-> IF x[1] = n THEN "stopped" ELSE status[x]]
  /\ aborted' = aborted \cup Aborts(n)
  /\ UNCHANGED <<redis, listing, byLeader, pc, crashed, faults>>

Crash(n) ==
  /\ n \notin crashed
  /\ crashed' = crashed \cup {n}
  /\ UNCHANGED <<redis, listing, byLeader, pc, status, aborted, stopped, faults>>

\* Nobody renews the lease, and nobody is about to begin to.
Unrenewed(k) ==
  /\ ~Free(k)
  /\ \A x \in Runs : Key(x) = k /\ Owns(k, x[1]) /\ Up(x) => pc[x] \notin {"index", "inside"}

Lapse(k) ==
  /\ Unrenewed(k)
  /\ Expire(k)
  /\ UNCHANGED <<listing, byLeader, pc, status, aborted, stopped, crashed, faults>>

Lists == Listing /\ UNCHANGED <<byLeader, pc, status, aborted, stopped, crashed, faults>>

Goes(x) == Acquire(x) \/ Enter(x) \/ Leave(x) \/ Released(x)

Next ==
  \/ \E n \in Nodes : Start(n) \/ Stop(n) \/ Crash(n)
  \/ \E x \in Runs : Run(x) \/ Goes(x) \/ Fault(x) \/ Overrun(x)
  \/ \E k \in Keys : Lapse(k)
  \/ Lists

Spec == Init /\ [][Next]_vars

\* Timers fire, commands are answered, tasks end and leases run out; nothing
\* starts, stops, crashes, fails or lists because it has to.
FairSpec ==
  /\ Spec
  /\ \A x \in Runs : WF_vars(Run(x)) /\ WF_vars(Goes(x))
  /\ \A k \in Keys : WF_vars(Lapse(k))

-------------------------------------------------------------------------------
TypeOK ==
  /\ locks \in [Keys -> Nodes \cup {NoOwner}]
  /\ byLeader \subseteq Tasks
  /\ index \subseteq Keys /\ listing.left \cup listing.stale \subseteq Keys
  /\ pc \in [Runs -> {"none", "timer", "acquire", "index", "inside", "done", "threw"}]
  /\ status \in [Runs -> {"idle", "running", "succeeded", "failed", "stopped"}]
  /\ aborted \subseteq Runs
  /\ stopped \cup crashed \subseteq Nodes
  /\ faults \in 0..Faults

\* Of the nodes that run a task, one at a time does, although its lease ends
\* when it crashes or while it releases (RedisLockBackend under runExclusive
\* and runWhenLeader).
OneNodeAtATime ==
  \A x, y \in Runs : x # y /\ Key(x) = Key(y) /\ pc[x] = "inside" /\ pc[y] = "inside" => ~Up(x) \/ ~Up(y)

StopReachesRuns == \A x \in Runs : x[1] \in stopped /\ Active(x) => x \in aborted

StatusIsTrue == \A x \in Runs : x[1] \notin stopped => (status[x] = "running" <=> Active(x))

\* The scheduler knows its runs: a task is shown as running if and only if it
\* runs, until its scheduler is stopped; from then on every run that is still
\* on its way, also one that has yet to enter its task, has an aborted signal
\* (CleanupScheduler.runTask, snapshots, stop).
RunsAreKnown == TypeOK /\ StatusIsTrue /\ StopReachesRuns

\* As long as a node that has started is neither stopped nor gone, its tasks
\* go on: again and again some node that is up runs them.  A holder that
\* crashes inside a task, fails or forgets to release keeps the others away
\* for a time only (CleanupScheduler.runTask's finally, the lease's ttl).
TasksGoOn ==
  \A x \in Runs :
    (pc[x] # "none" /\ Up(x) /\ x[1] \notin stopped)
      ~> \/ \E y \in Runs : Key(y) = Key(x) /\ pc[y] = "inside" /\ Up(y)
         \/ ~Up(x) \/ x[1] \in stopped
===============================================================================
