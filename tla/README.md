# panom-mesh in TLA+

A verification project for panom-mesh: a mesh of service instances that register
themselves, are found and proxied to by a router, take locks and elect leaders,
run periodic jobs and publish events. Each module is translated from the
TypeScript under `src/`; `PROJECT.json` maps every definition to its lines.

## Inventory

| Component | State | Operations | Interacts with |
|---|---|---|---|
| **Locks** (`locks/`) | table key → owner, expiry; per call a renewal timer | `acquire` (polls until a deadline), `runExclusive`, `renew`, `release`, `list` | backend in memory or Redis; used by leaders and cleanup jobs |
| **Leader election** (`leader/`) | an abort signal per term | `runWhenLeader`, `elect`, `tryElect` | locks |
| **Router** (`router/MeshRouterServer`) | open connections, requests in flight, `draining` | `handle`, `handleUpgrade`, `drainAndClose` | tracker, balancer, instance registry, targets, clients |
| **Connection tracker, balancer** | requests, sockets, active work per instance; waiters | `beginHttp`, `trackSocket`, `waitForIdle`, `destroySockets`, `begin`, `end`, `select` | router |
| **Router's instance registry** | health cache with time stamps | `listRoutable`, `listHealthyByService`, `invalidateHealth` | registry, probes |
| **File registry, state store** (`registry/File*`, `state/`) | state file, backup, last known good, mutation queue | `register`, `heartbeat`, `markDraining`, `unregister`, `list`; `read` with repair, `upsert`, `remove` | other processes with the same directory |
| **Redis registry** (`registry/redis/`) | index set, a key with a ttl per instance | the same, each a sequence of commands on connections of their own | nodes, routers, Redis |
| **Mesh node, heartbeat** (`node/`, `HeartbeatLoop`) | record, timer, stopping flag | `start`, `drain`, `stop`, signal handlers | registry, stream |
| **Process supervisor, runtime** (`runtime/`) | managed children, their heartbeats, `stopping` | start, register, exit, `stopAll`, reconcile | spawner, registry, drain controller |
| **Drain controller** (`drain/DrainController`) | — | mark draining, wait, signal, kill, unregister | registry, processes |
| **Ports, spawner** (`process/`) | ports in use | probe, allocate, free by force, spawn | supervisor, other processes |
| **Cleanup scheduler** (`cleanup/`) | status of each job, timers | `task`, `start`, `runTask`, `stop`, `snapshots` | locks, leaders |
| **Streams, event bus** (`streaming/`, `events/`) | subscribers; a Redis connection and its parser | `publish`, `subscribe`, unsubscribe | Redis |
| **Podman supervisor** (`podman/`) | external containers | plan, start, watch, stop | podman command line |
| **Incident sink, observability** (`incidents/`, `observability/`) | pending reports; counts | `accept`; count | router |
| **Configuration, HSM mapping** (`config/`, `hsm/`) | — | `normalize`, `map` | everything that starts |
| **CLI, CI and launchd generators, log store** | files | `run`, `stop`, `watch`, `tail`; generation of text | runtime, streams |

What is hard here is concurrency between turns of the event loop (state checked
before an `await` and used after it), between commands sent to Redis on separate
connections, and between processes that share files, ports and locks; then
crashes between two writes, timeouts that race late answers, and shutting down
while work arrives. `PROJECT.json` lists these hazards at the lines where they
bite, each with the properties that cover it or the reason that none does yet.

What must be right, component by component: a lease that is renewed in time
excludes every other call and is ended only by its owner; a deposed leader is
told; the router's counters equal the work in progress on every path, requests
are answered, a drain waits for clients and ends, and nothing gets behind the
front while it lasts; the service with the longest route gets a request, a dead
instance stops being chosen and a live one comes back by answering; a registered
instance stays listed while it is alive, is forgotten when it is not, and a
drained one is not routed to again; the state file never loses an acknowledged
update; siblings get ports of their own, a run takes over what it finds up and on
record, and stopping leaves nothing behind; a job runs on one node at a time; a
subscriber gets no message twice, and those of one caller in order; an accepted
configuration is one the rest of the program can run.

## Modules

- `LeaseMutex`: what a lock promises: of all calls that name one key, at most
  one is inside.
- `Locks`: `MemoryLockBackend`, `LockLease`, `LockManager` and
  `LeaderElection`. A task is a call site; `pc` says whether it is idle, waits
  in `acquire`, runs its protected function or was refused. The table `locks`
  keeps the owner and the time left of each lease. Time is counted down, one
  `Tick` at a time; a timer fires at most `MaxLag` late. A renewal that comes
  too late finds the lease gone or, when a task of the same manager has taken
  the key since, renews that one: the backend compares owner ids only.
- `RouterServer`: `MeshRouterServer` with `ActiveConnectionTracker` and the
  counters of `LoadBalancer`. A connection carries one request or upgrade;
  `req` is where its handler is suspended, `drain` where `drainAndClose` is; a
  selection finds an instance, none, or throws.
  `up` becomes false when an exception escapes into a promise or callback
  nobody catches. The constant `Faults` switches rare events on by name:
  `stall` (a response stops flowing), `cut` (the target drops its connection
  midway), `reset` (a client's socket fails while its upgrade is routed).
  `calm` is auxiliary: no `stall` and no `reset` has happened.
- `RedisRegistry`: `RedisMeshRegistry` with `MeshNode`, `HeartbeatLoop` and the
  routers that list. `index` and `record` are what Redis holds; `node`, `beat`
  and `list` are the commands each party has yet to see answered. An action is
  one command: register is SADD then SET, a heartbeat GET then SET of what it
  read, and a list reads the index, then the records in any order, then removes
  from the index what it missed. Commands of one process run on connections of
  their own, so heartbeats overlap drains, stops and each other. `overtaken` is
  auxiliary: who drained while a heartbeat was about to write back "running".
- `StateStore`: `MeshStateStore`. A call is an `upsert`, `update`, `remove` or
  `read`; `pc` is its next file access, `got` the table it works on. Mutations
  take turns in `queue`; reads do not, although they repair the files as well.
  `Faults` names what may go wrong: the process dies (`crash`), something
  damages the end of the state file (`trailing`) or all of it (`garbage`). Stores
  on one directory share the files, not the queue. `latest`, `overtaken` and
  `meddled` are auxiliary: the last mutation of each id to reach the file, the
  calls whose table somebody has written over who did not wait for them, and
  whether one of these has written its table all the same.
- `Supervisor`: `MeshProcessSupervisor` with `FileMeshRegistry`, whose store
  runs its mutations one by one: this is what `StateStore` shows of one store
  whose reads repair nothing, so a mutation is one action here. A heartbeat, a
  drain and the exit handler read a record at once and enqueue the one they
  write. `handler` is where the exit handler of a child is, `main` where
  `stopAll` is.

- `Routes`, `Routing`: `RouteMatcher` as operators, and `selectTarget` over
  `InstanceRegistry`, the strategies of `LoadBalancer` and sticky cookies. The
  cache of each instance keeps its answer, the age of it, failures in a row and
  when it was last seen healthy; a probe is started in one turn and its result
  stored in another, so probes of concurrent requests overlap.
- `RequestFront`: what `handle` and `handleUpgrade` do around selection and
  proxying: pages, reports and their queue, draining, hop counts, selections that
  throw, and the counts of errors and missing targets. A request's target may be
  the router itself.
- `HsmRoutes`, `Config`: what a compiled schema gives as routes, unless one of its
  paths lacks the leading slash and it is rejected; and
  `MeshConfigNormalizer`, part after part, each rejecting the whole or deriving
  its result from the parts before it. `stage` says how far it is.
- `Launch`: `mesh run` and `mesh stop` in both runtime modes, with the Redis
  registry: `ProcessRedisPreflight`, `MeshProcessSupervisor.reconcile`,
  `PortAllocator`, `ProcessInstanceSpawner`, `ProcessTakeover`,
  `PodmanSupervisor` and `DrainController`. A registry command is an action, so
  a heartbeat reads a record in one and stores it in another. In process mode a
  run may start while others launch, reconcile or are killed. `found` is
  auxiliary: the instances a run saw up and on record, with a port, when it read
  the registry. `Supervisor` has
  what `Launch` leaves out: exits and `stopAll` in process mode over the file
  registry.
- `RedisLocks`, `Cleanup`: `RedisLockBackend` command by command, and under it
  `CleanupScheduler` on several nodes: a run is a record of where it is in
  `runTask`, `status` what the dashboard sees of it.
- `Streams`: what a `MeshNode` publishes over `MemoryMeshStream` or
  `RedisMeshStream` with `RedisPubSubConnection`, and `RedisMeshEventBus.on`. The
  application and the signal handler are two callers: each awaits what it
  publishes, neither waits for the other, and nobody awaits a log chunk. In memory
  a handler that throws keeps later ones from being called; over Redis a PUBLISH
  that failed may still be executed. `LogTail`: `LogStore.tail` with overlapping
  reads; the program only appends to its logs, so a file looks shorter only to a
  read that was overtaken. `Resp`: the two readers of Redis replies, fed with
  chunks cut anywhere, between the CR and the LF of a line too; a reader that
  lacks bytes leaves a waiter, which the next chunk wakes. `Watch` puts the three
  together as `MeshRuntime.watch` does.
- `Locks_proofs`, `RouterServer_proofs`, `RedisRegistry_proofs`, `Launch_proofs`,
  `Cleanup_proofs`, `Streams_proofs`: the theorems about the module each is named
  after. `FileRegistry_proofs`: those about `StateStore` and `Supervisor`, the two
  sides of the file registry. `Router_proofs`: those about what decides where a
  request goes, `Routes`, `Config`, `Routing` and `RequestFront`.
- `MC*` and `*.cfg`: the small instances of each.

## Runs

| Run | Shows | Bounds |
|---|---|---|
| `locks` | `MutualExclusion`, `NoOrphanLock`, `ReleasedOnlyByOwner`, `WaitEnds`, `DeposedLeaderHears`; `MutexSpec` (refinement) | five tasks, three managers, one key; ttl 2–4, lag 1. Two tasks of one manager renew too late on purpose, so leases change hands: that is what the others must survive |
| `router` | `WorkIsCounted` (`CountersMatch`), `DrainWaits` (`DrainWaitsForClients`, `NobodyWaitsForNothing`), `StaysUp`, `DrainEndsOnceClientsLeave`, `RequestsFinish` | two connections, two instances, two attempts, all faults: a retry can move to the other instance, and a drain meets a request and a tunnel in any pair of states |
| `routing` | `RightService` (`LongestPrefixWins`, `BackendPathsStay`), `BackByAnswer`, `DownIsDropped`, `UpIsUsed` | a probed backend that fails, comes and goes, two frontends with the catch-all route; either two clients whose probes overlap or one with a cookie |
| `front` | `AnswersAreTrue` (`QueuedApart`, `CountsAreTrue`), `DrainingTakesNothing`, `LoopsEnd` | two requests of any two kinds, two attempts, loops of up to three hops |
| `registry` | `StoppedIsUnlisted`, `DrainHolds`, `ListedStaysListed`, `GoneIsForgotten` | two nodes, one of which may miss its ttl, one heartbeat each, one lister; nodes meet only in a list that misses one or both. Restarts are unbounded |
| `store` | `QueueLosesNothing`, `CallsEnd` | two stores on one directory; an upsert by one, an update of the same id, a removal of another and a read by the other; all faults, at any moment |
| `store_repair` | **violated**: `NothingIsLost` | two upserts and a read, no faults |
| `supervisor` | `StopIsClean`, `DeadIsForgotten`, `StopEnds` | two children, one heartbeat each: one registers, drains or exits while the other does anything else |
| `launch` | `PortsApart` (`SiblingsApart`, `SiblingsSpared`), `NothingLeftBehind` (`TakenOver`, `StopAllIsClean`), `RealtimeHasRedis`, `StoppedIsForgotten` | an api of two instances with a preferred port, a routed web, a worker that may exit; a range of two ports; two runs, at any time in process mode and one in podman mode; one command beside the first; one write of a heartbeat under way (`InFlight`), of the worker (`Slow`) |
| `cleanup` | `OneNodeAtATime`, `RunsAreKnown` (`StatusIsTrue`, `StopReachesRuns`), `TasksGoOn` | two nodes, one task, crashes and one failing Redis command: two runs are enough to compete for a lock, a third would be refused like the second; `TasksGoOn` asks that one who is up gets inside |
| `streams` | `DeliveryHolds` (`CallersInOrder`, `DeliveredOnce`, `LateByOne`), `ReadOn`, `TailCatchesUp`, `RepliesAreRead` | two subscribers, one through the event bus, both in memory, one at a time over Redis, where they share nothing; two messages of the application and those of the signal handler, one log chunk, one failing PUBLISH; two overlapping reads of three chunks; conversations with nested, empty and CRLF strings and an error, cut anywhere |
| `config` | `RoutesReach` (`EveryRouteServes`, `MappedRoutesBelong`), `PartsAgree` (`NothingSplits`, `PublicPortIsServed`, `SecretsApart`) | each part of a configuration varied in full, the others as in a small project |

Each run checks the type invariant of its module, as a conjunct of one of the
invariants in the table (in brackets: the parts that one is made of), except
those of `Locks` and `RedisRegistry`, which are proved.

All lock tasks share one key: keys do not interact in the code, and the proofs
cover any number. `CHECK_DEADLOCK FALSE` where the system does stop: a router
that has drained or gone down, a store whose calls are all made, a mesh that
was stopped, a configuration that is read, requests that are answered.
In `streams`, `Watch` looks at a tail only where streaming is off, as the code
does, and at replies only where no tail runs, which keeps the product of three
independent parts small.

The violation is recorded as a finding: a read of the state file that did not
exist at its first look writes back an old table.

Some properties hold under a condition that is part of their statement.
`StaysUp` excludes stalled responses and sockets that fail while an upgrade is
routed, `DrainHolds` heartbeats that had read the record before the drain,
`DeadIsForgotten` exits nobody noticed, `LoopsEnd` upgrades: without the condition
each is false. `QueueLosesNothing` holds until a call writes a table that was
written over since it was read by a call it does not wait for: a read that
repairs, or a mutation of another store on the directory, which every process of a
mesh with the file registry has. Stores do lose each other's mutations; what it
promises is that nothing else loses any, and that the mutations of one store never
lose one another. `PortsApart` promises that a forced port spares siblings where
the port is the instance's own (`OwnPort`): outside the range, and preferred by
no other. `NothingLeftBehind` speaks of instances that were up and on record, with
a port, when a run read the registry: one that has not bound its port yet, that
has none (a worker), or whose record has expired is forgotten alive. `DeliveryHolds`
promises the order of one caller's messages, and of a message whose PUBLISH failed
only that it is handed over at most once.

Every property has a mutant: a plausible bug put into one definition, under
which the same run finds the property violated.

## Fairness

`Locks.FairSpec`: time passes and due timers fire (`Tick`, `Retry`,
`RenewTick`). Nothing forces a protected function to end or a call to be made,
so `WaitEnds` holds although a lock may be held forever. `Tick` stops when a
timer is `MaxLag` late, so fairness is what makes it fire.

`RouterServer.FairSpec`: continuations run, timers fire, idle connections are
closed by keep-alive timeouts, a target answers, fails or is timed out by
`requestTimeoutMs`. Nobody has to end a tunnel. That clients close their
connections sooner or later is an assumption about clients, not about the code:
it is the premise of `DrainEndsOnceClientsLeave`, and needed, since
`drainAndClose` waits for connections to close before any of its timeouts.

`RedisRegistry.FairSpec`: commands that were sent run, heartbeats are sent again
and again, the key of a node that does not beat expires, routers list again and
again. Nobody has to start, drain or stop.

`StateStore.StoreFairSpec`: file accesses end. `Supervisor.FairSpec`: so do
mutations, continuations, sleeps and timeouts; records nobody touches expire. No
child has to exit, not even after SIGKILL, and nobody has to stop the mesh.

`Routing.Spec`: requests go on, the grace of a starting instance ends, time
passes. Nothing makes an instance answer: `UpIsUsed` and `DownIsDropped` have
that as their premise. `RequestFront.FrontFairSpec`: handlers run, and targets
answer, fail or are timed out. `Launch.FairSpec`: questions are answered,
children bind, exits are seen, registry commands are answered, and unattended
records expire; nobody has to crash, exit or be stopped. `Cleanup.FairSpec`:
timers fire, commands are answered, tasks end, leases of the dead run out.
`Watch.WatchSpec`: read loops and reads of a file run; nobody has to publish,
subscribe or close. `Config` has no liveness: it is a sequence of steps.

## Proofs

For all constants that satisfy the assumptions of `Locks` (`Locks_proofs`):

- `TypeCorrect`, `OrphanFree`, `OwnerScoped`: `TypeOK`, `NoOrphanLock` and
  `ReleasedOnlyByOwner`. `NoOrphanLock` is inductive together with `TypeOK`:
  a release by a task whose lease was taken over by a task of the same manager
  frees the key, so no case needs more.
- `Exclusion`, `ImplementsLeaseMutex`: `MutualExclusion` and the refinement of
  `LeaseMutex`, under the assumption `Apart` (no task that renews too late
  shares manager and key with one that renews in time; without it the former's
  release would free the latter's lock). The inductive invariant adds
  `RenewalAhead`: a running task that renews in time owns its lease, and its
  timer fires, lag included, before the lease runs out. Mutual exclusion alone
  is not inductive: nothing in it keeps a lease from expiring under its holder.

For any number of nodes, heartbeats in flight and listers (`RedisRegistry_proofs`):

- `TypeCorrect`, and `StopIsClean`: `StoppedIsUnlisted`, inductive as it stands,
  since only a registration adds to the index.
- `DrainIsKept`: `DrainHolds`. The inductive invariant adds that no heartbeat of
  a drained node that was not overtaken carries "running": what has yet to be
  written decides whether the drain will stick.
- `ListsSpareTheLiving`: `ListedStaysListed`, an action property, from the types.

For any routes and candidates (`Routes`, in `Router_proofs`):

- `Score` is the number of a route's points, so that comparing two scores is
  comparing two finite sets and needs no induction over the segments. From this,
  `BestIsBest`: where any candidate matches, `BestMatch` returns one that no other
  precedes; `MoreSpecific`: a route that continues another, or is worth more where
  they differ and nowhere less, has the higher score; `SameRoute`, its converse.

For any configurations (`Config`, in `Router_proofs`):

- `ConfigurationAgrees`: `PartsAgree`. The invariant says, for each part that has
  been derived, from what: the later parts rest on the earlier ones, so that a
  property of an accepted configuration holds part by part.
- `ConfigurationServes`: `RoutesReach`, with the hypothesis `PlainRoutes`: no
  wildcard, and every literal is worth more than a parameter. It is needed, and
  the code does not enforce it: the length of a parameter's name counts in a
  route's score, so `/users/:identifierOfTheUser` may outrank `/users/me`, and what
  follows a wildcard counts although it is not compared. The configurations
  of the run `config` satisfy it.

For any instances, services, routes, clients, strategies and limits (`Routing`, in
`Router_proofs`):

- `RequestsReachTheirService`: `RightService`. That the longest literal prefix wins
  is a fact about every registry, from the lemmas about `Routes`, with no
  hypothesis on the routes' weights. That a backend's path stays off a catch-all
  frontend needs memory: the guard is evaluated when a route is matched, and the
  registry has moved on when the request is sent. The invariant `OfService` carries
  the guard's result along: service, path, the instances judged healthy, those being
  probed, and the target, through retries.
- `UnhealthyComesBackByAnswer`: `BackByAnswer`, an action property, from the types
  and a lemma on `Stored`: the answer "refusing" makes nobody healthy who was not
  when the probe began.

For any requests, kinds of request, attempts and hop limits (`RequestFront`, in
`Router_proofs`):

- `AnswersAgree`: `AnswersAreTrue`. The inductive invariant adds `PathsAreTrue`, how a
  request got where it is: a report that was sent and is being read again has
  come back, one hop further; without it nothing rules out that a report is
  queued which was sent and never returned. There is a lemma for each way a
  request moves on (answered, not answered, another attempt).
- `NothingTaken`: `DrainingTakesNothing`, an action property, from the types.

For any connections, instances, attempts and faults (`RouterServer_proofs`):

- `CountsAreRight`: `WorkIsCounted`. The inductive invariant adds that a
  connection that counts, or is about to, has an instance, so that the counter
  that went up is the one that goes down. The counters are compared with the
  sizes of sets of connections; lemmas say what a handler's move does to each.
- `DrainWaitsRightly`: `DrainWaits`, inductive once the counters are known to be
  right, since `notifyIfIdle` decides by them.
- `ExceptionsStayInside`: `StaysUp`. The invariant adds that, while `calm`, a
  response that has begun is past every retry: a second head is written only by
  a request that goes back to be routed or answered again.

For any calls, ids, crashes and damages (`StateStore`, in `FileRegistry_proofs`):

- `MutationsTakeTurns`: in each of any number of stores at most the first of
  `queue` is past its turn. Inductive together with what the queue holds: each
  mutation under way, exactly once.
- `NothingIsLostByTheQueue`: `QueueLosesNothing`, for any number of stores on the
  directory. The invariant follows every table that will be written: the file, the
  backup, and what a call that was not overtaken has in its hands hold all that was
  promised. The file alone is not enough, since a damaged file is restored from the
  backup, and the backup is the file of a moment before. Within one store it rests
  on the turns: whoever is overtaken is a reader or at another store.

For any children and heartbeats in flight (`Supervisor`, in `FileRegistry_proofs`):

- `NoRecordIsLeft`: `StopIsClean`. What could bring a record back is a write
  that is on its way through the queue of the store; the invariant follows
  heartbeats, drains, registrations and exit handlers to it, until after
  SIGTERM all that is left there for a stopped child are removals. It says nothing
  of processes: a child may survive SIGKILL in the model, and then runs without a
  record.

For any nodes, tasks, crashes and failing commands (`Cleanup_proofs`):

- `KnowsItsRuns`: `RunsAreKnown`, its parts inductive together.
- `OneAtATime`, `ImplementsLease`: `OneNodeAtATime`, and that for each task the
  scheduler over `RedisLocks` implements `LeaseMutex`, step by step, under the
  assumption `KeysApart` (each task has a lock key of its own, as the default
  `cleanup:<name>` gives). The invariant `Holds` says that the lock is in Redis
  under the run's owner from the answer to SET NX until its release or its
  crash, unless the run was too slow; exclusion itself is not inductive.

For any subscribers, logs and losses (`Streams_proofs`):

- `StreamsDeliver`: `DeliveryHolds`: at most once, one caller's messages in order
  unless a PUBLISH failed, at most one after an unsubscribe. That everything is
  delivered it does not say: a message may be lost, and `ReadOn` is about those that
  have come in. The invariant looks at the whole way of a message: what the handler
  was called with, what is in its buffer and what Redis still has to deliver are in
  order in this sequence, and of each caller only the last message is on its way
  without having failed. The order of what was handled says nothing of what comes
  next.

For any services, instances, port range, foreign listeners, number of runs and
commands (`Launch_proofs`):

- `PortsOfARunApart`: `PortsApart`, with the types, whatever ports are
  configured: services may prefer one port, a port of the range or the router's
  (`PortsAssumption` says only what a port is). The invariant adds which ports
  an instance may have (one of the range, or the preferred one if it is the
  first of its service), and that what a run has yet to start has no port, no
  process and no record. That `PortFor` finds a free port of the range, the
  smallest, and never one already given out, is a lemma.
- `RealtimeWaitsForRedis`: `RealtimeHasRedis`. Instances are planned long before
  they are started, so the invariant is about plans: one that holds a second
  instance of a realtime service was made while Redis answered. That Redis goes on
  answering is an assumption of the model, where it changes by an installation
  only: a Redis that stops later is nobody's to notice.
- `LeavesNothing`: `NothingLeftBehind`, for runs that start, launch, reconcile and
  are killed in any order. For `TakenOver` the invariant (`FoundUp`) follows each
  instance that a run found up: it is on the list the run has yet to go through, or
  it is down, and what is down stays down. For `StopAllIsClean`, that after the
  sleep of `stopAll` no heartbeat runs, nothing is to be stored but a mark of
  `mesh stop`, and each record is still to be removed by one of the two.

These assumptions hold in the instances that the runs check. Each inductive
invariant was checked by TLC on the instance of its run before it was proved.

Only model-checked:

- the liveness properties of every module, which rest on fairness and `ENABLED`,
  out of the prover's reach: `WaitEnds`, `DeposedLeaderHears`, `RequestsFinish`,
  `DrainEndsOnceClientsLeave`, `LoopsEnd`, `GoneIsForgotten`, `CallsEnd`,
  `DeadIsForgotten`, `StopEnds`, `TasksGoOn`, `TailCatchesUp`, `RepliesAreRead`,
  `ReadOn`, `StoppedIsForgotten`, and those of `Routing`;
- `Resp`, which has a recursive operator;
- `RoutesReach` for the configurations that are not plain, where it may fail.

## What the models show of the code

Met while modelling, true of the code and so of the models, and not stated
otherwise by its documents plainly enough for a finding:

- Locks: with `ttlMs` of up to a second the default renewal period, whose floor
  is a second, comes too late, and a second job gets in. `LockFactory` makes a
  memory backend per manager. A list of the Redis locks that races a grant may
  drop the key from the index until it is locked again. A renewal that throws is
  an unhandled rejection, which ends the process.
- Router: `drainAndClose` awaits `server.close`, which waits for tunnels, before
  any of its timeouts. A response that the target cuts midway leaves its request
  on the counters for good. A 413 for a report too large is written to a
  destroyed request. A report whose target has vanished since it was screened is
  answered 503 and not queued; one that was tried, failed and came back while
  draining may be both sent and queued. Upgrades have no hop count, so one that
  is routed to the router itself is endless. A retry's body was consumed by the
  first attempt.
- Routing: the comment at `InstanceRegistry.ts:45` says that an invalidation
  makes the next route selection probe the instance again ("re-probes"); the
  code stores a fresh unhealthy answer in its place, so that selections skip the
  instance without a probe until `cacheMs` is over. The models follow the code.
  A long parameter name outranks a short literal. Services share one cookie name
  and overwrite each other's choice, and a failed attempt leaves its cookie on
  the answer of the next. Services without `healthPath` ignore an invalidation.
  The guard that keeps api paths away from frontends looks at literal prefixes,
  not at patterns.
- Redis registry: a list that meets a registration halfway removes the instance
  from the index, and heartbeats never add it back; a record whose ttl ran out
  once is not registered again.
- State store: two stores on one directory lose each other's mutations, since each
  reads a table and writes it back later, and waits for its own queue only.
- Supervisor: a child that exits before its exit handler is bound is not
  noticed, and its heartbeat goes on.
- Launch: with a preferred port inside the range, or one that two services
  prefer, freeing it by force kills the sibling that has it. The router's port
  is not reserved, so that a sibling may have it and be killed too. A run that
  reconciles while another launches forgets the instances that have not bound
  their port: it finds the port free, takes the record, and the process lives
  on. What `reconcile` does for processes it owns is never reached, so workers
  of a killed supervisor stay without a record. Only the first service's Redis
  is probed. A container that fails leaves those started before it. `mesh stop
  api` matches every id that starts with `api`. Under podman a heartbeat in
  flight stores a stopped instance's record again, and the heartbeats of the run
  go on.
- Cleanup: two jobs with one `lockKey` may free each other's lock, since a
  release by a node's slow run removes whatever that node holds. "skipped" is
  overwritten by "succeeded", and the status after a stop by that of the run
  that ends. A second `start` shares its controllers with the first.
- Streams: one message may be delivered after an unsubscribe; a lost connection
  or a handler that throws ends a Redis subscription silently; `subscribe`
  returns before Redis has confirmed; log chunks, not awaited, may overtake each
  other; a bus subscription cannot be ended before it is made. `mesh watch`
  prints the last lines and then the whole file again; overlapping reads of a
  tail print a chunk twice. A signal that comes while "started" is not answered
  yet may have "draining" overtake it, and a `stop` beside the signal handler's may
  publish "draining" after "stopped".
- Configuration: `coordination.redisUrl` never reaches streaming. Locks that are
  disabled take the leader's default with them, yet the leader may be enabled
  alone. `sessionAffinity` does not choose a strategy. `service.port` is not
  validated where podman has a `containerPort`.

## Not modelled

Each component that no module covers is in `PROJECT.json` with its reason, and
each that is covered partly with what is left out. HTTP parsing, bodies, the text
of pages, logs, command lines and generated files (CI, launchd, Quadlet) are data
without influence on control.

Registration signatures are out of scope: with one secret on all nodes they
never fail. With two, a lister takes the other's record for a dead one and
removes it from the index. `RegistryFactory` chooses a constructor.

Left out within modelled components: failing writes of the state file,
`MeshStateStore.write`, which nobody calls; the run counters and the jitter of
cleanup jobs; `MemoryMeshEventBus`, which does what `MemoryMeshStream` does; the
truncation of log chunks; a log that something outside the program truncates
(nothing in it does, so `LogStore.tail` starting over is reached by overtaken reads
only); error replies nested in arrays, with which none of the commands that are
sent answers; the counts of proxied requests and upgrades.

## Plan

Done: all modules above, and a theorem for each safety invariant and for each
action property about one handler's step. What is left is proof: the steps of the
liveness properties that need no fairness (what a step that helps always leaves
true), and the composition of the router's modules, whose requests are one request.
