# dispatch-lab in TLA+

Dispatch-lab is a Go server that simulates a delivery city. Visitors start a
run, place orders, close roads and watch drivers being matched, routed and
rerouted; each run is one actor goroutine, its events are streamed to browsers
over websockets and recorded for replay. This directory holds TLA+ models of
it, the TLC runs that check them, and proofs checked by TLAPS. `PROJECT.json`
ties every definition to the source lines it models.

## 1. The system

### Components

| component (src/internal/...) | state | operations |
|---|---|---|
| **simulation actor** `simulation/simulation.go` | drivers, orders, pending queue, closed roads, pause, speed, virtual time, event sequence | `PlaceOrder`, `CloseRoad`, `ReopenRoad`, `SetPaused`, `SetSpeed`, `Reset`, `tick`, `CurrentSnapshot` |
| **city graph and routing** `city/`, `domain/city.go`, `routing/astar.go` | nodes, directed edges with a `Closed` flag | `GenerateGrid`, `FindRoute` |
| **baseline dispatch** `matching/baseline.go` | none | `Baseline`: nearest idle driver by route |
| **optimized dispatch** `matching/optimized.go`, `matching/assignment.go`, `spatial/grid.go` | batch window, candidate index | `runBatch`, `dispatchOptimized`, `MinCostAssignment`, `Grid.Candidates` |
| **event recorder** `replay/recorder.go` | write queue, batch, snapshot signal, flush requests | `Tap` (forwarder, writer, snapshot goroutine), `Flush` |
| **replay** `replay/state.go`, `replay/reader.go` | folded state | `Fold`, `StateAt`, `Log` |
| **websocket hub and handler** `transport/ws/` | subscribers and their channels; per connection: `lastSeq` | `run`, `Subscribe`, `Unsubscribe`, `HandlerWithTelemetry` |
| **simulation manager** `service/manager.go` | entries (actor, hub, recorder, owner, order count) | `Create`, commands, `Snapshot`, `MarkShowcase`, `Shutdown` |
| **guest sessions, retention** `service/sessions.go`, `service/retention.go` | sessions, expiries, last-touched times | `Issue`, `Validate`, `CheckQuota`, `Sweep` |
| **showcase provisioning** `service/showcase.go` | stored runs | `ProvisionShowcases` |
| **comparison** `service/comparison.go` | none | runs two strategies headlessly |
| **HTTP API** `transport/http/` | idempotency cache | handlers, idempotency, limits, CORS |
| **rate limiter** `ratelimit/limiter.go` | token buckets | `Allow`, `sweep` |
| **stores** `store/` | events, snapshots, runs, sessions | CRUD, purge |
| **web client** `src/apps/web` | the state it draws | `applyEvent`, replay fold |

`PROJECT.json` says for each what is modelled.

### Interactions

HTTP handlers go through the manager, which looks a run up under its lock and
submits a command to the actor's channel (`TrySubmit`: refused when full). The
actor handles one command or tick at a time and then publishes the events of
that step on a bounded channel, blocking when it is full. The recorder's
forwarder takes each event, offers it to the writer's queue (never blocking)
and passes it on to the hub, which offers it to every subscriber's channel
(never blocking). A connection's handler subscribes, asks the actor for a
snapshot, writes it, and then writes the events that are newer. The writer
batches events into the store and now and then asks a second goroutine for a
snapshot. Shutdown cancels the run's context and then runs down the chain by
closing one channel after another.

### What is hard about it

* *Handlers that touch several records.* One closure changes drivers, their
  routes and their orders; one tick moves every driver, finishes orders and
  re-offers the queue. A missed field shows many steps later.
* *Positions and routes kept by index.* A route outlives the closure that
  invalidates it; progress along a road outlives the route.
* *Four goroutines and more per run, with bounded channels of two kinds*, some
  that block and some that drop.
* *A snapshot that overtakes the stream.* Snapshots come straight from the
  actor while older events are still in the channels.
* *Stopping.* Cancellation reaches the actor, the writer and the snapshot
  goroutine independently, the rest through closed channels.
* *Store failures and slowness* must not disturb the live stream.
* *Check-then-act across critical sections* in the manager and the
  idempotency middleware; *expiry against use* in sessions and retention.

`PROJECT.json` lists each hazard at its line with the properties that cover it,
or the reason why none does.

### What makes each component correct

* actor: drivers and orders agree about every delivery; an order's status only
  moves forward and its outcome is final; nobody heads over a closed road; the
  queue is the unresolved orders in placement order and is served in that
  order; every order ends.
* routing: a route is a shortest open path, and none is found only if none is
  open.
* stream: a browser gets a snapshot and then, once each and in order, what
  follows it, up to what was dropped for it; nobody's slowness reaches the
  actor; everything emitted is delivered before the stream closes.
* recorder: every event is logged once, in order, or counted as lost; after
  an answered flush all that viewers had seen is logged or lost; the store cannot stall the run.
* replay: folding the log gives the actor's state at every sequence number.
* manager: capacity, quota and order limits hold under concurrent requests.
* sessions and retention: what is in use is not swept; what is saved stays.
* idempotency: a retried command is answered with its own outcome rather than
  applied again.
* rate limiter: what a caller is granted is what a bucket refilled all the time
  would grant it.
* optimized dispatch: the candidate index holds the idle drivers, a batch is
  matched at the least cost and leaves nobody waiting that it could have
  served, every order ends.
* stores: both implementations of the contract answer alike.

## 2. The modules

| module | models | notes |
|---|---|---|
| `Iteration` | the `for ... range` loop as a fold | a recursive function, so that it can be proved about |
| `Routing` | the city graph and `FindRoute` | by what it returns: a shortest simple open path |
| `AStar` | `FindRoute` as the search it is | extends `Routing`, which it is shown to implement |
| `Simulation` | the actor under the baseline strategy | extends `AStar`; the handlers use `Routing`'s `FindRoute` |
| `DeliveryLifecycle` | what orders promise to clients | abstract; `Simulation` is checked to implement it |
| `Assignment`, `Spatial` | the Hungarian algorithm, the ring search | pure operators with their promises |
| `OptimizedDispatch` | the actor under the optimized strategy | extends `Simulation`, `Assignment`, `Spatial` |
| `Replay` | the event log and the fold over it | extends `Simulation`: every action with the events it emits |
| `EventStream` | actor → forwarder → hub → websocket handlers | no store: the recorder only forwards |
| `EventPipeline` | the recorder and showcase requests on that stream | extends `EventStream`, conjoins `Receive` with `Enqueue` |
| `Manager` | the simulation manager under concurrent requests, and shutdown | |
| `MemoryStore`, `PostgresStore` | the two stores, as operators on one record | |
| `Retention` | sessions, expiry, sweep, showcases, restarts | instantiates both stores |
| `TokenBucket` | what the rate limiter promises | abstract |
| `RateLimiter` | the limiter | checked and proved to implement `TokenBucket` |
| `HTTPCommands` | a command's way through the middleware | extends `RateLimiter` |
| `Iteration_proofs`, `Simulation_proofs` (routing too), `Manager_proofs`, `HTTPCommands_proofs` (the limiter too), `EventPipeline_proofs` (the stream too), `Retention_proofs`, `OptimizedDispatch_proofs` (assignment and ring search too), `Replay_proofs` | theorems | |
| `MCSimulation`, `MCQueue`, `MCReplay`, `MCDispatch`, `MCManager`, `MCRetention`, `MCCommands` | cities, trips and symmetries for TLC | |

Modules and their cfgs have the same name, or the cfg is named for the question
it asks. Definitions commented *mutant* are plausible mistakes in the operator
that follows them; `PROJECT.json` pairs each with the property it breaks.
Variables called a *history* in their comment, and `raced`, `lapsed`, `put`,
`cutOff` and the like, remember what happened for the properties; no action
reads them to decide what to do.

### `Simulation`

`drivers[d]` is the `domain.Driver`: status, position, route, index into the
route, progress along the current road, assigned order. `orders` is the
sequence of `domain.Order`s (an order's id is its position, as `nextOrderID`
counts), `queue` is `pendingOrders`, `shut` the closed roads, `paused` the
pause. One action per command, plus `Tick`; each is the whole handler. The code
passes the mutable actor through nested calls; here a *world*, a record of
drivers, orders and queue, goes through the operators of the same calls:
`AssignBaseline`, `RetryPending`, `AfterMoves`, `AfterClosing`, and is committed
once.

Abstractions: a road is the pair of its two directed edges, which are generated
together and closed and reopened together; lengths and speed are small
integers; the loop over drivers in a tick, which goes through them in order of
their ids but where no driver reads another's record, is a function over all of
them at once; two shortest routes of equal length are told apart by a fixed but
arbitrary `CHOOSE`, as A* tells them apart by its deterministic node order; the
batch strategy, the speed and virtual time are left out (every live run uses
the baseline; the speed only changes how often a tick comes).

`DeliveryLifecycle` sees only the status and the driver of every order, through
the mapping in `Simulation!Lifecycle`. It says that stages only move forward,
that outcomes are final, that a driver once given is never exchanged, and that
no driver has two orders under way. One step may advance many orders, because
one tick does.

### `EventStream`

An event is its sequence number; `emitted` keeps only whether it is a snapshot
or a change. The actor, the forwarder and the hub pass events on one at a time
in order, so the channels between them are described by how far each has come
(`published`, `received`, `forwarded`, `fanned`), and a channel's contents are
the numbers in between. Each connection has its own phase, subscription
channel, what was written to it (`seen`; `lastSeq` is its maximum) and what the
hub dropped for it (`missed`, a history variable). `CurrentSnapshot` is
answered from the actor's `select`, that is, only when everything emitted has
been published: that is why `WriteSnapshot` needs `Selecting`, and why a
snapshot is ahead of the channels.

### `EventPipeline`

`Record` is the forwarder's `Receive` with the copy to the writer's queue. The
writer's `select` is its six actions; a flush request moves it to `draining`
until the queue is empty. A write appends the batch or fails and loses it. The
snapshot goroutine and one `MarkShowcase` request run beside it. It has no
connections: they touch the hub only, and `fanned` says what they can have been
sent.

### `OptimizedDispatch`, `Assignment`, `Spatial`

The actor that the comparison runner and the tests configure. Movement, closures
and the pause are `Simulation`'s; `PlaceOrderOptimized`, `TickOptimized` and
`ResetIndexed` replace the handlers that dispatch. `index` is the candidate
index: a driver leaves it in `applyAssignment` and returns when it delivers, and
a closure does not touch it. `age` is how long each queued order has waited; it
decides when a partial batch is due. `RunBatch` is `runBatch`: candidates by
`NearestOf`, the matrix, `MinCostAssignment`, and what is done with the result.
The algorithms are the loops of the code as folds: `RowOfColumn` gives every row
a column, `Searched` looks for an augmenting path for one row, a `Visit` per
round, and `Matched` walks back along it, an `Augment` per column; `Rings` are
the distances a ring search goes through, `Sorted` the order a ring is taken in. Costs are whole
units; the bonus for a driver's idle time is any number up to `IdleBonus`,
since the time itself is not kept.

### `AStar`

The heap is the set of its entries ordered by priority and insertion, stale
entries included. The order in which a city lists a node's edges is fixed but
arbitrary. The straight line to the goal is rounded down to whole units, which
keeps it admissible.

### `Replay`

For every action of `Simulation` an operator gives the events it emits, in the
order the handler emits them, and the `...Logged` action takes the two together
with `view' = Fold(view, events)`. `Apply` is `stateBuilder.apply`, a branch per
event type. `TakeSnapshot` replaces the fold's state by the actor's, which is
what starting from a later snapshot is. The state compared is what
`replay.State` keeps, which has no progress along a road.

### `Manager`

`req[q]` is what a request is doing: each step is one critical section of the
manager, or one exchange with an actor, and requests are interleaved between
them. `entries` is the manager's map (owner and order count); `actor[r]` is the
run's goroutine with its buffer of commands and how many orders it will hold;
`recording` are the runs whose recorder has not closed `done`. A cancelled run's
actor goes on for some steps or returns, and its recorder's writer is done,
independently of each other (`RecorderDone`): the writer has its own case of the
cancelled context, so done says nothing of the actor, nor of what is queued.
`server` is how far `cmd/server`'s shutdown has come, with the two timeouts it
may give up by (`late`). What commands do inside the actor is `Simulation`'s
business, what the recorder loses is `EventPipeline`'s.

### `Retention` and the stores

Each store operation takes a record of sessions, rows, event logs and snapshots
and returns the new one. `PostgresStore` has the foreign keys of the migrations
(`SessionDeleted`, `SimulationDeleted`), `MemoryStore` independent maps.
`Retention` gives both the same calls: `pg` decides what happens, `mem` follows,
so that a difference shows as a state; a call that fails reaches neither. Where
the code only logs a failure (extending a session, a run's row, batches,
snapshots, the mark) the action has that outcome, too. `boot` is how far
`ProvisionShowcases` has come at this start; `Crash` forgets what was in memory,
the second store included, and starts again.

A run's events go from its actor (`Emit`, which counts them in `live`) through
`pending`, what the recorder has queued or batched, to the log (`WriteBatch`, any
number of them, oldest first). They are lost when the queue is full or a batch
fails. Snapshots are of the actor's last event (`Snapshotted`) and do not wait for
`pending`: a store may have a snapshot of an event that is not in its log yet, or
never will be. `EventPipeline` has the queue, the batch and the flush in detail.
Requests take no time, but other actors' steps come between the final snapshot of
a showcase request, the batches of its flush and its mark.

### `RateLimiter` and `HTTPCommands`

Tokens are counted in units, `Cost` to the token, so that rates may be
fractions. A bucket is refilled when its caller asks, and forgotten by the sweep
that a new caller causes. `TokenBucket` knows nothing of either: `Level` maps a
bucket to the allowance its caller would find.

`HTTPCommands` sends a post through `Post` (limiter), `Authenticate`, `Dedupe`
(the remembered outcomes), `Serve` or `Refuse`, and `Remember`; each is as much
as the code does under one lock, and requests are interleaved between them. A
command is a session and a key, and may be posted any number of times.

## 3. The runs

All are in `PROJECT.json`; those of kind *pass* find no error.

| run | instance | asks |
|---|---|---|
| `simulation_block` | 4 nodes on a block, one road twice as long, 2 drivers, 2 orders, 2 trips; 73 440 states | `TypeOK`, `Pairing`, `NoClosedRoadAhead`, `OnCourse`, the refinement `ImplementsLifecycle`, and `SearchFindsShortest`: A* against every path |
| `simulation_queue` | triangle, 1 driver, 3 orders; 50 148 states | `QueueExact`, `TickServesQueueInOrder`, and `OrdersSettle` under fairness |
| `dispatch` | line of 3 nodes, 2 drivers, 4 orders, batches of 3; 200 950 states | `QueueExact`, `IndexKept`, `CandidatesNearby`, `AssignmentOptimal`, `TurnedAwayForCause`, `BatchLeavesNothing`, and `BatchedOrdersSettle` under fairness |
| `replay` | the block, 2 drivers, 2 orders; 34 752 states | `ReplayAgrees` |
| `stream` | 1 connection, all channels of 1, 4 events; 75 868 states | `NoHoleAfterSnapshot`, `ChangesOnlyMoveForward`, `StopsDrained`, `StreamFlows`, `StreamStops` |
| `recording` | 3 events, queue and batch of 2, snapshot every 2; 517 714 states | `PipelineTypeOK`, `Accounted`, `FlushCoversStream`, `RecordingNeverBlocks`, `FlushReturns` |
| `manager` | 2 requests, 2 sessions, 3 run ids, capacity 2, quota, order limit and buffer 1; 3 470 104 states | `CapacityHeld`, `QuotaBound`, `SlotsExact`, `CleanShutdown` |
| `retention` | 1 session, 1 visitor's run of 2 events, 1 curated run, 1 stop of the process; 289 928 states | `StoresAgree`, `SessionsOutliveUse`, `CuratedReady`, `ShowcasesStay`, and `RunsAreSwept` under fairness |
| `commands` | 2 visitors, 2 keys, 2 requests at a time, 4 posts, 2 remembered outcomes; 967 222 states | `CommandsTypeOK`, `OutcomesAreOwn`, `AppliedOnceInTurn`, and the refinement `ImplementsTokenBucket` |

Runs of kind *violation* each check one sentence of the repository's own
documentation against the code, and TLC shows a behaviour where it fails
(`findings` in `PROJECT.json` quotes the lines):

| run | sentence | what happens |
|---|---|---|
| `simulation_dropoff` | an order goes from its pickup to its destination | a driver rerouted before the pickup is routed to the pickup only and "delivers" there |
| `dispatch_hidden` | an order without candidates means no driver is idle | a driver a closure stranded is idle and missing from the index until its next delivery |
| `showcase_restart` | curated runs are ready when the listener opens | the row is written first and marks the run as done; a stop before its events is never repaired |

More sentences that the code does not live up to are stated as properties and
have no run of their own. Each is refuted by the run named with it when it takes
the place of the properties of that run's cfg:

| property | with | sentence | what happens |
|---|---|---|---|
| `Simulation!OrdersSettle` | `simulation_queue`, `Trip <- MCTripInPlace` | a driver already at the pickup must not stall | an order with pickup = destination placed where a driver stands never ends |
| `Simulation!ProgressOnCurrentRoad` | `simulation_block` | progress is along the current edge | it survives a reroute and a stranding |
| `Simulation!RejectedOnlyIfUnreachable` | `simulation_queue` | "nothing will ever reach it" | an order is rejected because of the drivers that happen to be idle |
| `EventStream!NoGap` | `stream` | "no gap or duplicate" | the snapshot of a reset, older than the connection's own, is written after it |
| `EventStream!NothingFollowsAGap` | `stream` | a client that falls behind is disconnected | it loses an event and is sent the next ones |
| `EventStream!HandlerEnds` | `stream`, `SPECIFICATION ServedSpec` | a handler does not outlive its browser | after shutdown it waits for ever for the hub or the actor |
| `EventPipeline!CleanStop` | `recording` | "a clean stop does not lose the tail" | a cancelled writer leaves its queue behind; this is why `Manager!CleanShutdown` does not speak of the log |
| `Replay!ReplayExact` | `replay` | folding the log lands on exactly the actor's state | a tick that passes two nodes reports only the last: the route index falls behind |
| `Manager!OrderLimitHeld` | `manager` | the limit on a run's orders | a reset that clears the count after another order was submitted frees a slot that is taken |
| `HTTPCommands!AppliedOnce` | `commands` | a retried command is answered, not applied twice | a retry that arrives while the first post is being served is applied as well |
| `Retention!ActiveRunsStay` | `retention` | "an active visitor's runs are never pruned" | using a session extends the session, not its runs |
| `Retention!LogOpensAtOne` | `retention` | "the event log always opens with" sequence 1 | the first batch fails, or a sweep removes it from memory, and the live run goes on to write events 2, 3, ... |

### Bounds

`MaxOrders`, `MaxEvents`, `MaxTime`, `MaxSends`, `MaxCrashes`, `MaxAge` and the
set `Run` of the manager bound counters the code lets grow; each appears in the
guard of the action that counts and nowhere else (`MaxAge` saturates, beyond the
longest wait the policy tells apart). Why they are enough:

* *Block, 2 drivers, 2 orders.* Every road has a detour, two closures cut a
  node off, a route may have one, two or three hops, a road may take two ticks,
  the drivers may both be busy with the second order queued. A closure can meet
  a driver in each of its states. What depends on three orders is in
  `simulation_queue`, where two orders can wait while one is being delivered.
  `SearchFindsShortest` is evaluated with every set of roads closed.
* *Replay.* On the block a driver part of the way along the long road that is
  rerouted round the other three sides passes two nodes in one tick, the one
  case in which an update stands for more than one hop.
* *Dispatch.* Three orders fill a batch, two make a partial one, one is
  dispatched at once; with four, one waits behind a full batch. The wait is two
  ticks. One candidate per order makes the candidates' limit bite. The drivers
  start in different rings. `AssignmentOptimal` covers every matrix of up to two
  by three and three by two with the costs 0, 1, 3 and "cannot".
* *Stream.* Channels of one slot fill after one event, the case a longer
  channel reaches later. Four events leave room for the opening snapshot, a
  change, a reset and a change after it, and for an event dropped between two
  that are not. Connections meet only in the hub, which never waits for one.
* *Recording.* Three events overflow a queue of two, fill a batch of two and
  trigger a snapshot, with one left over for a flush.
* *Manager.* Every race in it is between two requests, between a request and an
  actor, or between a request and the shutdown. Capacity 2 with quota 1 makes
  both limits reachable, separately and together; a buffer and an order limit of
  one are full after one command.
* *Retention.* A run outlives the session that made it (4 against 3),
  a session can be extended once and expire before the clock ends at 5, and a stop
  can fall between any two writes. A second stop meets nothing new: the first
  leaves every state the second could. With two events, one can be written, pending
  or lost when a snapshot, the sweep or the mark comes. Visitors meet only in the
  sweep, which takes each session and run by itself, and in marking a run that is
  not live, which its own visitor may do as well; the proofs hold for any number.
* *Commands.* Two keys of two visitors are four commands for a cache of two, so
  outcomes are displaced as well as expiring; four posts let a command be sent,
  displaced and sent again, or be sent three times beside another. A burst is
  two requests, refilled two thirds of one at a time; idle callers are forgotten
  exactly when the assumption allows (`Burst = IdleTTL * Rate`).

`SYMMETRY` is used where the specification only compares the values (`manager`,
`commands`), and only with safety properties. `CHECK_DEADLOCK FALSE` is set where
the system stops or a bound ends it: a cancelled run whose goroutines have all
returned, and the last post of `commands`.

### Fairness

* `Tick` (`FairSpec`): the ticker is a case of the actor's `select`, and `select`
  chooses at random among the cases that are ready. Nothing is assumed about
  visitors, so `OrdersSettle` is conditional on the pause staying off and the
  roads staying as they are from some point on. `MCQueue!TickingSpec` and
  `MCDispatch!TickingSpec` are `FairSpec` and `FairDispatch` with `ENABLED`
  written out as "a tick would change something". `BatchedOrdersSettle` also
  presumes that no idle driver stays missing from the index.
* `RelaySpec`: a goroutine whose send or receive stays possible performs it
  (weak fairness of each link). `ActorExit` is strongly fair, because between
  two selects the actor is busy publishing. Nothing is assumed of handlers: a
  browser may never read.
* `StoreHangsSpec`: the same for the stream; nothing at all for the writer.
* `StoreAnswers`, the premise of `FlushReturns`: the writer's loop is scheduled
  and a pending flush request is taken eventually.
* `ServedSpec` adds the handlers; it is used only to show that they hang even so.
* `Retention!FairSpec`: provisioning goes on by itself, and the sweep's ticker
  fires as long as the process serves and eventually succeeds; a sweep that fails
  is logged and the next one does its work. Stops are bounded, nobody has to make
  a request.

## 4. The proofs

The constants are any graph of roads with positive lengths
(`RoutingAssumption`), any coordinates that are no further apart than the roads
between them are long (`CoordAssumption`, which `astar.go:18` relies on and the
generator's Euclidean weights grant), any number of drivers with homes on the
graph, any speed, any set of trips and any bound on orders
(`SimulationAssumption`). The optimized strategy adds any cell size, batch size, number of
candidates, longest wait and weights (`CellAssumption`, `DispatchAssumption`);
the one thing asked of them is that no weighted route costs as much as
`Unreachable`, which is 1e12 in the code.

* `Simulation_proofs!FindRouteCorrect`: a route that is found is an open path from
  one node to the other, no longer than any other; none is found exactly when
  none is open. It rests on the type of `Distance`, a fold, and on the fact
  that the minimum of a non-empty set of naturals exists.
* `Simulation_proofs!SearchCorrect` and `SearchAlwaysShortest`
  (`Spec => []SearchFindsShortest`): the A* search of `AStar` returns an open path
  as short as `FindRoute`'s, or none if there is none, for every city and every set
  of closed roads. The estimate is consistent (`HeuristicConsistent`): it is the
  triangle inequality for lengths rounded down, from `Triangle`, which is the
  Cauchy-Schwarz inequality over the integers. The invariant of the loop is
  `Searching`: every score is backed by the way it was reached (`Backed`), every
  entry promises no more than the score of its node and every node to be visited
  has an entry with its present score (`Covered`, where outdated entries are
  allowed for), no entry comes before what has been visited (`InOrder`), and the
  open arcs out of the visited nodes are relaxed (`Relaxed`). `InOrder` and the
  consistency give that a visited node is never improved, so that what was
  relaxed stays so (`RelaxKeeps`). While the goal is not visited every open path
  to it has a node in the heap scored no worse than along the path (`Frontier`):
  the goal is thus popped with the least score, and an empty heap means that
  there is no path. `PushesCounted` bounds the pushes by the arcs, so that the
  rounds `Search` allows itself are enough. The scores grow along the way back, so
  `Reconstruct` is at the start before it runs out of nodes.
* `Iteration_proofs!LoopInvariant`: an invariant of a loop's body that holds
  before it holds after it. It is stated for a step given as a function, since
  a theorem with an operator parameter cannot be used, and proved from
  induction over the naturals stated as a minimum argument (`LeastNatural`).
* `Simulation_proofs!TypeCorrect` (`Spec => []TypeOK`) and `PairingAlways`
  (`Spec => []Pairing`). The inductive invariant is `TypeOK /\ Pairing`.
  Neither half is inductive alone: the moves read `orders[drivers[d].order]`,
  which exists only because busy drivers are paired, and pairing is kept only
  for records of the right type. Handlers that loop need the invariant *inside*
  the loop: `WorldGood` states it of an arbitrary world, `AssignGood` and
  `RejectGood` show that offering one order keeps it, and `RetryGood` carries it
  through the queue with `LoopInvariant`. For a tick, `AfterMovesGood` shows
  that every leg of every driver keeps its driver and its order in step
  (`ArriveLeg`, `HopLeg`, `MovedLeg`). For a closure, `AfterClosingGood` treats
  the stranded and the rerouted drivers (`StrandedRecord`, `ReroutedRecord`).
  `InvNext` puts the actions together.
* `ClosedRoadsAvoided` (`Spec => []NoClosedRoadAhead`) and `AlwaysOnCourse`
  (`Spec => []OnCourse`), from `HeadedInv`, which adds `Headed` to that
  invariant: every driver's rest of the way is clear of closed roads (`Clear`),
  and it leads through what its order still needs (`Course`). `Course` says more
  than `OnCourse`: a route to the pickup that does not end at the destination
  ends at the pickup's first visit, without which an arrival could not be told
  from a hop. That a rerouted driver is on course is `FindRouteCorrect`.
* `QueueAlwaysExact` (`Spec => []QueueExact`) and `TicksServeInOrder`
  (`Spec => TickServesQueueInOrder`), from `QueuedInv`. Inside the retry loop
  `Served` says what the loop has done after `i` orders: it has served the first
  `m`, the rest stand in the new queue in their old order, and if there are any,
  no driver is idle.
* `SimulationImplementsLifecycle` (`Spec => ImplementsLifecycle`): every step is
  one of `DeliveryLifecycle` or changes nothing there. `LifecycleInv` adds that
  a waiting order has no driver and a delivered one had (`CarriedBy`); each
  handler's lemma says that it stays among the worlds in which every order has
  only moved on (`Onward`), whatever number of legs, orders or drivers it goes
  through.
* `HTTPCommands_proofs!LimiterTypeCorrect` and `LimiterImplementsBucket`
  (`LimiterSpec => ImplementsTokenBucket`), for any callers, rate, burst and
  cost, under `Burst <= IdleTTL * Rate` (`RateAssumption`): a bucket idle for
  longer than `IdleTTL` is full (`IdleIsFull`), so that forgetting it and making
  a full one anew changes nobody's level (`FoundLevels`). `RefillStep` says that
  one more unit of time refills a capped level by one rate, whichever came
  first; `ElapseRefines` and `AllowRefines` are the two kinds of step.
* `Manager_proofs!CapacityAlways` (`Spec => []CapacityHeld`) and `QuotaAlways`
  (`Spec => []QuotaBound`), for any number of requests, sessions and runs
  (`ManagerAssumption`). The inductive invariant `LimitsInv` joins the two with
  what they need of the request records and the entries. `QuotaBound` counts
  the requests that have passed the check together with the runs they are about
  to add: a check that passes adds one to a count that was below the quota plus
  what the *other* requests hold (`CheckQuotaKeeps`), and an insertion moves one
  from one side to the other (`InsertKeeps`); everything else only removes
  (`FewerKeepsQuota`).
* `Manager_proofs!ShutdownAlwaysClean` (`Spec => []CleanShutdown`), from
  `ShutdownInv`: a run that goes on is tracked, and once the listener's last
  request has returned nothing starts another, so that cancelling the tracked runs
  cancels all. The runs still recording are then among those whose recorders the
  shutdown waits for. It does not follow that their logs are complete
  (`EventPipeline!CleanStop` above).
* `Manager_proofs!SlotsAlwaysExact` (`Spec => []SlotsExact`), from `SlotsInv`:
  a tracked run that no reset raced is `Balanced`. Without a reset about to
  clear the count, that is the property; with one, the run will hold nothing and
  nobody is placing orders, so that the clearing is right when it comes. A fresh
  run is balanced because no request can have found it (`Found`). What queueing
  and handling a command do to the count over the whole buffer are
  `OutcomeQueued` and `OutcomeHandled`, proved by least counterexample
  (`CountsAgree`).
* `HTTPCommands_proofs!CommandsTypeCorrect`, `OutcomesAlwaysOwn`
  (`Spec => []OutcomesAreOwn`) and `CommandsImplementBucket`, for any visitors,
  keys, requests in flight and size of the cache. `CacheInv` bounds the cache
  through late stores and evictions; `OutcomeInv` adds that what is remembered,
  or about to be, has taken effect. The limiter's refinement is inherited: what
  the commands do to the limiter's variables is a behaviour of the limiter
  (`CommandsRunLimiter`).
* `HTTPCommands_proofs!AlwaysAppliedOnceInTurn` (`Spec => []AppliedOnceInTurn`),
  from `TurnsInv`: the cache has lost an outcome only if it expired or enough
  others were stored at the same time or later (`Remembered`), a command served
  twice at once raced (`Races`), and one that took effect will be found by every
  later post unless one of these happened (`Turn`). The eviction is where it is
  decided (`RememberTurns`): the entry that goes is behind all others, which are
  as many as the cache holds, or one fewer when the command stored was there
  already, and then it raced.
* `EventPipeline_proofs`, the stream: for any number of connections, channel capacities and
  length of run. `StreamTypeCorrect` and `AlwaysStopsDrained`
  (`Spec => []StopsDrained`) follow from `ChainInv`: no station of the stream is
  ahead of the one before it, and one that has ended has passed on all it will
  ever get. `NeverAHole` (`Spec => []NoHoleAfterSnapshot`) and
  `ChangesAlwaysMoveForward` (`Spec => []ChangesOnlyMoveForward`) follow from
  `ClientInv`, which says of one connection that its subscription's channel
  continues, in ascending order, what the handler took from it.
* `EventPipeline_proofs`, the recorder: for any capacities and batch sizes.
  `RecorderLeavesStreamAlone` (`PipelineSpec => Spec`) carries the stream's
  theorems over to recorded runs. `PipelineTypeCorrect`, `AlwaysAccounted`
  (`PipelineSpec => []Accounted`) and `FlushAlwaysCovers`
  (`PipelineSpec => []FlushCoversStream`) follow from `PipelineInv`, where
  `Accounted` is a statement about three sequences (`AccountedOf`: log, batch,
  queue), because one step of the writer takes a full batch and writes it.
* `Retention_proofs!StoresAlike` (`Spec => []StoresAgree`), `SessionsLast`
  (`Spec => []SessionsOutliveUse`), `CuratedRunsReady` (`Spec => []CuratedReady`)
  and `ShowcasesAreKept` (`Spec => ShowcasesStay`), for any sessions, runs,
  lists of showcases, lifetimes and number of crashes, under `RetentionAssumption`
  (a session is extended at least once in its lifetime; visitors' runs are not
  curated ones). First what each call does to either store, once and for both
  (`SessionCreated` to `MemPurged`); then `RetentionInv`. `StoresAgree` says that
  the stores hold the same until the in-memory one is emptied, for runs that have a
  row, and that Postgres has no history without a row; nothing is said of which
  events a log lacks. It is not inductive: a live run whose row was swept still
  writes batches and snapshots, which one store takes and the other refuses, so
  `Alike` leaves out exactly those, and needs `LiveRuns` and `Owned` to know that a
  live run's row, if it is there, is owned by the session that made it, and
  `Logged` that in Postgres what has no row has no history. `SessionsOutliveUse`
  is about `pg`, the store that decides; `SessionsKept` relates the expiry there to
  the throttle in memory (`touched`), which a restart forgets and which is set even
  if the extension fails (`refused`). `CuratedReady` exempts runs whose
  provisioning was cut off, for which it fails (`showcase_restart`); it needs how far the start has come (`Booting`) and that a
  row without events or snapshot is one being generated or cut off
  (`Provisioned`).

* `OptimizedDispatch_proofs!MinCostAssignmentIsMin`, for every matrix of integers with at
  least one row and one column: the pairs chosen match all rows, or all columns
  if those are fewer, and no other such choice costs less. While the search for
  a row runs, `Seeking` holds: the potentials are feasible and tight on every
  pair matched (`Priced`), the columns visited form a tree of tight pairs rooted
  in the dummy column, and `minv` is the least slack from the tree (`Tree`). A
  rank on the columns shows that the walk back along `way` ends in the dummy
  column (`Ranked`, `AugmentKeeps`). After all rows,
  `GivenIsLeast` adds up: the cost of the pairs chosen is the sum of the potentials,
  and no pairing is cheaper, because the columns it leaves out have potentials of
  zero or less. `FoldSet` is brought in by `TotalIsSum`, sums over a set as
  functions on its subsets.
* `OptimizedDispatch_proofs!RingSearchCorrect`, for any positions and cell size:
  `Candidates` returns as many ids as asked for, or as there are, each once, and a
  driver it passes over is nearer than one it returns only if it lies more rings
  out. Their order is not part of the statement. `LastRing` is the loop over the rings, `FoundSorted` and `Prefix` the sorting and
  the cut. `CandidatesAlwaysNearby` (`DispatchSpec => []CandidatesNearby`) applies
  it to the index; `AssignmentAlwaysOptimal` is the theorem above for the matrices
  the runs look at.
* `OptimizedDispatch_proofs`, the actor: `BatchedQueueExact`
  (`DispatchSpec => []QueueExact`), `BatchedPairing` (`DispatchSpec => []Pairing`),
  `IndexAlwaysKept`, `AlwaysTurnedAwayForCause` and `BatchesLeaveNothing`, from
  `DispatchInv`: `QueuedInv`, the index holds only drivers that are idle where it
  says (`IndexOf`), and exactly the queued orders have ages. A batch decides from
  the state before it, and then carries the decisions out one by one: `Plan` says
  of a decision that it can be carried out whatever came before it, `PairsApplied`
  how much of it has been, and `QueueFiltered` that the queue is rebuilt from what
  is still pending. `Dispatched` and `Caused` are what one round of either strategy
  may do to a world, with the reason for each order turned away. For
  `BatchesLeaveNothing` the costs count: `NoBetterExchange` takes an order and one
  of its candidates that the matching both passes over, and exchanges one or two pairs
  (`OneExchanged`, `TwoExchanged`) for a cheaper matching, so that in a least one
  the order or the driver has a real partner (`Serves`). This is where
  `Unreachable` has to exceed every real cost.
* `OptimizedDispatch_proofs`, what the optimized strategy shares with the
  baseline: `BatchedImplementsLifecycle` (`DispatchSpec => ImplementsLifecycle`),
  `BatchedRoadsAvoided` (`DispatchSpec => []NoClosedRoadAhead`) and `BatchedOnCourse`
  (`DispatchSpec => []OnCourse`: the rest of the route leads through the pickup
  before collection, not on to the destination, as `simulation_dropoff` shows); the
  runs check the three under the baseline only. Movement, closures and resets are the baseline's, and so are their
  lemmas (`HeadedNext`, `StepRefines`): `DispatchedOrOld` leaves the order placed
  and the tick. Of their dispatch only `Dispatched` is used: a driver it sends out
  is `Underway`, and an order it changes was pending (`DispatchedBound`,
  `DispatchedOnward`), however many orders a batch matched.
* `Replay_proofs!ReplayAlwaysAgrees` (`ReplaySpec => []ReplayAgrees`), for every
  city and any trips, drivers and orders, speed and snapshots. The inductive
  invariant is `FollowInv`: `HeadedInv`, which the actor keeps (types, pairing,
  courses over open roads), and `Follows`, the fold has what the actor has at
  route indexes `k` of its own, none of them ahead. `ReplayAgrees` alone is not
  inductive: that the position update at the end of a tick moves the fold's index
  by at most what the driver moved needs to know that the driver stayed on the
  route the fold has for it. Folding is the relation `FoldsTo`, which composes
  (`FoldsOn`), so that each handler's list of events is folded while it is built:
  `AssignFolds` and `RetryFolds` say that an assignment's events, and those of a
  whole retry, carry the fold from the world before to the one after (`Carries`).
  The loops over the drivers in a tick and in a closure go by `Leads`, what one
  driver's events do to its own row and order on any view that has them
  (`MoveLeads` for `moveDriver`, by `HopCases` on the nodes it crosses), and
  `AllDrivers` puts them together because no two drivers share an order
  (`OwnOrder`).

Only model-checked: liveness (`OrdersSettle`, `BatchedOrdersSettle`,
`StreamFlows`, `StreamStops`, `RecordingNeverBlocks`, `FlushReturns`,
`RunsAreSwept`), which TLAPS cannot prove. Every safety invariant and action
property of the passing runs is a theorem.

## 5. Plan

Done: every module of the first plan (fold and log, manager, optimized dispatch
with its algorithms, idempotency, retention with both stores and provisioning,
rate limiter, A*), and the proofs above. To come:

1. The service's fallback that keeps sessions in a map of its own when there is
   no store, beside `Retention`.
2. The comparison runner, as two runs of the same scenario under `Simulation`
   and `OptimizedDispatch` that must end in settled orders.

## 6. Not modelled

* The telemetry: counters and spans that nothing reads back.
* The playback speed: it only says how often a tick comes.
* Floating-point arithmetic: lengths, costs and tokens are whole units. Routing,
  assignment and the limiter only add and compare them.
* JSON encoding, error texts, CORS and security headers, body limits, connection
  handling of the SQL store, and the public read routes of the API.
* The issuing of sessions through the API's public route in `HTTPCommands`;
  `Retention!Issue` is what it does to the store. `POST /guest-sessions` passes the
  cache of outcomes, too, with an empty token (`security.go:27`, `205`), so that two
  visitors with equal keys are given the same session: `OutcomesAreOwn`, which is
  about commands, does not hold of that route.
* The statistics of the comparison runner, and the load generator and evidence
  tools, which measure a server from outside.
* The web client: it folds the same events as the server's replay (`Replay`);
  the rest is rendering.
* The seeded generation of cities and driver homes: it is covered by the
  constants, the proofs hold for every city and every placement.
