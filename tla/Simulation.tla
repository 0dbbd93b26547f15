------------------------------ MODULE Simulation ------------------------------
(***************************************************************************)
(* The simulation actor of internal/simulation: one goroutine that owns the *)
(* drivers, the orders, the queue of unassigned orders and the closed roads,*)
(* and applies one command or one tick at a time.  Strategy is the baseline *)
(* one, which every live simulation uses.                                   *)
(*                                                                          *)
(* Each command handler is one action.  Handlers call each other and loop,  *)
(* so a handler is written as a function from a "world" (the state it may   *)
(* change) to a world, and its action commits the result.                   *)
(*                                                                          *)
(* Left out: the clock (virtualTime only stamps events under the baseline   *)
(* strategy), the playback speed (it paces ticks and changes nothing else), *)
(* the coordinates drawn between nodes, and the events (module EventStream).*)
(* RouteIndex is 0-based in the code and 1-based here.                      *)
(***************************************************************************)
EXTENDS AStar

CONSTANTS DriverCount,  \* drivers are 1..DriverCount, in the order ids sort
          Home,         \* Home[d]: the node placeDrivers gives driver d
          Speed,        \* driverSpeed * virtualStepPerTick
          Trip,         \* the <<pickup, destination>> pairs visitors order
          MaxOrders     \* orders one run accepts (service.MaxOrdersPerRun)

Driver == 1..DriverCount

ASSUME SimulationAssumption ==
  /\ DriverCount \in Nat \ {0}
  /\ Home \in [Driver -> Node]
  /\ Speed \in Nat \ {0}
  /\ Trip \subseteq Node \X Node
  /\ MaxOrders \in Nat

VARIABLES drivers,  \* s.drivers
          orders,   \* s.orders: order i is the i-th placed since the last reset
          queue,    \* s.pendingOrders
          shut,     \* roads whose two edges are Closed
          paused    \* s.paused

vars == <<drivers, orders, queue, shut, paused>>

NoOrder  == 0
NoDriver == 0

IdleAt(n) == [status |-> "idle", pos |-> n, route |-> NoRoute, index |-> 1,
              progress |-> 0, order |-> NoOrder]

\* placeDrivers
InitialDrivers == [d \in Driver |-> IdleAt(Home[d])]

-----------------------------------------------------------------------------
(***************************************************************************)
(* Assignment: matching.Baseline, assignBaseline, applyAssignment and the   *)
(* retry of queued orders.  A world w has fields drivers, orders and queue. *)
(***************************************************************************)
World == [drivers |-> drivers, orders |-> orders, queue |-> queue]

\* mutant: a driver still on its way to a pickup counts as free.
IdleOrEnRoute(w) == {d \in Driver : w.drivers[d].status # "delivering"}

IdleDrivers(w) == {d \in Driver : w.drivers[d].status = "idle"}

\* The idle drivers with an open path to node n.
Candidates(w, n) == {d \in IdleDrivers(w) : Reachable(shut, w.drivers[d].pos, n)}

\* matching.Baseline: the candidate with the shortest route, ties by id.
Nearest(w, n) ==
  LET far(d) == Distance(FindRoute(shut, w.drivers[d].pos, n))
  IN  CHOOSE d \in Candidates(w, n) :
        \A e \in Candidates(w, n) : \/ far(d) < far(e)
                                    \/ far(d) = far(e) /\ d <= e

Reject(w, o) ==
  [w EXCEPT !.orders = [w.orders EXCEPT ![o] = [@ EXCEPT !.status = "unassignable"]]]

\* applyAssignment: the pairing is dropped when the destination is cut off
\* from the pickup; progress is whatever the driver's last route left.
ApplyAssignment(w, o, d) ==
  LET pickup   == w.orders[o].pickup
      toDest   == FindRoute(shut, pickup, w.orders[o].dest)
      toPickup == FindRoute(shut, w.drivers[d].pos, pickup)
      atPickup == w.drivers[d].pos = pickup
  IN  IF toDest = NoRoute THEN Reject(w, o)
      ELSE [drivers |-> [w.drivers EXCEPT ![d] =
                           [status   |-> IF atPickup THEN "delivering" ELSE "en_route_to_pickup",
                            pos      |-> @.pos,
                            route    |-> toPickup \o Tail(toDest),
                            index    |-> 1,
                            progress |-> @.progress,
                            order    |-> o]],
            orders  |-> [w.orders EXCEPT ![o] =
                           [@ EXCEPT !.driver = d,
                                     !.status = IF atPickup THEN "en_route" ELSE "assigned"]],
            queue   |-> w.queue]

\* assignBaseline: assign, reject (a driver is idle but none can reach the
\* pickup) or queue (no driver is idle).
AssignBaseline(w, o) ==
  LET pickup == w.orders[o].pickup
  IN  IF Candidates(w, pickup) # {} THEN ApplyAssignment(w, o, Nearest(w, pickup))
      ELSE IF IdleDrivers(w) # {} THEN Reject(w, o)
      ELSE [w EXCEPT !.queue = Append(@, o)]

\* mutant: the queue is rebuilt on top of the old one.
RetryOntoOldQueue(w) ==
  LET Offer(v, o) == IF v.orders[o].status = "pending" THEN AssignBaseline(v, o) ELSE v
  IN  IF w.queue = <<>> \/ IdleDrivers(w) = {} THEN w ELSE Iterate(Offer, w, w.queue)

\* mutant: only the oldest order is offered.
RetryOldestOnly(w) ==
  IF w.queue = <<>> \/ IdleDrivers(w) = {} THEN w
  ELSE AssignBaseline([w EXCEPT !.queue = Tail(@)], w.queue[1])

\* mutant: queued orders are never offered again.
RetryNever(w) == w

\* retryPendingBaseline: re-offer the queued orders in placement order.
RetryPending(w) ==
  LET Offer(v, o) == IF v.orders[o].status = "pending" THEN AssignBaseline(v, o) ELSE v
  IN  IF w.queue = <<>> \/ IdleDrivers(w) = {} THEN w
      ELSE Iterate(Offer, [w EXCEPT !.queue = <<>>], w.queue)

Commit(w) ==
  /\ drivers' = w.drivers
  /\ orders' = w.orders
  /\ queue' = w.queue

-----------------------------------------------------------------------------
(***************************************************************************)
(* Movement.  A leg m is a driver on the move, the status of the order it   *)
(* carries and what is left of the tick's travel budget.                    *)
(***************************************************************************)
\* handleDriverAtNode: collect at the pickup, deliver at the end of the route.
Arrive(m, pickup) ==
  LET collect == m.driver.status = "en_route_to_pickup" /\ m.driver.pos = pickup
      finish  == m.driver.index = Len(m.driver.route)
  IN  [driver |-> IF finish THEN IdleAt(m.driver.pos)
                  ELSE IF collect THEN [m.driver EXCEPT !.status = "delivering"]
                  ELSE m.driver,
       status |-> IF finish THEN "delivered" ELSE IF collect THEN "en_route" ELSE m.status,
       budget |-> m.budget]

\* mutant: a part-way move leaves the distance still to go.
HopRemainder(m, pickup) ==
  LET d         == m.driver
      remaining == Weight[HopRoad(d.route, d.index)] - d.progress
  IN  IF m.budget <= 0 \/ d.index >= Len(d.route) THEN m
      ELSE [m EXCEPT !.driver.progress = m.budget - remaining, !.budget = 0]

\* One round of moveDriver's loop: cross the next road, go part of the way,
\* or stop (budget spent, route finished, road closed).
Hop(m, pickup) ==
  LET d         == m.driver
      road      == HopRoad(d.route, d.index)
      remaining == Weight[road] - d.progress
  IN  IF m.budget <= 0 \/ d.index >= Len(d.route) THEN m
      ELSE IF road \notin Road \ shut THEN m
      ELSE IF m.budget >= remaining
      THEN Arrive([driver |-> [d EXCEPT !.progress = 0,
                                        !.index = @ + 1,
                                        !.pos = d.route[d.index + 1]],
                   status |-> m.status,
                   budget |-> m.budget - remaining], pickup)
      ELSE [driver |-> [d EXCEPT !.progress = @ + m.budget],
            status |-> m.status,
            budget |-> 0]

OnTheMove(d) == drivers[d].index < Len(drivers[d].route)

\* moveDriver: a round per node of the route is enough to spend the budget.
Moved(d) ==
  LET o == drivers[d].order
      Round(m, i) == Hop(m, orders[o].pickup)
  IN  Iterate(Round,
              [driver |-> drivers[d], status |-> orders[o].status, budget |-> Speed],
              drivers[d].route)

\* The world after every driver on the move has moved.  A driver changes only
\* its own record and its own order, so the loop over drivers is a product.
AfterMoves ==
  [drivers |-> [d \in Driver |-> IF OnTheMove(d) THEN Moved(d).driver ELSE drivers[d]],
   orders  |-> [o \in DOMAIN orders |->
                  LET d == orders[o].driver
                  IN  IF d # NoDriver /\ OnTheMove(d) /\ drivers[d].order = o
                      THEN [orders[o] EXCEPT !.status = Moved(d).status]
                      ELSE orders[o]],
   queue   |-> queue]

-----------------------------------------------------------------------------
(***************************************************************************)
(* Road closures                                                            *)
(***************************************************************************)
\* mutant: the road the driver is on right now is not looked at.
AffectedBeyondNextNode(d, closed) ==
  \E i \in drivers[d].index+1..Len(drivers[d].route)-1 : HopRoad(drivers[d].route, i) \in closed

\* routeUsesClosedEdge: a remaining hop of d's route is closed.
Affected(d, closed) ==
  \E i \in drivers[d].index..Len(drivers[d].route)-1 : HopRoad(drivers[d].route, i) \in closed

\* mutant: every affected driver is sent to the pickup.
TargetPickup(d) == orders[drivers[d].order].pickup

\* rerouteDriver: where an affected driver is headed for.
Target(d) ==
  LET o == orders[drivers[d].order]
  IN  IF drivers[d].status = "en_route_to_pickup" THEN o.pickup ELSE o.dest

Reroute(d, closed) == FindRoute(closed, drivers[d].pos, Target(d))

Stranded(d, closed) == Affected(d, closed) /\ Reroute(d, closed) = NoRoute

\* mutant: a stranded driver's order is left as it was.
AfterClosingKeepsOrders(closed) ==
  [drivers |-> [d \in Driver |->
                  IF ~Affected(d, closed) THEN drivers[d]
                  ELSE IF Stranded(d, closed)
                  THEN [IdleAt(drivers[d].pos) EXCEPT !.progress = drivers[d].progress]
                  ELSE [drivers[d] EXCEPT !.route = Reroute(d, closed), !.index = 1]],
   orders  |-> orders,
   queue   |-> queue]

\* recalculateAffectedRoutes: again, each driver touches only its own order.
AfterClosing(closed) ==
  [drivers |-> [d \in Driver |->
                  IF ~Affected(d, closed) THEN drivers[d]
                  ELSE IF Stranded(d, closed)
                  THEN [IdleAt(drivers[d].pos) EXCEPT !.progress = drivers[d].progress]
                  ELSE [drivers[d] EXCEPT !.route = Reroute(d, closed), !.index = 1]],
   orders  |-> [o \in DOMAIN orders |->
                  IF \E d \in Driver : drivers[d].order = o /\ Stranded(d, closed)
                  THEN [orders[o] EXCEPT !.status = "unassignable"]
                  ELSE orders[o]],
   queue   |-> queue]

-----------------------------------------------------------------------------
Init ==
  /\ drivers = InitialDrivers
  /\ orders = <<>>
  /\ queue = <<>>
  /\ shut = {}
  /\ paused = FALSE

\* handlePlaceOrder
PlaceOrder(t) ==
  LET order == [pickup |-> t[1], dest |-> t[2], status |-> "pending", driver |-> NoDriver]
  IN  /\ Len(orders) < MaxOrders
      /\ Commit(AssignBaseline([World EXCEPT !.orders = Append(@, order)], Len(orders) + 1))
      /\ UNCHANGED <<shut, paused>>

\* tick: moves, then the retry; a paused simulation does nothing.
Tick ==
  /\ ~paused
  /\ \E moved \in {AfterMoves} : \E served \in {RetryPending(moved)} : Commit(served)
  /\ UNCHANGED <<shut, paused>>

\* handleCloseRoad on an open road (on a closed or unknown one it returns).
CloseRoad(r) ==
  /\ r \notin shut
  /\ shut' = shut \union {r}
  /\ Commit(AfterClosing(shut \union {r}))
  /\ UNCHANGED paused

\* handleReopenRoad: no route is touched.
ReopenRoad(r) ==
  /\ r \in shut
  /\ shut' = shut \ {r}
  /\ UNCHANGED <<drivers, orders, queue, paused>>

SetPaused(p) ==
  /\ paused' = p
  /\ UNCHANGED <<drivers, orders, queue, shut>>

\* reset: closed roads and the pause survive it.
Reset ==
  /\ drivers' = InitialDrivers
  /\ orders' = <<>>
  /\ queue' = <<>>
  /\ UNCHANGED <<shut, paused>>

Next ==
  \/ \E t \in Trip : PlaceOrder(t)
  \/ Tick
  \/ \E r \in Road : CloseRoad(r) \/ ReopenRoad(r)
  \/ \E p \in BOOLEAN : SetPaused(p)
  \/ Reset

Spec == Init /\ [][Next]_vars

\* Run's select serves its ticker along with the commands: ticks never stop.
FairSpec == Spec /\ WF_vars(Tick)

-----------------------------------------------------------------------------
(***************************************************************************)
(* Properties                                                               *)
(***************************************************************************)
DriverStatus == {"idle", "en_route_to_pickup", "delivering"}

OrderStatus == {"pending", "assigned", "en_route", "delivered", "unassignable"}

DriverRecord ==
  [status : DriverStatus, pos : Node,
   route : Seq(Node), index : Nat \ {0}, progress : Nat, order : 0..MaxOrders]

OrderRecord ==
  [pickup : Node, dest : Node, driver : Driver \union {NoDriver},
   status : OrderStatus]

\* The types of the actor's state.
TypeOK ==
  /\ drivers \in [Driver -> DriverRecord]
  /\ orders \in Seq(OrderRecord)
  /\ Len(orders) <= MaxOrders
  /\ queue \in Seq(DOMAIN orders)
  /\ shut \subseteq Road
  /\ paused \in BOOLEAN

Busy(d) == drivers[d].status # "idle"

\* The order status that goes with a busy driver's status.
OrderStatusOf == [en_route_to_pickup |-> "assigned", delivering |-> "en_route"]

\* The pairing of the drivers ds with the orders os.
Paired(ds, os) ==
  /\ \A d \in Driver :
       IF ds[d].status = "idle"
       THEN ds[d].order = NoOrder /\ ds[d].route = NoRoute /\ ds[d].index = 1
       ELSE /\ ds[d].order \in DOMAIN os
            /\ os[ds[d].order].driver = d
            /\ os[ds[d].order].status = OrderStatusOf[ds[d].status]
  /\ \A o \in DOMAIN os : os[o].status \in {"assigned", "en_route"} =>
       /\ os[o].driver \in Driver
       /\ ds[os[o].driver].status # "idle"
       /\ ds[os[o].driver].order = o

\* Drivers and the orders in progress are paired one to one, the two records
\* agree on where the delivery stands, and an idle driver has nothing left of
\* its last one, whatever the handlers (assignment, movement, rerouting,
\* reset) did in between.
Pairing == Paired(drivers, orders)

\* No driver is ever heading over a closed road: closing one reroutes or
\* strands every driver whose remaining route crosses it (docs/architecture.md:5).
NoClosedRoadAhead ==
  \A d \in Driver : \A i \in drivers[d].index..Len(drivers[d].route)-1 :
     HopRoad(drivers[d].route, i) \in Road \ shut

\* A busy driver stands on its route (checkInvariants of simulation_test.go)
\* and the rest of the route goes where its order needs it: through the pickup
\* before collection, to the destination after it.
OnCourse ==
  \A d \in Driver : Busy(d) =>
    LET c == drivers[d]
        o == orders[c.order]
    IN  /\ c.index \in DOMAIN c.route
        /\ c.pos = c.route[c.index]
        /\ c.status = "en_route_to_pickup" =>
             \E i \in c.index+1..Len(c.route) : c.route[i] = o.pickup
        /\ c.status = "delivering" => c.route[Len(c.route)] = o.dest

\* The handlers go by FindRoute's promise: its search keeps it, whatever roads are
\* closed (looked at while there are no orders, as it does not depend on them).
SearchFindsShortest == orders = <<>> => IsShortestSearch(shut)

\* The queue holds exactly the unresolved orders, each once, oldest first:
\* retryPendingBaseline rebuilds it without losing or reordering any.
QueueExact ==
  /\ \A i, j \in DOMAIN queue : i < j => queue[i] < queue[j]
  /\ {queue[i] : i \in DOMAIN queue} = {o \in DOMAIN orders : orders[o].status = "pending"}

\* A tick leaves no order waiting while a driver is idle, and serves the queue
\* in placement order: what it leaves is the queue without a prefix.
TickServesQueueInOrder ==
  [][Tick => /\ queue' # <<>> => \A d \in Driver : drivers'[d].status # "idle"
             /\ \E n \in 0..Len(queue) : queue' = SubSeq(queue, n+1, Len(queue))]_vars

Settled(o) ==
  o \notin DOMAIN orders \/ orders[o].status \in {"delivered", "unassignable"}

\* Every order is eventually delivered or declared unassignable (or wiped by
\* a reset), once the visitor leaves the pause off and the roads alone.
OrdersSettle ==
  (<>[]~paused /\ <>[][FALSE]_shut)
    => \A o \in 1..MaxOrders : []<>Settled(o)

\* The actor implements the lifecycle its clients rely on: DeliveryLifecycle,
\* through the status and the assigned driver of every order.
Lifecycle == INSTANCE DeliveryLifecycle
  WITH Courier <- Driver, NoCourier <- NoDriver,
       stage   <- [o \in DOMAIN orders |-> orders[o].status],
       carrier <- [o \in DOMAIN orders |-> orders[o].driver]

ImplementsLifecycle == Lifecycle!Spec

-----------------------------------------------------------------------------
(***************************************************************************)
(* What the repository says and the code does not do.                       *)
(***************************************************************************)
\* "a delivery request from a pickup node to a destination node"
\* (domain/order.go): a delivered order was carried to its destination.
DeliveredAtDestination ==
  [][\A o \in DOMAIN orders \intersect DOMAIN orders' :
       orders[o].status # "delivered" /\ orders'[o].status = "delivered"
         => drivers'[orders[o].driver].pos = orders[o].dest]_vars

\* "how far the driver has travelled along the current edge"
\* (domain/driver.go): progress needs a current edge, longer than it.
ProgressOnCurrentRoad ==
  \A d \in Driver : LET c == drivers[d] IN
    c.progress > 0 => /\ c.index < Len(c.route)
                      /\ c.progress < Weight[HopRoad(c.route, c.index)]

\* "a driver was free to consider and still could not reach the pickup, so
\* nothing will ever reach it" (assignBaseline): an order that is turned away
\* though its trip exists has a pickup that no driver can get to.
RejectedOnlyIfUnreachable ==
  [][\A o \in DOMAIN orders' :
       /\ orders'[o].status = "unassignable"
       /\ orders'[o].driver = NoDriver
       /\ o \in DOMAIN orders => orders[o].status = "pending"
       /\ Reachable(shut, orders'[o].pickup, orders'[o].dest)
       => \A d \in Driver : ~Reachable(shut, drivers'[d].pos, orders'[o].pickup)]_vars

=============================================================================
