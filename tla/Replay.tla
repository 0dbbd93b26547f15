-------------------------------- MODULE Replay --------------------------------
(***************************************************************************)
(* The event log and the fold that reconstructs a run from it: the events  *)
(* each handler of Simulation emits, in order, and the rules by which       *)
(* replay/state.go applies them to a snapshot.  Every step of the actor is  *)
(* taken together with the events it emits; the fold runs beside it, from   *)
(* the run's opening snapshot or from a later one.                          *)
(*                                                                          *)
(* Coordinates, times, distances and causation ids are left out: the fold   *)
(* copies or ignores them.                                                  *)
(***************************************************************************)
EXTENDS Simulation, SequencesExt

VARIABLE view   \* what the fold has reconstructed so far

replayVars == <<drivers, orders, queue, shut, paused, view>>

-----------------------------------------------------------------------------
(***************************************************************************)
(* The events.                                                              *)
(***************************************************************************)
Placed(o, t)         == [type |-> "order.placed", order |-> o, pickup |-> t[1], dest |-> t[2]]
Assigned(o, d)       == [type |-> "order.assigned", order |-> o, driver |-> d]
Unassignable(o)      == [type |-> "order.unassignable", order |-> o]
Delivered(o)         == [type |-> "order.delivered", order |-> o]
Computed(d, route)   == [type |-> "route.computed", driver |-> d, route |-> route]
Invalidated(d)       == [type |-> "route.invalidated", driver |-> d]
StatusChanged(d, st) == [type |-> "driver.status.changed", driver |-> d, status |-> st]
PositionUpdate(d, n) == [type |-> "driver.position.updated", driver |-> d, node |-> n]
Road_(type, r)       == [type |-> type, road |-> r]
PauseChanged(p)      == [type |-> "simulation.paused", paused |-> p]
SnapshotEvent(state) == [type |-> "simulation.snapshot", state |-> state]

\* snapshotPayload: what a snapshot carries and the fold's State keeps.  The
\* fold has no routeProgress (replay.Driver), so it is not part of either.
StateOf(ds, os, closed, pause) ==
  [drivers |-> [d \in Driver |-> [pos    |-> ds[d].pos,   status |-> ds[d].status,
                                  route  |-> ds[d].route, index  |-> ds[d].index,
                                  order  |-> ds[d].order]],
   orders  |-> os,
   shut    |-> closed,
   paused  |-> pause]

\* What offering order o, which led to world v, emits: assignBaseline
\* and applyAssignment.  Queueing an order emits nothing.
AssignEvents(v, o) ==
  LET d == v.orders[o].driver
  IN  CASE v.orders[o].status = "unassignable" -> <<Unassignable(o)>>
        [] v.orders[o].status = "pending"      -> <<>>
        [] OTHER -> <<Computed(d, v.drivers[d].route), Assigned(o, d),
                      StatusChanged(d, v.drivers[d].status)>>

\* retryPendingBaseline: the events of the offers, in order.
RetryEvents(w) ==
  LET Offer(acc, o) ==
        LET v == AssignBaseline(acc.world, o)
        IN  IF acc.world.orders[o].status # "pending" THEN acc
            ELSE [world |-> v, events |-> acc.events \o AssignEvents(v, o)]
  IN  IF w.queue = <<>> \/ IdleDrivers(w) = {} THEN <<>>
      ELSE Iterate(Offer, [world |-> [w EXCEPT !.queue = <<>>], events |-> <<>>], w.queue).events

\* handleDriverAtNode: what d emits when hop m leads to hop n, if it crosses.
ArriveEvents(d, m, n, pickup) ==
  LET o       == m.driver.order
      next    == m.driver.route[m.driver.index + 1]
      crossed == n # m /\ n.driver.progress = 0 /\ n.driver.pos = next
      collect == m.driver.status = "en_route_to_pickup" /\ next = pickup
      finish  == n.driver.order = NoOrder
  IN  IF m.driver.index >= Len(m.driver.route) \/ ~crossed THEN <<>>
      ELSE (IF collect THEN <<StatusChanged(d, "delivering")>> ELSE <<>>)
        \o (IF finish THEN <<Delivered(o), StatusChanged(d, "idle")>> ELSE <<>>)

\* moveDriver: the events of the hops and one position update at the end.
MoveEvents(d) ==
  LET o == drivers[d].order
      pickup == orders[o].pickup
      Round(acc, i) == LET n == Hop(acc.leg, pickup)
                       IN  [leg |-> n, events |-> acc.events \o ArriveEvents(d, acc.leg, n, pickup)]
      leg == [driver |-> drivers[d], status |-> orders[o].status, budget |-> Speed]
  IN  IF ~OnTheMove(d) THEN <<>>
      ELSE Append(Iterate(Round, [leg |-> leg, events |-> <<>>], drivers[d].route).events,
                  PositionUpdate(d, Moved(d).driver.pos))

\* rerouteDriver
RerouteEvents(d, closed) ==
  IF ~Affected(d, closed) THEN <<>>
  ELSE IF Stranded(d, closed)
  THEN <<Invalidated(d), Unassignable(drivers[d].order), StatusChanged(d, "idle")>>
  ELSE <<Invalidated(d), Computed(d, Reroute(d, closed))>>

\* Every driver's events, in the order of the drivers' ids.
OfAllDrivers(Events(_)) == FlattenSeq([d \in Driver |-> Events(d)])

-----------------------------------------------------------------------------
(***************************************************************************)
(* The fold: stateBuilder.apply, one branch per event type.                 *)
(***************************************************************************)
\* The position update moves the index on by one if that is where the route
\* goes next.
Advanced(driver, node) ==
  LET i == driver.index + 1
  IN  IF i <= Len(driver.route) /\ driver.route[i] = node
      THEN [driver EXCEPT !.pos = node, !.index = i]
      ELSE [driver EXCEPT !.pos = node]

\* mutant: going idle keeps the route.
KeepsRoute(v, e) ==
  LET o == v.drivers[e.driver].order
  IN  [v EXCEPT !.drivers[e.driver].status = e.status,
                !.orders = IF e.status = "delivering" /\ o # NoOrder
                           THEN [@ EXCEPT ![o] = [@ EXCEPT !.status = "en_route"]] ELSE @]

\* A status change: a driver going idle has its route, index and order
\* cleared, one starting to deliver puts its order en route.
WithStatus(v, e) ==
  LET o == v.drivers[e.driver].order
  IN  CASE e.status = "idle" ->
             [v EXCEPT !.drivers[e.driver] =
                [@ EXCEPT !.status = "idle", !.route = NoRoute, !.index = 1, !.order = NoOrder]]
        [] e.status = "delivering" /\ o # NoOrder ->
             [v EXCEPT !.drivers[e.driver].status = e.status, !.orders[o].status = "en_route"]
        [] OTHER -> [v EXCEPT !.drivers[e.driver].status = e.status]

\* stateBuilder.apply
Apply(v, e) ==
  CASE e.type = "simulation.snapshot" -> e.state
    [] e.type = "order.placed" ->
         [v EXCEPT !.orders = Append(@, [pickup |-> e.pickup, dest |-> e.dest,
                                         status |-> "pending", driver |-> NoDriver])]
    [] e.type = "order.assigned" ->
         [v EXCEPT !.orders[e.order].status = "assigned", !.orders[e.order].driver = e.driver,
                   !.drivers[e.driver].order = e.order]
    [] e.type = "order.unassignable" -> [v EXCEPT !.orders[e.order].status = "unassignable"]
    [] e.type = "order.delivered"    -> [v EXCEPT !.orders[e.order].status = "delivered"]
    [] e.type = "driver.position.updated" ->
         [v EXCEPT !.drivers[e.driver] = Advanced(@, e.node)]
    [] e.type = "driver.status.changed" -> WithStatus(v, e)
    [] e.type = "route.computed" ->
         [v EXCEPT !.drivers[e.driver] = [@ EXCEPT !.route = e.route, !.index = 1]]
    [] e.type = "road.closed"       -> [v EXCEPT !.shut = @ \union {e.road}]
    [] e.type = "road.reopened"     -> [v EXCEPT !.shut = @ \ {e.road}]
    [] e.type = "simulation.paused" -> [v EXCEPT !.paused = e.paused]
    [] e.type = "route.invalidated" -> v

Fold(v, events) == Iterate(Apply, v, events)

\* The actor's step emitted these events, and the fold has applied them.
Log(events) == view' = Fold(view, events)

-----------------------------------------------------------------------------
ReplayInit == Init /\ view = StateOf(drivers, orders, shut, paused)

PlaceOrderLogged(t) ==
  /\ PlaceOrder(t)
  /\ LET o == Len(orders) + 1
         order == [pickup |-> t[1], dest |-> t[2], status |-> "pending", driver |-> NoDriver]
         v == AssignBaseline([World EXCEPT !.orders = Append(@, order)], o)
     IN  Log(<<Placed(o, t)>> \o AssignEvents(v, o))

TickLogged ==
  /\ Tick
  /\ Log(OfAllDrivers(MoveEvents) \o RetryEvents(AfterMoves))

\* handleCloseRoad announces the road after the reroutes it caused.
CloseRoadLogged(r) ==
  /\ CloseRoad(r)
  /\ LET Rerouting(d) == RerouteEvents(d, shut \union {r})
     IN  Log(Append(OfAllDrivers(Rerouting), Road_("road.closed", r)))

ReopenRoadLogged(r) == ReopenRoad(r) /\ Log(<<Road_("road.reopened", r)>>)

SetPausedLogged(p) == SetPaused(p) /\ Log(<<PauseChanged(p)>>)

\* reset announces itself with a snapshot of the new state.
ResetLogged == Reset /\ Log(<<SnapshotEvent(StateOf(drivers', orders', shut', paused'))>>)

\* Reader.StateAt starts from the newest stored snapshot; one may be taken
\* after any step.
TakeSnapshot ==
  /\ view' = StateOf(drivers, orders, shut, paused)
  /\ UNCHANGED vars

ReplayNext ==
  \/ \E t \in Trip : PlaceOrderLogged(t)
  \/ TickLogged
  \/ \E r \in Road : CloseRoadLogged(r) \/ ReopenRoadLogged(r)
  \/ \E p \in BOOLEAN : SetPausedLogged(p)
  \/ ResetLogged
  \/ TakeSnapshot

ReplaySpec == ReplayInit /\ [][ReplayNext]_replayVars

-----------------------------------------------------------------------------
(***************************************************************************)
(* Properties                                                               *)
(***************************************************************************)
WithoutIndex(state) ==
  [state EXCEPT !.drivers = [d \in Driver |-> [@[d] EXCEPT !.index = 1]]]

\* Whatever snapshot the fold started from, after every step of the actor it
\* has the actor's drivers, orders, roads and pause, except for how far along
\* its route a driver is.  There it is never ahead of the actor, and not behind
\* it either for a driver that stands where its route begins: it may fall
\* behind only after a tick that passed several nodes.
ReplayAgrees ==
  /\ WithoutIndex(view) = WithoutIndex(StateOf(drivers, orders, shut, paused))
  /\ \A d \in Driver : /\ view.drivers[d].index <= drivers[d].index
                       /\ drivers[d].index = 1 => view.drivers[d].index = 1

\* "the reconstruction is only trustworthy if folding the log lands on exactly
\* the state the simulation itself holds" (replay/state_test.go).
ReplayExact == view = StateOf(drivers, orders, shut, paused)

=============================================================================
