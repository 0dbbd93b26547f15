-------------------------- MODULE OptimizedDispatch --------------------------
(***************************************************************************)
(* The simulation actor under the optimized strategy, as the comparison     *)
(* runner and the tests configure it: orders queue, a tick matches a batch  *)
(* of them jointly against the idle drivers of the candidate index, and a   *)
(* lone order goes to the nearest driver as under the baseline.  Movement   *)
(* and closures are Simulation's; what differs is dispatch and the index.   *)
(*                                                                          *)
(* Costs are whole units.  The bonus for a driver's idle time is any of     *)
(* 0..IdleBonus: the time idle is not part of the state.                    *)
(***************************************************************************)
EXTENDS Simulation, Assignment, Spatial

CONSTANTS CandidatesPerOrder, MinBatchSize,
          MaxWait,        \* ticks the oldest order waits for a batch
          PickupWeight, WaitWeight,
          IdleBonus,      \* bound: the most a driver's idle time counts for
          MaxAge          \* bound: ages are counted up to this

ASSUME DispatchAssumption ==
  /\ CandidatesPerOrder \in Nat \ {0} /\ MinBatchSize \in Nat \ {0}
  /\ PickupWeight \in Nat /\ WaitWeight \in Nat /\ IdleBonus \in Nat
  /\ MaxWait \in Nat /\ MaxAge \in Nat /\ MaxAge >= MaxWait
  /\ \A p \in SimplePath : PickupWeight * Distance(p) < Unreachable

VARIABLES index,  \* driverIndex: where the drivers are that the index holds
          age     \* age[o]: ticks since queued order o was created

dispatchVars == <<vars, index, age>>

Queued(w) == {w.queue[i] : i \in DOMAIN w.queue}

-----------------------------------------------------------------------------
\* The candidates of order o, and the columns of the batch's matrix.
CandidatesOf(w, ix, o) == NearestOf(ix, Coord[w.orders[o].pickup], CandidatesPerOrder)

Columns(w, ix) ==
  Sorted(UNION {ToSet(CandidatesOf(w, ix, o)) : o \in Queued(w)}, <)

\* What it costs to give order o to driver d.
PairCost(w, aged, bonus, o, d) ==
  PickupWeight * Distance(FindRoute(shut, w.drivers[d].pos, w.orders[o].pickup))
    - WaitWeight * aged[o] - bonus[d]

\* The matrix over the queued orders and the given columns.
CostMatrix(w, ix, aged, bonus, columns) ==
  [i \in DOMAIN w.queue |->
    [j \in DOMAIN columns |->
       IF /\ columns[j] \in ToSet(CandidatesOf(w, ix, w.queue[i]))
          /\ Reachable(shut, w.drivers[columns[j]].pos, w.orders[w.queue[i]].pickup)
       THEN PairCost(w, aged, bonus, w.queue[i], columns[j])
       ELSE Unreachable]]

\* mutant: only one pair of a batch is taken.
AcceptedOne(w, columns, cost, pairs) ==
  IF pairs = {} THEN <<>>
  ELSE LET pair == CHOOSE p \in pairs : TRUE
       IN  <<<<w.queue[pair[1]], columns[pair[2]]>>>>

\* The pairs that can be matched, as <<order, driver>> in order of the orders
\* (the queue is sorted).
Accepted(w, columns, cost, pairs) ==
  LET rows == Sorted({p[1] : p \in pairs}, <)
      Pair(i) == CHOOSE p \in pairs : p[1] = i
  IN  [k \in DOMAIN rows |-> <<w.queue[rows[k]], columns[Pair(rows[k])[2]]>>]

\* mutant: an order without candidates is infeasible, too.
InfeasibleAll(w, ix, cost) ==
  {w.queue[i] : i \in {i \in DOMAIN w.queue :
     \A j \in DOMAIN cost[i] : cost[i][j] = Unreachable}}

\* The orders none of whose candidates can come.
Infeasible(w, ix, cost) ==
  {w.queue[i] : i \in {i \in DOMAIN w.queue :
     /\ CandidatesOf(w, ix, w.queue[i]) # <<>>
     /\ \A j \in DOMAIN cost[i] : cost[i][j] = Unreachable}}

\* Optimized: what it accepts and what it finds infeasible.
Optimized(w, ix, aged, bonus) ==
  LET Solve(columns, cost) ==
        [assigned   |-> Accepted(w, columns, cost,
                          {p \in MinCostAssignment(cost) : cost[p[1]][p[2]] < Unreachable}),
         infeasible |-> Infeasible(w, ix, cost)]
      Over(columns) == Solve(columns, CostMatrix(w, ix, aged, bonus, columns))
  IN  Over(Columns(w, ix))

\* mutant: what the batch has resolved stays in the queue.
RunBatchKeepingQueue(w, result) ==
  LET Apply(v, pair) == ApplyAssignment(v, pair[1], pair[2])
  IN  Iterate(Apply, w, result.assigned)

\* runBatch, with the outcome of Optimized: the accepted pairs are applied, the
\* infeasible orders turned away and the others stay queued.
RunBatch(w, result) ==
  LET Apply(v, pair) == ApplyAssignment(v, pair[1], pair[2])
      resolved == {pair[1] : pair \in ToSet(result.assigned)} \union result.infeasible
      Keep(remaining, o) == IF o \in resolved THEN remaining ELSE Append(remaining, o)
      Settle(matched) ==
        [matched EXCEPT
          !.orders = [o \in DOMAIN @ |->
                        IF o \in result.infeasible THEN [@[o] EXCEPT !.status = "unassignable"]
                        ELSE @[o]],
          !.queue  = Iterate(Keep, <<>>, @)]
  IN  Settle(Iterate(Apply, w, result.assigned))

\* dispatchImmediateBaseline: the oldest order, to the nearest driver.
DispatchImmediate(w) == AssignBaseline([w EXCEPT !.queue = Tail(@)], w.queue[1])

\* mutant: a partial batch never falls due.
DispatchFullBatches(w, ix, aged, bonus) ==
  IF w.queue = <<>> THEN w
  ELSE IF Len(w.queue) >= MinBatchSize THEN RunBatch(w, Optimized(w, ix, aged, bonus))
  ELSE IF Len(w.queue) = 1 /\ IdleDrivers(w) # {} THEN DispatchImmediate(w)
  ELSE w

\* dispatchOptimized: a full batch, a lone order at once, or a partial batch
\* when the oldest order has waited long enough.
DispatchOptimized(w, ix, aged, bonus) ==
  LET n == Len(w.queue)
      waited == aged[w.queue[1]] >= MaxWait
  IN  IF n = 0 THEN w
      ELSE IF n >= MinBatchSize \/ (n >= 2 /\ waited)
      THEN RunBatch(w, Optimized(w, ix, aged, bonus))
      ELSE IF n = 1 /\ (IdleDrivers(w) # {} \/ waited) THEN DispatchImmediate(w)
      ELSE w

-----------------------------------------------------------------------------
\* applyAssignment takes a driver out of the index.
Unindexed(ix, before, after) ==
  [d \in {d \in DOMAIN ix : after[d].order = before[d].order} |-> ix[d]]

\* mutant: a driver that has delivered is not put back.
IndexNotRestored(moved) == index

\* handleDriverAtNode puts a driver that has delivered back into the index.
IndexAfterMoves(moved) ==
  LET done == {d \in Driver : Busy(d) /\ moved.drivers[d].status = "idle"}
  IN  [d \in DOMAIN index \union done |->
         IF d \in done THEN Coord[moved.drivers[d].pos] ELSE index[d]]

InitialIndex == [d \in Driver |-> Coord[Home[d]]]

\* The ages of the orders still queued in w.
AgesIn(w, aged) == [o \in Queued(w) |-> IF o \in DOMAIN aged THEN aged[o] ELSE 0]

\* The world v and the index ix are the new state; ages go with the queue.
CommitDispatch(v, ix, aged) ==
  /\ Commit(v)
  /\ index' = ix
  /\ age' = AgesIn(v, aged)

DispatchInit == Init /\ index = InitialIndex /\ age = [o \in {} |-> 0]

\* handlePlaceOrder: queued first, and taken at once if it is alone and a
\* driver idle.
PlaceOrderOptimized(t) ==
  LET order == [pickup |-> t[1], dest |-> t[2], status |-> "pending", driver |-> NoDriver]
      w == [World EXCEPT !.orders = Append(@, order), !.queue = Append(@, Len(orders) + 1)]
      v == IF Len(w.queue) = 1 /\ IdleDrivers(w) # {} THEN DispatchImmediate(w) ELSE w
  IN  /\ Len(orders) < MaxOrders
      /\ CommitDispatch(v, Unindexed(index, drivers, v.drivers), age)
      /\ UNCHANGED <<shut, paused>>

Aged == [o \in DOMAIN age |-> IF age[o] < MaxAge THEN age[o] + 1 ELSE age[o]]

\* tick: virtual time, the moves, and dispatch.
TickOptimized ==
  /\ ~paused
  /\ \E moved \in {AfterMoves}, bonus \in [Driver -> 0..IdleBonus] :
     \E ix \in {IndexAfterMoves(moved)} :
     \E v \in {DispatchOptimized(moved, ix, Aged, bonus)} :
       CommitDispatch(v, Unindexed(ix, moved.drivers, v.drivers), Aged)
  /\ UNCHANGED <<shut, paused>>

\* Closures, the pause and the index: none of them touches it.
CloseRoadIndexed(r)   == CloseRoad(r)  /\ UNCHANGED <<index, age>>
ReopenRoadIndexed(r)  == ReopenRoad(r) /\ UNCHANGED <<index, age>>
SetPausedIndexed(p)   == SetPaused(p)  /\ UNCHANGED <<index, age>>

\* reset rebuilds the index.
ResetIndexed == Reset /\ index' = InitialIndex /\ age' = [o \in {} |-> 0]

DispatchNext ==
  \/ \E t \in Trip : PlaceOrderOptimized(t)
  \/ TickOptimized
  \/ \E r \in Road : CloseRoadIndexed(r) \/ ReopenRoadIndexed(r)
  \/ \E p \in BOOLEAN : SetPausedIndexed(p)
  \/ ResetIndexed

DispatchSpec == DispatchInit /\ [][DispatchNext]_dispatchVars

FairDispatch == DispatchSpec /\ WF_dispatchVars(TickOptimized)

-----------------------------------------------------------------------------
Hidden(d) == drivers[d].status = "idle" /\ d \notin DOMAIN index

IndexSound ==
  \A d \in DOMAIN index : drivers[d].status = "idle" /\ index[d] = Coord[drivers[d].pos]

\* Every step leaves in the index idle drivers only, where they are
\* (simulation.go:80-83, 947, 1128): a batch never takes a driver that is busy,
\* nor reckons with a place a driver has left.  And it leaves them all there but
\* those a closure has stranded (simulation.go:610-620): nothing else hides a
\* driver.
IndexKept ==
  [][/\ IndexSound'
     /\ shut' = shut => \A d \in Driver : Hidden(d)' => Hidden(d)]_dispatchVars

\* The ring search finds the nearest drivers, up to drivers in farther rings
\* (grid.go:73-76), wherever the drivers of the index stand.
CandidatesNearby ==
  \A n \in Node : \A k \in 1..DriverCount :
    IsNearbySearch(index, Coord[n], k, NearestOf(index, Coord[n], k))

\* MinCostAssignment matches at the least cost there is (assignment.go:24-29),
\* whatever mix of costs and impossible pairs up to two by three or three by two.
AssignmentOptimal ==
  orders = <<>> /\ shut = {} /\ ~paused =>
    \A rows, cols \in 1..3 : rows + cols < 6 =>
      \A cost \in [1..rows -> [1..cols -> {0, 1, 3, Unreachable}]] :
        IsMinCost(cost, MinCostAssignment(cost))

\* A step that changes something and that only a tick can be: a tick without
\* orders changes nothing.
Ticked == orders # <<>> /\ Len(orders') = Len(orders) /\ UNCHANGED <<shut, paused>>

\* A tick would match a batch, rather than wait for one.
BatchDue ==
  \/ Len(queue) >= MinBatchSize
  \/ Len(queue) >= 2 /\ Aged[queue[1]] >= MaxWait

\* A batch leaves no order waiting that one of its candidates, still idle,
\* could have served: an order only waits because it lost to another, which got
\* the driver or, having no way to its destination, was turned away after all.
BatchLeavesNothing ==
  [][Ticked /\ BatchDue =>
       \A o \in ToSet(queue'), d \in Driver :
         /\ drivers'[d].status = "idle"
         /\ Reachable(shut, drivers'[d].pos, orders[o].pickup)
         => \/ d \notin ToSet(CandidatesOf(AfterMoves, IndexAfterMoves(AfterMoves), o))
            \/ \E p \in ToSet(queue) :
                 /\ orders'[p].status = "unassignable"
                 /\ ~Reachable(shut, orders[p].pickup, orders[p].dest)]_dispatchVars

\* An order that is turned away without a driver ever given: it has no way to its
\* destination, or some driver was idle and could not come to it.
TurnedAwayForCause ==
  [][\A o \in DOMAIN orders' :
       /\ orders'[o].status = "unassignable" /\ orders'[o].driver = NoDriver
       /\ o \in DOMAIN orders => orders[o].status = "pending"
       => \/ ~Reachable(shut, orders'[o].pickup, orders'[o].dest)
          \/ \E d \in Driver : /\ drivers'[d].status = "idle" \/ drivers'[d].order # drivers[d].order
                               /\ ~Reachable(shut, drivers'[d].pos, orders'[o].pickup)]_dispatchVars

\* Every order is settled once the pause stays off and the roads are left alone,
\* if no idle driver is missing from the index: neither the batch size nor the
\* candidates' limit keeps an order waiting for ever.
BatchedOrdersSettle ==
  (<>[]~paused /\ <>[][FALSE]_shut /\ <>[](\A d \in Driver : ~Hidden(d)))
    => \A o \in 1..MaxOrders : []<>Settled(o)

\* "An order with zero candidates simply means no idle driver exists to consider
\* it right now" (optimized.go:133-137): refuted, a driver a closure stranded is
\* idle and not in the index.
IdleDriversIndexed == \A d \in Driver : ~Hidden(d)

=============================================================================
