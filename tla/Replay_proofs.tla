----------------------------- MODULE Replay_proofs -----------------------------
(***************************************************************************)
(* Folding the event log gives back the simulation: after every step the    *)
(* fold of replay/state.go has the actor's drivers, orders, closed roads    *)
(* and pause, whatever the city, the trips, the number of drivers and       *)
(* orders, and whatever snapshot it started from.  It may be behind only    *)
(* in how far along its route a driver is, since the log has one position   *)
(* update for a tick that crosses several nodes.                            *)
(*                                                                          *)
(* FoldsTo is folding as a relation that composes.  Each handler's list of  *)
(* events is built while the handler runs, so its lemma says that the list  *)
(* so far Carries the fold from the world before to the world so far; the   *)
(* loops over the drivers go by Leads, what the events of one driver do to  *)
(* its own row and order.  Follows, that the fold is where the actor is,    *)
(* is inductive together with HeadedInv of Simulation_proofs.               *)
(***************************************************************************)
EXTENDS Replay, Simulation_proofs

-----------------------------------------------------------------------------
(***************************************************************************)
(* Folding a list of events: from v to u.  The relation composes, so that   *)
(* each handler's list can be folded part by part.                          *)
(***************************************************************************)
Listing(e) == \E S : e \in Seq(S)

\* h[i] is the state after the first i events.
Stages(h, v, e, u) ==
  /\ h = [i \in 0..Len(e) |-> h[i]]
  /\ h[0] = v
  /\ \A i \in 1..Len(e) : h[i] = Apply(h[i-1], e[i])
  /\ h[Len(e)] = u

FoldsTo(v, e, u) == Listing(e) /\ \E h : Stages(h, v, e, u)

\* The fold of the code is where the stages lead.
LEMMA FoldIs ==
  ASSUME NEW v, NEW e, NEW u, FoldsTo(v, e, u)
  PROVE  Fold(v, e) = u
<1> DEFINE acc == CHOOSE g : g = [i \in 0..Len(e) |-> IF i = 0 THEN v ELSE Apply(g[i-1], e[i])]
<1>1. Fold(v, e) = acc[Len(e)]
  BY DEF Fold, Iterate
<1>2. PICK h : Stages(h, v, e, u)
  BY DEF FoldsTo
<1>3. Len(e) \in Nat
  BY LenProperties DEF FoldsTo, Listing
<1>4. \A i \in 0..Len(e) : h[i] = IF i = 0 THEN v ELSE Apply(h[i-1], e[i])
  <2> SUFFICES ASSUME NEW i \in 0..Len(e)
               PROVE  h[i] = IF i = 0 THEN v ELSE Apply(h[i-1], e[i])
    OBVIOUS
  <2>1. CASE i = 0
    BY <1>2, <2>1 DEF Stages
  <2>2. CASE i # 0
    <3>1. i \in 1..Len(e)
      BY <1>3, <2>2
    <3> QED BY <1>2, <2>2, <3>1 DEF Stages
  <2> QED BY <2>1, <2>2
<1>5. h = [i \in 0..Len(e) |-> IF i = 0 THEN v ELSE Apply(h[i-1], e[i])]
  BY <1>2, <1>4 DEF Stages
<1>6. acc = [i \in 0..Len(e) |-> IF i = 0 THEN v ELSE Apply(acc[i-1], e[i])]
  BY <1>5
<1> HIDE DEF acc
<1> DEFINE apart == [i \in 0..Len(e) |-> IF acc[i] = h[i] THEN 0 ELSE 1]
           Zero  == {0}
<1>7. \A i \in 0..Len(e) : apart[i] \in Zero
  <2>1. acc[0] = v /\ h[0] = v
    <3>1. 0 \in 0..Len(e)
      BY <1>3
    <3> QED BY <1>4, <1>6, <3>1
  <2>2. apart[0] \in Zero
    BY <1>3, <2>1
  <2>3. ASSUME NEW i \in 1..Len(e), apart[i-1] \in Zero
        PROVE  apart[i] \in Zero
    <3>1. i \in 0..Len(e) /\ i-1 \in 0..Len(e) /\ i # 0
      BY <1>3
    <3>2. acc[i-1] = h[i-1]
      BY <2>3, <3>1
    <3>3. acc[i] = Apply(acc[i-1], e[i]) /\ h[i] = Apply(h[i-1], e[i])
      <4> HIDE DEF apart
      <4> QED BY <1>4, <1>6, <3>1
    <3>4. acc[i] = h[i]
      BY <3>2, <3>3
    <3> QED BY <3>1, <3>4
  <2> HIDE DEF apart, Zero
  <2> QED BY <1>3, <2>2, <2>3, LoopInvariant
<1>8. acc[Len(e)] = h[Len(e)]
  <2>1. Len(e) \in 0..Len(e)
    BY <1>3
  <2> QED BY <1>7, <2>1
<1> QED BY <1>1, <1>2, <1>8 DEF Stages

\* No event changes nothing.
LEMMA FoldsNone ==
  ASSUME NEW v
  PROVE  FoldsTo(v, <<>>, v)
<1> DEFINE h == [i \in 0..0 |-> v]
<1>1. <<>> \in Seq({})
  OBVIOUS
<1>2. Stages(h, v, <<>>, v)
  BY DEF Stages
<1> QED BY <1>1, <1>2 DEF FoldsTo, Listing

\* One list of events after another.
LEMMA FoldsOn ==
  ASSUME NEW v, NEW e, NEW u, NEW f, NEW w, FoldsTo(v, e, u), FoldsTo(u, f, w)
  PROVE  FoldsTo(v, e \o f, w)
<1>1. PICK S, T : e \in Seq(S) /\ f \in Seq(T)
  BY DEF FoldsTo, Listing
<1>2. e \in Seq(S \union T) /\ f \in Seq(S \union T)
  BY <1>1, SeqMonotonic
<1>3. /\ e \o f \in Seq(S \union T)
      /\ Len(e) \in Nat /\ Len(f) \in Nat
      /\ Len(e \o f) = Len(e) + Len(f)
      /\ \A i \in 1..Len(e) + Len(f) :
           (e \o f)[i] = IF i <= Len(e) THEN e[i] ELSE f[i - Len(e)]
  BY <1>2, ConcatProperties, LenProperties
<1>4. PICK g, h : Stages(g, v, e, u) /\ Stages(h, u, f, w)
  BY DEF FoldsTo
<1> DEFINE m == Len(e)
           n == Len(f)
           l == e \o f
           s == [i \in 0..m+n |-> IF i <= m THEN g[i] ELSE h[i-m]]
<1>5. m \in Nat /\ n \in Nat /\ Len(l) = m + n
      /\ \A i \in 1..m+n : l[i] = IF i <= m THEN e[i] ELSE f[i-m]
  BY <1>3
<1>6. /\ g[0] = v /\ g[m] = u /\ h[0] = u /\ h[n] = w
      /\ \A i \in 1..m : g[i] = Apply(g[i-1], e[i])
      /\ \A i \in 1..n : h[i] = Apply(h[i-1], f[i])
  BY <1>4 DEF Stages
<1> HIDE DEF m, n, l
<1>7. s[0] = v
  BY <1>5, <1>6
<1>8. s[m+n] = w
  <2>1. CASE n = 0
    BY <1>5, <1>6, <2>1
  <2>2. CASE n # 0
    BY <1>5, <1>6, <2>2
  <2> QED BY <2>1, <2>2
<1>9. ASSUME NEW i \in 1..m+n
      PROVE  s[i] = Apply(s[i-1], l[i])
  <2>1. i-1 \in 0..m+n /\ i \in 0..m+n
    BY <1>5
  <2>2. CASE i <= m
    <3>1. s[i] = g[i] /\ s[i-1] = g[i-1] /\ l[i] = e[i] /\ i \in 1..m
      BY <1>5, <2>1, <2>2
    <3> QED BY <1>6, <3>1
  <2>3. CASE i > m
    <3>1. s[i] = h[i-m] /\ l[i] = f[i-m] /\ i-m \in 1..n
      BY <1>5, <2>1, <2>3
    <3>2. s[i-1] = h[i-m-1]
      <4>1. CASE i-1 = m
        <5>1. s[i-1] = g[m] /\ i-m-1 = 0
          BY <1>5, <2>1, <4>1
        <5> QED BY <1>6, <5>1
      <4>2. CASE i-1 # m
        <5>1. ~(i-1 <= m) /\ i-1-m = i-m-1
          BY <1>5, <2>3, <4>2
        <5> QED BY <2>1, <5>1
      <4> QED BY <4>1, <4>2
    <3> QED BY <1>6, <3>1, <3>2
  <2> QED BY <1>5, <2>2, <2>3
<1>10. s = [i \in 0..m+n |-> s[i]]
  OBVIOUS
<1> HIDE DEF s
<1>11. Stages(s, v, l, w)
  BY <1>5, <1>7, <1>8, <1>9, <1>10 DEF Stages
<1> QED BY <1>3, <1>11 DEF FoldsTo, Listing, l

\* One event.
LEMMA FoldsOne ==
  ASSUME NEW v, NEW x
  PROVE  FoldsTo(v, <<x>>, Apply(v, x))
<1> DEFINE h == [i \in 0..1 |-> IF i = 0 THEN v ELSE Apply(v, x)]
<1>1. <<x>> \in Seq({x}) /\ Len(<<x>>) = 1 /\ <<x>>[1] = x
  OBVIOUS
<1>2. h[0] = v /\ h[1] = Apply(v, x) /\ h = [i \in 0..1 |-> h[i]]
  OBVIOUS
<1> HIDE DEF h
<1>3. Stages(h, v, <<x>>, Apply(v, x))
  BY <1>1, <1>2 DEF Stages
<1> QED BY <1>1, <1>3 DEF FoldsTo, Listing

\* And one event more.
LEMMA FoldsNext ==
  ASSUME NEW v, NEW e, NEW u, FoldsTo(v, e, u), NEW x
  PROVE  FoldsTo(v, Append(e, x), Apply(u, x))
<1>1. PICK S : e \in Seq(S)
  BY DEF FoldsTo, Listing
<1>2. e \in Seq(S \union {x})
  BY <1>1, SeqMonotonic
<1>3. Append(e, x) = e \o <<x>>
  BY <1>2, AppendIsConcat
<1> QED BY <1>3, FoldsOne, FoldsOn

\* FlattenSeq is the concatenation, list by list.
LEMMA FlattenStages ==
  ASSUME NEW n \in Nat \ {0}, NEW E, E = [d \in 1..n |-> E[d]]
  PROVE  \E acc : /\ acc[1] = E[1]
                  /\ \A d \in 2..n : acc[d] = acc[d-1] \o E[d]
                  /\ FlattenSeq(E) = acc[n]
<1> DEFINE IsFlat(g, m) == g = [d \in 1..m |-> IF d = 1 THEN E[d] ELSE g[d-1] \o E[d]]
           Bad == {m \in Nat \ {0} : ~ \E g : IsFlat(g, m)}
           acc == CHOOSE g : g = [d \in 1..Len(E) |-> IF d = 1 THEN E[d] ELSE g[d-1] \o E[d]]
<1>1. Len(E) = n
  <2>1. E \in Seq({E[d] : d \in 1..n})
    BY IsASeq
  <2> QED BY <2>1, LenProperties
<1>2. FlattenSeq(E) = acc[n]
  BY <1>1 DEF FlattenSeq
<1>3. Bad = {}
  <2>1. SUFFICES ASSUME Bad # {} PROVE FALSE
    OBVIOUS
  <2>2. Bad \in SUBSET Nat
    OBVIOUS
  <2>3. PICK m \in Bad : \A k \in Bad : m <= k
    <3> HIDE DEF Bad
    <3> QED BY <2>1, <2>2, LeastNatural
  <2>4. m # 1
    <3> DEFINE g == [d \in 1..1 |-> E[1]]
    <3>1. g = [d \in 1..1 |-> IF d = 1 THEN E[d] ELSE g[d-1] \o E[d]]
      OBVIOUS
    <3>2. IsFlat(g, 1)
      BY <3>1
    <3> QED BY <2>3, <3>2
  <2>5. m-1 \in Nat \ {0} /\ m - 1 \notin Bad /\ m \in Nat
    <3>1. m \in Nat \ {0}
      BY <2>3
    <3>2. m-1 \notin Bad
      <4> HIDE DEF Bad
      <4> QED BY <2>3, <3>1
    <3>3. m-1 \in Nat \ {0} /\ m \in Nat
      BY <2>4, <3>1
    <3> HIDE DEF Bad
    <3> QED BY <3>2, <3>3
  <2>6. PICK h : IsFlat(h, m-1)
    BY <2>5
  <2> DEFINE g == [d \in 1..m |-> IF d = m THEN h[m-1] \o E[m] ELSE h[d]]
  <2>7. \A d \in 1..m-1 : h[d] = IF d = 1 THEN E[d] ELSE h[d-1] \o E[d]
    BY <2>6
  <2>8. ASSUME NEW d \in 1..m
        PROVE  g[d] = IF d = 1 THEN E[d] ELSE g[d-1] \o E[d]
    <3>1. CASE d = m
      <4>1. g[d-1] = h[m-1] /\ d # 1
        BY <2>4, <2>5, <3>1
      <4> QED BY <3>1, <4>1
    <3>2. CASE d # m
      <4>1. d \in 1..m-1 /\ g[d] = h[d]
        BY <2>5, <3>2
      <4>2. d # 1 => g[d-1] = h[d-1]
        BY <2>5, <3>2
      <4> QED BY <2>7, <4>1, <4>2
    <3> QED BY <3>1, <3>2
  <2>9. g = [d \in 1..m |-> IF d = 1 THEN E[d] ELSE g[d-1] \o E[d]]
    BY <2>8
  <2>10. IsFlat(g, m)
    BY <2>9
  <2> QED BY <2>3, <2>10
<1>4. PICK g : IsFlat(g, n)
  BY <1>3
<1>5. acc = [d \in 1..n |-> IF d = 1 THEN E[d] ELSE acc[d-1] \o E[d]]
  BY <1>1, <1>4
<1> HIDE DEF acc
<1>6. acc[1] = E[1]
  <2>1. 1 \in 1..n
    OBVIOUS
  <2> QED BY <1>5, <2>1
<1>7. ASSUME NEW d \in 2..n PROVE acc[d] = acc[d-1] \o E[d]
  <2>1. d \in 1..n /\ d # 1
    OBVIOUS
  <2> QED BY <1>5, <2>1
<1> QED BY <1>2, <1>6, <1>7

\* Lists that lead from stage to stage lead, flattened, from the first to the last.
LEMMA FlattenFolds ==
  ASSUME NEW n \in Nat \ {0}, NEW E, E = [d \in 1..n |-> E[d]], NEW h,
         \A d \in 1..n : FoldsTo(h[d-1], E[d], h[d])
  PROVE  FoldsTo(h[0], FlattenSeq(E), h[n])
<1>1. PICK acc : /\ acc[1] = E[1]
                 /\ \A d \in 2..n : acc[d] = acc[d-1] \o E[d]
                 /\ FlattenSeq(E) = acc[n]
  BY FlattenStages
<1> DEFINE mark == [d \in 0..n |-> IF d = 0 \/ FoldsTo(h[0], acc[d], h[d]) THEN 0 ELSE 1]
           Zero == {0}
<1>2. mark[0] \in Zero
  OBVIOUS
<1>3. ASSUME NEW d \in 1..n, mark[d-1] \in Zero PROVE mark[d] \in Zero
  <2>1. FoldsTo(h[d-1], E[d], h[d])
    OBVIOUS
  <2>2. CASE d = 1
    <3>1. FoldsTo(h[0], acc[1], h[1])
      BY <1>1, <2>1, <2>2
    <3> QED BY <2>2, <3>1
  <2>3. CASE d # 1
    <3>1. d-1 \in 0..n /\ d-1 # 0 /\ d \in 2..n
      BY <2>3
    <3>2. FoldsTo(h[0], acc[d-1], h[d-1])
      BY <1>3, <3>1
    <3>3. FoldsTo(h[0], acc[d-1] \o E[d], h[d])
      BY <2>1, <3>2, FoldsOn
    <3>4. FoldsTo(h[0], acc[d], h[d])
      BY <1>1, <3>1, <3>3
    <3> QED BY <3>4
  <2> QED BY <2>2, <2>3
<1>4. \A d \in 0..n : mark[d] \in Zero
  <2> HIDE DEF mark, Zero
  <2> QED BY <1>2, <1>3, LoopInvariant
<1>5. FoldsTo(h[0], acc[n], h[n])
  BY <1>4
<1> QED BY <1>1, <1>5

-----------------------------------------------------------------------------
(***************************************************************************)
(* What the fold keeps, with the rows of a view written out, and what each  *)
(* event does to it.                                                        *)
(***************************************************************************)
Row(p, s, t, i, o) == [pos |-> p, status |-> s, route |-> t, index |-> i, order |-> o]

\* What the fold knows of driver c, with k for how far along its route it is.
RowOf(k, c) == Row(c.pos, c.status, c.route, k, c.order)

\* StateOf, with the fold's own indexes k.
Seen(k, ds, os, closed, pause) ==
  [drivers |-> [d \in Driver |-> RowOf(k[d], ds[d])],
   orders  |-> os, shut |-> closed, paused |-> pause]

RowRecord ==
  [pos : Node, status : DriverStatus, route : Seq(Node), index : Nat \ {0}, order : 0..MaxOrders]

View(n) ==
  [drivers : [Driver -> RowRecord], orders : [1..n -> OrderRecord],
   shut : SUBSET Road, paused : BOOLEAN]

\* v with the row r for driver d, and the orders os.
Put(v, d, r, os) ==
  [drivers |-> [v.drivers EXCEPT ![d] = r], orders |-> os, shut |-> v.shut, paused |-> v.paused]

\* The orders os with another status for order o.
Stage(os, o, st) == [os EXCEPT ![o].status = st]

\* A view is the record of its fields.
LEMMA ViewFields ==
  ASSUME NEW n, NEW v \in View(n)
  PROVE  /\ v = [drivers |-> v.drivers, orders |-> v.orders, shut |-> v.shut, paused |-> v.paused]
         /\ v.drivers \in [Driver -> RowRecord]
         /\ v.orders \in [1..n -> OrderRecord]
         /\ v.shut \in SUBSET Road /\ v.paused \in BOOLEAN
BY DEF View

\* A view with another row for one driver, and one with other orders.
LEMMA ViewPut ==
  ASSUME NEW n, NEW v \in View(n), NEW d \in Driver, NEW r
  PROVE  [v EXCEPT !.drivers[d] = r] = Put(v, d, r, v.orders)
<1> DEFINE ds == [v.drivers EXCEPT ![d] = r]
           Fields(x, y, z, p) == [drivers |-> x, orders |-> y, shut |-> z, paused |-> p]
<1>1. PICK x, y, z, p : v = Fields(x, y, z, p)
  BY DEF View
<1>2. v.drivers = x /\ v.orders = y /\ v.shut = z /\ v.paused = p
  BY <1>1
<1>3. [v EXCEPT !.drivers[d] = r] = [v EXCEPT !.drivers = ds]
  OBVIOUS
<1>4. [v EXCEPT !.drivers = ds] = Fields(ds, y, z, p)
  BY <1>1
<1>5. Put(v, d, r, y) = Fields(ds, y, z, p)
  BY <1>2 DEF Put
<1> HIDE DEF ds, Fields
<1> QED BY <1>2, <1>3, <1>4, <1>5

\* A view with other orders keeps every row.
LEMMA ViewOrders ==
  ASSUME NEW n, NEW v \in View(n), NEW d \in Driver, NEW os
  PROVE  [v EXCEPT !.orders = os] = Put(v, d, v.drivers[d], os)
<1> DEFINE Fields(x, y, z, p) == [drivers |-> x, orders |-> y, shut |-> z, paused |-> p]
<1>1. PICK x, y, z, p : v = Fields(x, y, z, p)
  BY DEF View
<1>2. v.drivers = x /\ v.orders = y /\ v.shut = z /\ v.paused = p
  BY <1>1
<1>3. [v EXCEPT !.orders = os] = Fields(x, os, z, p)
  BY <1>1
<1>4. [v.drivers EXCEPT ![d] = v.drivers[d]] = v.drivers
  BY ViewFields
<1>5. Put(v, d, v.drivers[d], os) = Fields(x, os, z, p)
  BY <1>2, <1>4 DEF Put
<1> QED BY <1>3, <1>5

\* What a view so changed is.
LEMMA PutFields ==
  ASSUME NEW n, NEW v \in View(n), NEW d \in Driver,
         NEW r \in RowRecord, NEW os \in [1..n -> OrderRecord]
  PROVE  /\ Put(v, d, r, os) \in View(n)
         /\ Put(v, d, r, os).drivers[d] = r
         /\ Put(v, d, r, os).orders = os
         /\ \A s, x : Put(Put(v, d, r, os), d, s, x) = Put(v, d, s, x)
<1>1. v.drivers \in [Driver -> RowRecord] /\ v.shut \in SUBSET Road /\ v.paused \in BOOLEAN
  BY ViewFields
<1>2. Put(v, d, r, os) \in View(n)
  BY <1>1 DEF Put, View
<1>3. Put(v, d, r, os).drivers[d] = r /\ Put(v, d, r, os).orders = os
  BY <1>1 DEF Put
<1>4. ASSUME NEW s, NEW x
      PROVE  Put(Put(v, d, r, os), d, s, x) = Put(v, d, s, x)
  <2>1. [[v.drivers EXCEPT ![d] = r] EXCEPT ![d] = s] = [v.drivers EXCEPT ![d] = s]
    BY <1>1
  <2> QED BY <2>1 DEF Put
<1> QED BY <1>2, <1>3, <1>4

\* A row is made of its fields.
LEMMA RowTyped ==
  ASSUME NEW p \in Node, NEW s \in DriverStatus, NEW t \in Seq(Node), NEW i \in Nat \ {0},
         NEW o \in 0..MaxOrders
  PROVE  Row(p, s, t, i, o) \in RowRecord
BY DEF Row, RowRecord

\* Orders with another status are orders.
LEMMA StageTyped ==
  ASSUME NEW n, NEW os \in [1..n -> OrderRecord], NEW o, NEW st \in OrderStatus
  PROVE  /\ Stage(os, o, st) \in [1..n -> OrderRecord]
         /\ \A p \in 1..n : p # o => Stage(os, o, st)[p] = os[p]
         /\ o \in 1..n => Stage(os, o, st)[o] = [os[o] EXCEPT !.status = st]
<1>1. \A r \in OrderRecord : [r EXCEPT !.status = st] \in OrderRecord
  BY DEF OrderRecord
<1> QED BY <1>1 DEF Stage

\* A route computed.
LEMMA ApplyComputed ==
  ASSUME NEW n, NEW v \in View(n), NEW d \in Driver,
         NEW p, NEW s, NEW t, NEW i, NEW o, v.drivers[d] = Row(p, s, t, i, o), NEW route
  PROVE  Apply(v, Computed(d, route)) = Put(v, d, Row(p, s, route, 1, o), v.orders)
<1>1. Apply(v, Computed(d, route)) =
        [v EXCEPT !.drivers[d] = [v.drivers[d] EXCEPT !.route = route, !.index = 1]]
  BY DEF Apply, Computed
<1>2. [Row(p, s, t, i, o) EXCEPT !.route = route, !.index = 1] =
        [[Row(p, s, t, i, o) EXCEPT !.route = route] EXCEPT !.index = 1]
  OBVIOUS
<1>3. [Row(p, s, t, i, o) EXCEPT !.route = route] = Row(p, s, route, i, o)
  BY DEF Row
<1>4. [Row(p, s, route, i, o) EXCEPT !.index = 1] = Row(p, s, route, 1, o)
  BY DEF Row
<1>5. Apply(v, Computed(d, route)) = [v EXCEPT !.drivers[d] = Row(p, s, route, 1, o)]
  BY <1>1, <1>2, <1>3, <1>4
<1> QED BY <1>5, ViewPut

\* An order assigned.
LEMMA ApplyAssigned ==
  ASSUME NEW n, NEW v \in View(n), NEW d \in Driver, NEW o \in 1..n,
         NEW p, NEW s, NEW t, NEW i, NEW q, v.drivers[d] = Row(p, s, t, i, q)
  PROVE  Apply(v, Assigned(o, d)) =
           Put(v, d, Row(p, s, t, i, o), [v.orders EXCEPT ![o].status = "assigned", ![o].driver = d])
<1> DEFINE os == [v.orders EXCEPT ![o].status = "assigned", ![o].driver = d]
           r  == [v.drivers[d] EXCEPT !.order = o]
<1>1. Apply(v, Assigned(o, d)) = [v EXCEPT !.orders[o].status = "assigned", !.orders[o].driver = d,
                                           !.drivers[d].order = o]
  BY DEF Apply, Assigned
<1>2. [v EXCEPT !.orders[o].status = "assigned", !.orders[o].driver = d, !.drivers[d].order = o]
        = [[v EXCEPT !.drivers[d] = r] EXCEPT !.orders = os]
  BY DEF View
<1>3. r = Row(p, s, t, i, o)
  BY DEF Row
<1> HIDE DEF os, r
<1>4. [v EXCEPT !.drivers[d] = r] = Put(v, d, r, v.orders)
  BY ViewPut
<1>5. [Put(v, d, r, v.orders) EXCEPT !.orders = os] = Put(v, d, r, os)
  BY DEF Put
<1>6. Apply(v, Assigned(o, d)) = Put(v, d, r, os)
  BY <1>1, <1>2, <1>4, <1>5
<1> QED BY <1>3, <1>6 DEF os

\* A driver's status changed: it is idle again, or it takes up or goes on with order o.
LEMMA ApplyIdle ==
  ASSUME NEW n, NEW v \in View(n), NEW d \in Driver,
         NEW p, NEW s, NEW t, NEW i, NEW o, v.drivers[d] = Row(p, s, t, i, o)
  PROVE  Apply(v, StatusChanged(d, "idle")) =
           Put(v, d, Row(p, "idle", NoRoute, 1, NoOrder), v.orders)
<1> DEFINE e == StatusChanged(d, "idle")
           r == v.drivers[d]
<1>1. e.type = "driver.status.changed" /\ e.driver = d /\ e.status = "idle"
  BY DEF StatusChanged
<1> HIDE DEF e
<1>2. Apply(v, e) = WithStatus(v, e)
  BY <1>1 DEF Apply
<1>3. WithStatus(v, e) =
        [v EXCEPT !.drivers[d] =
           [v.drivers[d] EXCEPT !.status = "idle", !.route = NoRoute, !.index = 1, !.order = NoOrder]]
  BY <1>1 DEF WithStatus
<1>4. [r EXCEPT !.status = "idle", !.route = NoRoute, !.index = 1, !.order = NoOrder] =
        [[[[r EXCEPT !.status = "idle"] EXCEPT !.route = NoRoute] EXCEPT !.index = 1]
           EXCEPT !.order = NoOrder]
  OBVIOUS
<1>5. [r EXCEPT !.status = "idle"] = Row(p, "idle", t, i, o)
  BY DEF Row
<1>6. [Row(p, "idle", t, i, o) EXCEPT !.route = NoRoute] = Row(p, "idle", NoRoute, i, o)
  BY DEF Row
<1>7. [Row(p, "idle", NoRoute, i, o) EXCEPT !.index = 1] = Row(p, "idle", NoRoute, 1, o)
  BY DEF Row
<1>8. [Row(p, "idle", NoRoute, 1, o) EXCEPT !.order = NoOrder] = Row(p, "idle", NoRoute, 1, NoOrder)
  BY DEF Row
<1>9. [r EXCEPT !.status = "idle", !.route = NoRoute, !.index = 1, !.order = NoOrder] =
        Row(p, "idle", NoRoute, 1, NoOrder)
  BY <1>4, <1>5, <1>6, <1>7, <1>8
<1>10. WithStatus(v, e) = [v EXCEPT !.drivers[d] = Row(p, "idle", NoRoute, 1, NoOrder)]
  BY <1>3, <1>9
<1> QED BY <1>2, <1>10, ViewPut DEF e

\* A status change to any status but idle.
LEMMA ApplyBusy ==
  ASSUME NEW n, NEW v \in View(n), NEW d \in Driver, NEW st \in {"en_route_to_pickup", "delivering"},
         NEW p, NEW s, NEW t, NEW i, NEW o \in 1..n, v.drivers[d] = Row(p, s, t, i, o)
  PROVE  Apply(v, StatusChanged(d, st)) =
           Put(v, d, Row(p, st, t, i, o),
               IF st = "delivering" THEN Stage(v.orders, o, "en_route") ELSE v.orders)
<1> DEFINE e == StatusChanged(d, st)
<1>1. e.type = "driver.status.changed" /\ e.driver = d /\ e.status = st
  BY DEF StatusChanged
<1> HIDE DEF e
<1>2. Apply(v, e) = WithStatus(v, e)
  BY <1>1 DEF Apply
<1>3. v.drivers[d].order = o /\ o # NoOrder
  BY DEF Row, NoOrder
<1> DEFINE on == [v.drivers[d] EXCEPT !.status = st]
           os == Stage(v.orders, o, "en_route")
<1>4. on = Row(p, st, t, i, o)
  BY DEF Row
<1>5. CASE st = "delivering"
  <2>1. WithStatus(v, e) = [v EXCEPT !.drivers[d].status = st, !.orders[o].status = "en_route"]
    BY <1>1, <1>3, <1>5 DEF WithStatus
  <2>2. [v EXCEPT !.drivers[d].status = st, !.orders[o].status = "en_route"]
        = [[v EXCEPT !.drivers[d] = on] EXCEPT !.orders = os]
    BY DEF View, Stage
  <2> HIDE DEF on, os
  <2>3. [v EXCEPT !.drivers[d] = on] = Put(v, d, on, v.orders)
    BY ViewPut
  <2>4. [Put(v, d, on, v.orders) EXCEPT !.orders = os] = Put(v, d, on, os)
    BY DEF Put
  <2>5. WithStatus(v, e) = Put(v, d, on, os)
    BY <2>1, <2>2, <2>3, <2>4
  <2> QED BY <1>2, <1>4, <1>5, <2>5 DEF e, os
<1>6. CASE st # "delivering"
  <2>1. WithStatus(v, e) = [v EXCEPT !.drivers[d].status = st]
    BY <1>1, <1>6 DEF WithStatus
  <2>2. [v EXCEPT !.drivers[d].status = st] = [v EXCEPT !.drivers[d] = on]
    OBVIOUS
  <2> HIDE DEF on
  <2>3. WithStatus(v, e) = Put(v, d, on, v.orders)
    BY <2>1, <2>2, ViewPut
  <2> QED BY <1>2, <1>4, <1>6, <2>3 DEF e
<1> QED BY <1>5, <1>6

\* An order turned away, or delivered.
LEMMA ApplyOutcomes ==
  ASSUME NEW n, NEW v \in View(n), NEW o \in 1..n, NEW d \in Driver
  PROVE  /\ Apply(v, Unassignable(o)) = Put(v, d, v.drivers[d], Stage(v.orders, o, "unassignable"))
         /\ Apply(v, Delivered(o))    = Put(v, d, v.drivers[d], Stage(v.orders, o, "delivered"))
<1>1. \A st : [v EXCEPT !.orders[o].status = st] = [v EXCEPT !.orders = Stage(v.orders, o, st)]
  BY DEF Stage
<1>2. Apply(v, Unassignable(o)) = [v EXCEPT !.orders[o].status = "unassignable"]
  BY DEF Apply, Unassignable
<1>3. Apply(v, Delivered(o)) = [v EXCEPT !.orders[o].status = "delivered"]
  BY DEF Apply, Delivered
<1>4. \A st : [v EXCEPT !.orders = Stage(v.orders, o, st)] = Put(v, d, v.drivers[d], Stage(v.orders, o, st))
  <2> TAKE st
  <2> DEFINE os == Stage(v.orders, o, st)
  <2> HIDE DEF os
  <2>1. [v EXCEPT !.orders = os] = Put(v, d, v.drivers[d], os)
    BY ViewOrders
  <2> QED BY <2>1 DEF os
<1>5. Apply(v, Unassignable(o)) = Put(v, d, v.drivers[d], Stage(v.orders, o, "unassignable"))
  BY <1>1, <1>2, <1>4
<1>6. Apply(v, Delivered(o)) = Put(v, d, v.drivers[d], Stage(v.orders, o, "delivered"))
  BY <1>1, <1>3, <1>4
<1> QED BY <1>5, <1>6

\* A driver at a node: the index moves on if the route leads there next.
LEMMA ApplyPosition ==
  ASSUME NEW n, NEW v \in View(n), NEW d \in Driver, NEW node,
         NEW p, NEW s, NEW t, NEW i, NEW o, v.drivers[d] = Row(p, s, t, i, o)
  PROVE  Apply(v, PositionUpdate(d, node)) =
           Put(v, d, Row(node, s, t, IF i + 1 <= Len(t) /\ t[i+1] = node THEN i + 1 ELSE i, o), v.orders)
<1> DEFINE r == v.drivers[d]
           k == IF i + 1 <= Len(t) /\ t[i+1] = node THEN i + 1 ELSE i
<1>1. Apply(v, PositionUpdate(d, node)) = [v EXCEPT !.drivers[d] = Advanced(r, node)]
  BY DEF Apply, PositionUpdate
<1>2. r.index = i /\ r.route = t
  BY DEF Row
<1>3. Advanced(r, node) = IF i + 1 <= Len(t) /\ t[i+1] = node
                          THEN [[r EXCEPT !.pos = node] EXCEPT !.index = i + 1]
                          ELSE [r EXCEPT !.pos = node]
  BY <1>2 DEF Advanced
<1>4. [r EXCEPT !.pos = node] = Row(node, s, t, i, o)
  BY DEF Row
<1>5. [Row(node, s, t, i, o) EXCEPT !.index = k] = Row(node, s, t, k, o)
  BY DEF Row
<1>6. Advanced(r, node) = Row(node, s, t, k, o)
  BY <1>3, <1>4, <1>5
<1>7. Apply(v, PositionUpdate(d, node)) = [v EXCEPT !.drivers[d] = Row(node, s, t, k, o)]
  BY <1>1, <1>6
<1> QED BY <1>7, ViewPut

-----------------------------------------------------------------------------
(***************************************************************************)
(* What the fold has after a step: the actor's state, with indexes k of its *)
(* own that are not ahead of the drivers ds.                                *)
(***************************************************************************)
Behind(k, ds) ==
  /\ k \in [Driver -> Nat \ {0}]
  /\ \A d \in Driver : k[d] <= ds[d].index /\ (ds[d].index = 1 => k[d] = 1)

\* The events e bring the fold from the world w to the world v.
Carries(w, e, v, k, closed, pause) ==
  \E j : /\ Behind(j, v.drivers)
         /\ FoldsTo(Seen(k, w.drivers, w.orders, closed, pause), e,
                    Seen(j, v.drivers, v.orders, closed, pause))

Known(n, k, ds, os, closed, pause) ==
  /\ ds \in [Driver -> DriverRecord]
  /\ os \in [1..n -> OrderRecord]
  /\ k \in [Driver -> Nat \ {0}]
  /\ closed \in SUBSET Road
  /\ pause \in BOOLEAN

\* What the fold has of the actor is a view.
LEMMA SeenView ==
  ASSUME NEW n, NEW k, NEW ds, NEW os, NEW closed, NEW pause, Known(n, k, ds, os, closed, pause)
  PROVE  /\ Seen(k, ds, os, closed, pause) \in View(n)
         /\ Seen(k, ds, os, closed, pause).orders = os
         /\ \A d \in Driver : Seen(k, ds, os, closed, pause).drivers[d] = RowOf(k[d], ds[d])
<1> USE DEF Known
<1>1. ASSUME NEW d \in Driver PROVE RowOf(k[d], ds[d]) \in RowRecord
  <2>1. ds[d] \in DriverRecord /\ k[d] \in Nat \ {0}
    OBVIOUS
  <2> QED BY <2>1 DEF RowOf, Row, RowRecord, DriverRecord
<1> QED BY <1>1 DEF Seen, View

\* A change of one driver and of the orders is a change of its row.
LEMMA SeenPut ==
  ASSUME NEW n, NEW k, NEW ds, NEW os, NEW closed, NEW pause, Known(n, k, ds, os, closed, pause),
         NEW d \in Driver, NEW j, NEW c, NEW ps
  PROVE  Put(Seen(k, ds, os, closed, pause), d, RowOf(j, c), ps) =
           Seen([k EXCEPT ![d] = j], [ds EXCEPT ![d] = c], ps, closed, pause)
<1> USE DEF Known
<1> DEFINE rows == [e \in Driver |-> RowOf(k[e], ds[e])]
           kk == [k EXCEPT ![d] = j]
           cc == [ds EXCEPT ![d] = c]
<1>1. [rows EXCEPT ![d] = RowOf(j, c)] = [e \in Driver |-> RowOf(kk[e], cc[e])]
  OBVIOUS
<1> QED BY <1>1 DEF Seen, Put

\* The orders os with order o given to driver d.
Booked(os, o, d) == [os EXCEPT ![o].status = "assigned", ![o].driver = d]

Given(os, o, d, st) == [os EXCEPT ![o] = [os[o] EXCEPT !.driver = d, !.status = st]]

\* Booking an order, and then sending it on its way.
LEMMA BookedOrders ==
  ASSUME NEW n, NEW os \in [1..n -> OrderRecord], NEW o \in 1..n, NEW d \in Driver
  PROVE  /\ Booked(os, o, d) \in [1..n -> OrderRecord]
         /\ Booked(os, o, d) = Given(os, o, d, "assigned")
         /\ Stage(Booked(os, o, d), o, "en_route") = Given(os, o, d, "en_route")
<1> DEFINE a == [os[o] EXCEPT !.driver = d, !.status = "assigned"]
           b == [os[o] EXCEPT !.driver = d, !.status = "en_route"]
<1>1. os[o] \in OrderRecord
  OBVIOUS
<1>2. a \in OrderRecord /\ [a EXCEPT !.status = "en_route"] = b
  BY <1>1 DEF OrderRecord, OrderStatus
<1>3. [os[o] EXCEPT !.status = "assigned", !.driver = d] = a
  BY <1>1 DEF OrderRecord
<1>4. Booked(os, o, d) = [os EXCEPT ![o] = [os[o] EXCEPT !.status = "assigned", !.driver = d]]
  BY DEF Booked
<1>5. Booked(os, o, d) = [os EXCEPT ![o] = a]
  BY <1>3, <1>4
<1> HIDE DEF a, b
<1>6. Stage([os EXCEPT ![o] = a], o, "en_route") = [os EXCEPT ![o] = b]
  BY <1>2 DEF Stage
<1>7. [os EXCEPT ![o] = a] \in [1..n -> OrderRecord]
  BY <1>2
<1> QED BY <1>5, <1>6, <1>7 DEF a, b, Given

\* An order turned away: the fold turns it away too.
LEMMA RejectFolds ==
  ASSUME NEW n \in 0..MaxOrders, NEW w \in Good(n), NEW o \in 1..n,
         NEW k, Behind(k, w.drivers), NEW closed \in SUBSET Road, NEW pause \in BOOLEAN
  PROVE  /\ Reject(w, o).orders[o].status = "unassignable"
         /\ Carries(w, <<Unassignable(o)>>, Reject(w, o), k, closed, pause)
<1> DEFINE v == Reject(w, o)
           u == Seen(k, w.drivers, w.orders, closed, pause)
           os == Stage(w.orders, o, "unassignable")
<1>1. w.drivers \in [Driver -> DriverRecord] /\ w.orders \in [1..n -> OrderRecord] /\ w \in Typed(n)
  BY GoodWorld
<1>2. v.drivers = w.drivers /\ v.orders = os
  BY <1>1 DEF Reject, Stage, Typed
<1>3. os[o].status = "unassignable"
  BY <1>1 DEF Stage, OrderRecord
<1>4. PICK d \in Driver : TRUE
  <2>1. 1 \in Driver
    BY SimulationAssumption DEF Driver
  <2> QED BY <2>1
<1>5. Known(n, k, w.drivers, w.orders, closed, pause)
  BY <1>1 DEF Known, Behind
<1>6. u \in View(n) /\ u.orders = w.orders /\ u.drivers[d] = RowOf(k[d], w.drivers[d])
  BY <1>5, SeenView
<1>7. Apply(u, Unassignable(o)) = Put(u, d, u.drivers[d], os)
  BY <1>6, ApplyOutcomes
<1>8. Put(u, d, u.drivers[d], os) = Seen(k, w.drivers, os, closed, pause)
  <2>1. [k EXCEPT ![d] = k[d]] = k /\ [w.drivers EXCEPT ![d] = w.drivers[d]] = w.drivers
    BY <1>5 DEF Known
  <2>2. Put(u, d, RowOf(k[d], w.drivers[d]), os) =
          Seen([k EXCEPT ![d] = k[d]], [w.drivers EXCEPT ![d] = w.drivers[d]], os, closed, pause)
    <3> HIDE DEF os
    <3> QED BY <1>5, SeenPut
  <2> QED BY <1>6, <2>1, <2>2
<1>9. FoldsTo(u, <<Unassignable(o)>>, Apply(u, Unassignable(o)))
  BY FoldsOne
<1> HIDE DEF os, v
<1>10. FoldsTo(u, <<Unassignable(o)>>, Seen(k, v.drivers, v.orders, closed, pause))
  BY <1>2, <1>7, <1>8, <1>9
<1>11. Carries(w, <<Unassignable(o)>>, v, k, closed, pause)
  BY <1>2, <1>10 DEF Carries
<1> QED BY <1>2, <1>3, <1>11 DEF v

\* Two events.
LEMMA FoldsTwo ==
  ASSUME NEW v, NEW a, NEW b
  PROVE  FoldsTo(v, <<a, b>>, Apply(Apply(v, a), b))
<1>1. FoldsTo(v, Append(<<a>>, b), Apply(Apply(v, a), b))
  BY FoldsOne, FoldsNext
<1>2. Append(<<a>>, b) = <<a, b>>
  <2> DEFINE S == {a, b}
             s == Append(<<a>>, b)
             t == <<a, b>>
  <2>1. <<a>> \in Seq(S) /\ Len(<<a>>) = 1 /\ <<a>>[1] = a
    OBVIOUS
  <2>2. t \in Seq(S) /\ Len(t) = 2 /\ t[1] = a /\ t[2] = b
    OBVIOUS
  <2>3. b \in S
    OBVIOUS
  <2> HIDE DEF S, t
  <2>4. s \in Seq(S) /\ Len(s) = 2 /\ s[1] = a /\ s[2] = b
    BY <2>1, <2>3, AppendProperties
  <2> HIDE DEF s
  <2>5. s = t
    BY <2>2, <2>4, SeqEqual
  <2> QED BY <2>5 DEF s, t
<1> QED BY <1>1, <1>2

\* Three events.
LEMMA FoldsThree ==
  ASSUME NEW v, NEW a, NEW b, NEW c
  PROVE  FoldsTo(v, <<a, b, c>>, Apply(Apply(Apply(v, a), b), c))
<1>1. FoldsTo(v, Append(<<a, b>>, c), Apply(Apply(Apply(v, a), b), c))
  BY FoldsTwo, FoldsNext
<1>2. Append(<<a, b>>, c) = <<a, b, c>>
  <2> DEFINE S == {a, b, c}
             s == Append(<<a, b>>, c)
             t == <<a, b, c>>
  <2>1. <<a, b>> \in Seq(S) /\ Len(<<a, b>>) = 2 /\ <<a, b>>[1] = a /\ <<a, b>>[2] = b
    OBVIOUS
  <2>2. t \in Seq(S) /\ Len(t) = 3 /\ t[1] = a /\ t[2] = b /\ t[3] = c
    OBVIOUS
  <2>3. c \in S
    OBVIOUS
  <2> HIDE DEF S, t
  <2>4. s \in Seq(S) /\ Len(s) = 3 /\ s[1] = a /\ s[2] = b /\ s[3] = c
    BY <2>1, <2>3, AppendProperties
  <2> HIDE DEF s
  <2>5. s = t
    BY <2>2, <2>4, SeqEqual
  <2> QED BY <2>5 DEF s, t
<1> QED BY <1>1, <1>2

\* An order given to a driver: the route, the order and the new status of the
\* driver are what its three events say.
LEMMA GivenFolds ==
  ASSUME NEW n \in 0..MaxOrders, NEW u \in View(n), NEW o \in 1..n, NEW d \in Driver,
         NEW p \in Node, NEW t \in Seq(Node), NEW i \in Nat \ {0}, NEW q \in 0..MaxOrders,
         u.drivers[d] = Row(p, "idle", t, i, q),
         NEW route \in Seq(Node), NEW st \in {"en_route_to_pickup", "delivering"}
  PROVE  FoldsTo(u, <<Computed(d, route), Assigned(o, d), StatusChanged(d, st)>>,
           Put(u, d, Row(p, st, route, 1, o),
               Given(u.orders, o, d, IF st = "delivering" THEN "en_route" ELSE "assigned")))
<1> DEFINE r1 == Row(p, "idle", route, 1, q)
           r2 == Row(p, "idle", route, 1, o)
           r3 == Row(p, st, route, 1, o)
           os == Booked(u.orders, o, d)
           u1 == Put(u, d, r1, u.orders)
           u2 == Put(u, d, r2, os)
           u3 == Put(u, d, r3, IF st = "delivering" THEN Stage(os, o, "en_route") ELSE os)
<1>1. u.orders \in [1..n -> OrderRecord]
  BY ViewFields
<1>2. os \in [1..n -> OrderRecord]
  BY <1>1, BookedOrders
<1>3. r1 \in RowRecord /\ r2 \in RowRecord
  <2>1. "idle" \in DriverStatus /\ 1 \in Nat \ {0} /\ o \in 0..MaxOrders
    BY SimulationAssumption DEF DriverStatus
  <2> QED BY <2>1, RowTyped
<1>4. Apply(u, Computed(d, route)) = u1
  BY ApplyComputed
<1>5. /\ u1 \in View(n) /\ u1.drivers[d] = r1 /\ u1.orders = u.orders
      /\ \A s, x : Put(u1, d, s, x) = Put(u, d, s, x)
  <2> HIDE DEF r1
  <2> QED BY <1>1, <1>3, PutFields
<1>6. Apply(u1, Assigned(o, d)) = Put(u1, d, r2, Booked(u1.orders, o, d))
  <2> HIDE DEF u1
  <2> QED BY <1>5, ApplyAssigned DEF Booked
<1>7. Apply(u1, Assigned(o, d)) = u2
  <2> HIDE DEF u1, r2
  <2> QED BY <1>5, <1>6
<1>8. /\ u2 \in View(n) /\ u2.drivers[d] = r2 /\ u2.orders = os
      /\ \A s, x : Put(u2, d, s, x) = Put(u, d, s, x)
  <2> HIDE DEF r2, os
  <2> QED BY <1>2, <1>3, PutFields
<1>9. Apply(u2, StatusChanged(d, st)) =
        Put(u2, d, r3, IF st = "delivering" THEN Stage(u2.orders, o, "en_route") ELSE u2.orders)
  <2> HIDE DEF u2
  <2> QED BY <1>8, ApplyBusy
<1>10. Apply(u2, StatusChanged(d, st)) = u3
  <2> HIDE DEF u2, r3, os
  <2> QED BY <1>8, <1>9
<1>11. FoldsTo(u, <<Computed(d, route), Assigned(o, d), StatusChanged(d, st)>>, u3)
  <2> HIDE DEF u1, u2, u3
  <2> QED BY <1>4, <1>7, <1>10, FoldsThree
<1>12. (IF st = "delivering" THEN Stage(os, o, "en_route") ELSE os) =
         Given(u.orders, o, d, IF st = "delivering" THEN "en_route" ELSE "assigned")
  <2> DEFINE ps == u.orders
  <2>1. os = Booked(ps, o, d) /\ ps \in [1..n -> OrderRecord]
    BY <1>1
  <2> HIDE DEF os, ps
  <2>2. /\ Booked(ps, o, d) = Given(ps, o, d, "assigned")
        /\ Stage(Booked(ps, o, d), o, "en_route") = Given(ps, o, d, "en_route")
    BY <2>1, BookedOrders
  <2>3. CASE st = "delivering"
    BY <2>1, <2>2, <2>3 DEF ps
  <2>4. CASE st # "delivering"
    BY <2>1, <2>2, <2>4 DEF ps
  <2> QED BY <2>3, <2>4
<1> HIDE DEF os, r3
<1> QED BY <1>11, <1>12 DEF r3

\* applyAssignment.
LEMMA ApplyFolds ==
  ASSUME NEW n \in 0..MaxOrders, NEW w \in Good(n), NEW o \in 1..n,
         w.orders[o].status = "pending",
         NEW d \in Driver, w.drivers[d].status = "idle",
         NEW k, Behind(k, w.drivers), NEW closed \in SUBSET Road, NEW pause \in BOOLEAN
  PROVE  Carries(w, AssignEvents(ApplyAssignment(w, o, d), o), ApplyAssignment(w, o, d),
                 k, closed, pause)
<1> DEFINE pickup   == w.orders[o].pickup
           toDest   == FindRoute(shut, pickup, w.orders[o].dest)
           toPickup == FindRoute(shut, w.drivers[d].pos, pickup)
           route    == toPickup \o Tail(toDest)
           at       == w.drivers[d].pos = pickup
           st       == IF at THEN "delivering" ELSE "en_route_to_pickup"
           v        == ApplyAssignment(w, o, d)
           c        == [status |-> st, pos |-> w.drivers[d].pos, route |-> route, index |-> 1,
                        progress |-> w.drivers[d].progress, order |-> o]
           b        == [w.orders[o] EXCEPT !.driver = d, !.status = IF at THEN "en_route" ELSE "assigned"]
           u        == Seen(k, w.drivers, w.orders, closed, pause)
<1>1. CASE toDest = NoRoute
  <2>1. v = Reject(w, o)
    BY <1>1 DEF ApplyAssignment
  <2>2. v.orders[o].status = "unassignable" /\ Carries(w, <<Unassignable(o)>>, v, k, closed, pause)
    BY <2>1, RejectFolds
  <2>3. AssignEvents(v, o) = <<Unassignable(o)>>
    <3> HIDE DEF v
    <3> QED BY <2>2 DEF AssignEvents
  <2> QED BY <2>2, <2>3
<1>2. CASE toDest # NoRoute
  <2>1. w.drivers \in [Driver -> DriverRecord] /\ w.orders \in [1..n -> OrderRecord]
    BY GoodWorld
  <2>2. /\ pickup \in Node /\ w.orders[o].dest \in Node /\ w.drivers[d].pos \in Node
        /\ w.drivers[d].route \in Seq(Node) /\ w.drivers[d].order \in 0..MaxOrders
    BY <2>1 DEF OrderRecord, DriverRecord
  <2>3. route \in Seq(Node)
    BY <1>2, <2>2, RouteType, JoinType
  <2>4. v.drivers = [w.drivers EXCEPT ![d] = c] /\ v.orders = [w.orders EXCEPT ![o] = b]
    BY <1>2 DEF ApplyAssignment
  <2>5. Known(n, k, w.drivers, w.orders, closed, pause)
    BY <2>1 DEF Known, Behind
  <2> HIDE DEF v
  <2>6. /\ u \in View(n) /\ u.orders = w.orders
        /\ u.drivers[d] = RowOf(k[d], w.drivers[d])
    BY <2>5, SeenView
  <2>7. k[d] \in Nat \ {0} /\ k \in [Driver -> Nat \ {0}]
    BY DEF Behind
  <2>8. RowOf(k[d], w.drivers[d]) =
          Row(w.drivers[d].pos, "idle", w.drivers[d].route, k[d], w.drivers[d].order)
    BY DEF RowOf
  <2>9. RowOf(1, c) = Row(w.drivers[d].pos, st, route, 1, o)
    BY DEF RowOf
  <2>10. [w.orders EXCEPT ![o] = b] =
           Given(w.orders, o, d, IF st = "delivering" THEN "en_route" ELSE "assigned")
    BY DEF Given
  <2>11. v.orders[o].driver = d /\ v.orders[o].status \in {"en_route", "assigned"}
    BY <2>1, <2>4 DEF OrderRecord
  <2>12. v.drivers[d].route = route /\ v.drivers[d].status = st
    <3> HIDE DEF route, st
    <3>1. c.route = route /\ c.status = st
      OBVIOUS
    <3> HIDE DEF c
    <3> QED BY <2>1, <2>4, <3>1
  <2>13. st \in {"en_route_to_pickup", "delivering"}
    OBVIOUS
  <2> HIDE DEF route, st, pickup
  <2>14. AssignEvents(v, o) = <<Computed(d, route), Assigned(o, d), StatusChanged(d, st)>>
    BY <2>11, <2>12 DEF AssignEvents
  <2> DEFINE es == <<Computed(d, route), Assigned(o, d), StatusChanged(d, st)>>
             os == [w.orders EXCEPT ![o] = b]
  <2>15. FoldsTo(u, es, Put(u, d, Row(w.drivers[d].pos, st, route, 1, o),
               Given(u.orders, o, d, IF st = "delivering" THEN "en_route" ELSE "assigned")))
    <3> HIDE DEF u, es
    <3>1. u.drivers[d] = Row(w.drivers[d].pos, "idle", w.drivers[d].route, k[d], w.drivers[d].order)
      BY <2>6, <2>8
    <3> QED BY <2>2, <2>3, <2>6, <2>7, <2>13, <3>1, GivenFolds DEF es
  <2> HIDE DEF b, c, u, es
  <2>16. FoldsTo(u, es, Put(u, d, RowOf(1, c), os))
    BY <2>6, <2>9, <2>10, <2>15
  <2> HIDE DEF os
  <2>17. Put(u, d, RowOf(1, c), os) =
           Seen([k EXCEPT ![d] = 1], [w.drivers EXCEPT ![d] = c], os, closed, pause)
    BY <2>5, SeenPut DEF u
  <2>18. FoldsTo(u, es, Seen([k EXCEPT ![d] = 1], v.drivers, v.orders, closed, pause))
    BY <2>4, <2>16, <2>17 DEF os
  <2>19. Behind([k EXCEPT ![d] = 1], v.drivers)
    <3>1. c.index = 1
      BY DEF c
    <3>2. \A e \in Driver : k[e] <= w.drivers[e].index /\ (w.drivers[e].index = 1 => k[e] = 1)
      BY DEF Behind
    <3> QED BY <2>1, <2>4, <2>7, <3>1, <3>2 DEF Behind
  <2> QED BY <2>14, <2>18, <2>19 DEF Carries, u, es, v
<1> QED BY <1>1, <1>2

\* assignBaseline.
LEMMA AssignFolds ==
  ASSUME NEW n \in 0..MaxOrders, NEW w \in Good(n), NEW o \in 1..n,
         w.orders[o].status = "pending",
         NEW k, Behind(k, w.drivers), NEW closed \in SUBSET Road, NEW pause \in BOOLEAN
  PROVE  Carries(w, AssignEvents(AssignBaseline(w, o), o), AssignBaseline(w, o), k, closed, pause)
<1> DEFINE pickup == w.orders[o].pickup
           v      == AssignBaseline(w, o)
<1>1. CASE Candidates(w, pickup) # {}
  <2>1. pickup \in Node
    BY GoodWorld DEF OrderRecord
  <2>2. Nearest(w, pickup) \in Candidates(w, pickup)
    BY <1>1, <2>1, NearestType
  <2>3. Nearest(w, pickup) \in Driver /\ w.drivers[Nearest(w, pickup)].status = "idle"
    BY <2>2 DEF Candidates, IdleDrivers
  <2>4. v = ApplyAssignment(w, o, Nearest(w, pickup))
    BY <1>1 DEF AssignBaseline
  <2> HIDE DEF v, pickup
  <2>5. Carries(w, AssignEvents(v, o), v, k, closed, pause)
    BY <2>3, <2>4, ApplyFolds
  <2> QED BY <2>5 DEF v
<1>2. CASE Candidates(w, pickup) = {} /\ IdleDrivers(w) # {}
  <2>1. v = Reject(w, o)
    BY <1>2 DEF AssignBaseline
  <2>2. v.orders[o].status = "unassignable" /\ Carries(w, <<Unassignable(o)>>, v, k, closed, pause)
    BY <2>1, RejectFolds
  <2> HIDE DEF v
  <2>3. AssignEvents(v, o) = <<Unassignable(o)>>
    BY <2>2 DEF AssignEvents
  <2> QED BY <2>2, <2>3 DEF v
<1>3. CASE Candidates(w, pickup) = {} /\ IdleDrivers(w) = {}
  <2>1. w \in Typed(n)
    BY GoodWorld
  <2>2. v = [w EXCEPT !.queue = Append(@, o)]
    BY <1>3 DEF AssignBaseline
  <2>3. v.drivers = w.drivers /\ v.orders = w.orders
    BY <2>1, <2>2 DEF Typed
  <2> HIDE DEF v
  <2>4. AssignEvents(v, o) = <<>>
    BY <2>3 DEF AssignEvents
  <2>5. FoldsTo(Seen(k, w.drivers, w.orders, closed, pause), <<>>,
                Seen(k, v.drivers, v.orders, closed, pause))
    BY <2>3, FoldsNone
  <2>6. Carries(w, AssignEvents(v, o), v, k, closed, pause)
    BY <2>3, <2>4, <2>5 DEF Carries
  <2> QED BY <2>6 DEF v
<1> QED BY <1>1, <1>2, <1>3

\* What carries the fold on from where it has been carried.
LEMMA CarriesOn ==
  ASSUME NEW w, NEW e, NEW v, NEW f, NEW u, NEW k, NEW closed, NEW pause,
         Carries(w, e, v, k, closed, pause),
         \A j : Behind(j, v.drivers) => Carries(v, f, u, j, closed, pause)
  PROVE  Carries(w, e \o f, u, k, closed, pause)
<1>1. PICK j : /\ Behind(j, v.drivers)
               /\ FoldsTo(Seen(k, w.drivers, w.orders, closed, pause), e,
                          Seen(j, v.drivers, v.orders, closed, pause))
  BY DEF Carries
<1>2. PICK i : /\ Behind(i, u.drivers)
               /\ FoldsTo(Seen(j, v.drivers, v.orders, closed, pause), f,
                          Seen(i, u.drivers, u.orders, closed, pause))
  BY <1>1 DEF Carries
<1>3. FoldsTo(Seen(k, w.drivers, w.orders, closed, pause), e \o f,
              Seen(i, u.drivers, u.orders, closed, pause))
  BY <1>1, <1>2, FoldsOn
<1> QED BY <1>2, <1>3 DEF Carries

\* No event carries the fold nowhere.
LEMMA CarriesNone ==
  ASSUME NEW w, NEW v, NEW k, NEW closed, NEW pause, Behind(k, w.drivers),
         v.drivers = w.drivers, v.orders = w.orders
  PROVE  Carries(w, <<>>, v, k, closed, pause)
<1>1. FoldsTo(Seen(k, w.drivers, w.orders, closed, pause), <<>>,
              Seen(k, v.drivers, v.orders, closed, pause))
  BY FoldsNone
<1> QED BY <1>1 DEF Carries

\* The events a driver and an order can be in.
Event(n) ==
  {Assigned(o, d) : o \in 1..n, d \in Driver}
  \union {Unassignable(o) : o \in 1..n}
  \union {Delivered(o) : o \in 1..n}
  \union {Computed(d, t) : d \in Driver, t \in Seq(Node)}
  \union {StatusChanged(d, st) : d \in Driver, st \in DriverStatus}

\* The events of an assignment are events.
LEMMA AssignEventsTyped ==
  ASSUME NEW n \in 0..MaxOrders, NEW v \in Good(n), NEW o \in 1..n,
         v.orders[o].status \in {"pending", "unassignable"} \/ v.orders[o].driver \in Driver
  PROVE  AssignEvents(v, o) \in Seq(Event(n))
<1> DEFINE d == v.orders[o].driver
<1>1. CASE v.orders[o].status = "unassignable"
  <2>1. Unassignable(o) \in Event(n)
    BY DEF Event
  <2>2. AssignEvents(v, o) = <<Unassignable(o)>>
    BY <1>1 DEF AssignEvents
  <2> QED BY <2>1, <2>2
<1>2. CASE v.orders[o].status = "pending"
  <2>1. AssignEvents(v, o) = <<>>
    BY <1>2 DEF AssignEvents
  <2> QED BY <2>1
<1>3. CASE v.orders[o].status \notin {"pending", "unassignable"}
  <2>1. d \in Driver
    BY <1>3
  <2>2. v.drivers[d] \in DriverRecord
    BY <2>1, GoodWorld
  <2>3. v.drivers[d].route \in Seq(Node) /\ v.drivers[d].status \in DriverStatus
    BY <2>2 DEF DriverRecord
  <2>4. AssignEvents(v, o) =
          <<Computed(d, v.drivers[d].route), Assigned(o, d), StatusChanged(d, v.drivers[d].status)>>
    BY <1>3 DEF AssignEvents
  <2> HIDE DEF d
  <2>5. /\ Computed(d, v.drivers[d].route) \in Event(n) /\ Assigned(o, d) \in Event(n)
        /\ StatusChanged(d, v.drivers[d].status) \in Event(n)
    BY <2>1, <2>3 DEF Event
  <2> QED BY <2>4, <2>5
<1> QED BY <1>1, <1>2, <1>3

\* retryPendingBaseline.
LEMMA RetryFolds ==
  ASSUME NEW n \in 0..MaxOrders, NEW w \in Good(n),
         NEW k, Behind(k, w.drivers), NEW closed \in SUBSET Road, NEW pause \in BOOLEAN
  PROVE  Carries(w, RetryEvents(w), RetryPending(w), k, closed, pause)
<1> DEFINE Offer(a, o) ==
             LET v == AssignBaseline(a.world, o)
             IN  IF a.world.orders[o].status # "pending" THEN a
                 ELSE [world |-> v, events |-> a.events \o AssignEvents(v, o)]
           S    == {a \in [world : Good(n), events : Seq(Event(n))] :
                      Carries(w, a.events, a.world, k, closed, pause)}
           Q    == 1..n
           F    == [x \in S \X Q |-> Offer(x[1], x[2])]
           init == [world |-> [w EXCEPT !.queue = <<>>], events |-> <<>>]
           q    == w.queue
           acc  == CHOOSE g : g = [i \in 0..Len(q) |-> IF i = 0 THEN init ELSE Offer(g[i-1], q[i])]
<1>1. CASE w.queue = <<>> \/ IdleDrivers(w) = {}
  <2>1. RetryEvents(w) = <<>> /\ RetryPending(w) = w
    BY <1>1 DEF RetryEvents, RetryPending
  <2> QED BY <2>1, CarriesNone
<1>2. CASE ~(w.queue = <<>> \/ IdleDrivers(w) = {})
  <2>1. RetryEvents(w) = acc[Len(q)].events
    BY <1>2 DEF RetryEvents, Iterate
  <2>2. PICK run : IsRetry(run, n, w) /\ RetryPending(w) = run[Len(q)]
    BY <1>2, RetryRun
  <2>3. init \in S /\ q \in Seq(Q)
    <3>1. w \in Typed(n) /\ q \in Seq(Q)
      BY GoodWorld
    <3>2. [w EXCEPT !.queue = <<>>] \in Good(n)
      BY EmptiedGood
    <3>3. /\ [w EXCEPT !.queue = <<>>].drivers = w.drivers
          /\ [w EXCEPT !.queue = <<>>].orders = w.orders
      BY <3>1 DEF Typed
    <3> DEFINE e == [w EXCEPT !.queue = <<>>]
    <3> HIDE DEF e
    <3>4. Carries(w, <<>>, e, k, closed, pause)
      BY <3>3, CarriesNone DEF e
    <3> QED BY <3>1, <3>2, <3>4 DEF e
  <2>4. ASSUME NEW a \in S, NEW o \in Q
        PROVE  Offer(a, o) \in S /\ Offer(a, o).world = Offered(a.world, o)
    <3> DEFINE v == AssignBaseline(a.world, o)
    <3>1. /\ a \in [world : Good(n), events : Seq(Event(n))]
          /\ Carries(w, a.events, a.world, k, closed, pause)
      OBVIOUS
    <3> HIDE DEF S
    <3>2. a.world \in Good(n) /\ a.events \in Seq(Event(n))
      BY <3>1
    <3>3. CASE a.world.orders[o].status # "pending"
      BY <3>3 DEF Offered
    <3>4. CASE a.world.orders[o].status = "pending"
      <4>1. v \in Good(n)
        BY <3>2, <3>4, AssignGood
      <4>2. v.orders[o].status \in {"pending", "unassignable"} \/ v.orders[o].driver \in Driver
        <5>2. \/ v.orders[o] = a.world.orders[o]
              \/ v.orders[o].status \in {"unassignable", "en_route", "assigned"}
          BY <3>2, <3>4, AssignOutcome
        <5> HIDE DEF v
        <5>3. v.orders[o].status \in {"en_route", "assigned"} => v.orders[o].driver \in Driver
          BY <4>1, CarriedOrder
        <5> QED BY <3>4, <5>2, <5>3
      <4>3. AssignEvents(v, o) \in Seq(Event(n))
        <5> HIDE DEF v
        <5> QED BY <4>1, <4>2, AssignEventsTyped
      <4>4. \A j : Behind(j, a.world.drivers) =>
                     Carries(a.world, AssignEvents(v, o), v, j, closed, pause)
        BY <3>2, <3>4, AssignFolds
      <4> HIDE DEF v
      <4>5. Carries(w, a.events \o AssignEvents(v, o), v, k, closed, pause)
        BY <3>1, <4>4, CarriesOn
      <4>6. a.events \o AssignEvents(v, o) \in Seq(Event(n))
        BY <3>2, <4>3, ConcatProperties
      <4>7. Offer(a, o) = [world |-> v, events |-> a.events \o AssignEvents(v, o)]
        BY <3>4 DEF v
      <4>8. [world |-> v, events |-> a.events \o AssignEvents(v, o)] \in S
        BY <4>1, <4>5, <4>6 DEF S
      <4>9. Offered(a.world, o) = v
        BY <3>4 DEF Offered, v
      <4> HIDE DEF Offer
      <4> QED BY <4>7, <4>8, <4>9
    <3> QED BY <3>3, <3>4
  <2>5. ASSUME NEW a \in S, NEW o \in Q PROVE F[<<a, o>>] = Offer(a, o)
    <3> HIDE DEF S, Q, Offer
    <3> QED OBVIOUS
  <2>6. Carries(w, acc[Len(q)].events, run[Len(q)], k, closed, pause)
    <3>1. init.world = run[0]
      BY <2>2 DEF IsRetry
    <3>2. \A i \in 1..Len(q) : run[i] = Offered(run[i-1], q[i])
      BY <2>2 DEF IsRetry
    <3>3. \A a \in S : Carries(w, a.events, a.world, k, closed, pause)
      OBVIOUS
    <3> HIDE DEF Offer, init, q, S, Q
    <3>4. \A a \in S, o \in Q : F[<<a, o>>] \in S
      BY <2>4, <2>5
    <3>5. Len(q) \in Nat /\ \A i \in 1..Len(q) : q[i] \in Q
      BY <2>3, LenProperties, ElementOfSeq
    <3> HIDE DEF F
    <3>6. PICK h : IsTypedRun(h, S, F, init, q)
      BY <2>3, <3>4, TypedRun
    <3>7. h \in [0..Len(q) -> S] /\ h[0] = init
      BY <3>6 DEF IsTypedRun
    <3>8. ASSUME NEW i \in 1..Len(q)
          PROVE  h[i] = Offer(h[i-1], q[i]) /\ h[i-1] \in S /\ q[i] \in Q
      <4>1. i-1 \in 0..Len(q) /\ q[i] \in Q
        BY <3>5
      <4>2. h[i-1] \in S /\ h[i] = F[<<h[i-1], q[i]>>]
        BY <3>6, <3>7, <4>1 DEF IsTypedRun
      <4> QED BY <2>5, <4>1, <4>2
    <3>9. ASSUME NEW i \in 0..Len(q)
          PROVE  h[i] = IF i = 0 THEN init ELSE Offer(h[i-1], q[i])
      <4>1. CASE i = 0
        BY <3>7, <4>1
      <4>2. CASE i # 0
        <5>1. i \in 1..Len(q)
          BY <3>5, <4>2
        <5> QED BY <3>8, <4>2, <5>1
      <4> QED BY <4>1, <4>2
    <3>10. h = [i \in 0..Len(q) |-> IF i = 0 THEN init ELSE Offer(h[i-1], q[i])]
      BY <3>7, <3>9
    <3>11. acc = [i \in 0..Len(q) |-> IF i = 0 THEN init ELSE Offer(acc[i-1], q[i])]
      BY <3>10
    <3> HIDE DEF acc
    <3> DEFINE mark == [i \in 0..Len(q) |-> IF acc[i] \in S /\ acc[i].world = run[i] THEN 0 ELSE 1]
               Zero == {0}
    <3>12. mark[0] \in Zero
      <4>1. 0 \in 0..Len(q)
        BY <3>5
      <4>2. acc[0] = init
        BY <3>11, <4>1
      <4> QED BY <2>3, <3>1, <4>1, <4>2
    <3>13. ASSUME NEW i \in 1..Len(q), mark[i-1] \in Zero
           PROVE  mark[i] \in Zero
      <4>1. i-1 \in 0..Len(q) /\ i \in 0..Len(q) /\ i # 0 /\ q[i] \in Q
        BY <3>5
      <4>2. acc[i-1] \in S /\ acc[i-1].world = run[i-1]
        BY <3>13, <4>1
      <4> HIDE DEF mark, Zero
      <4>3. acc[i] = Offer(acc[i-1], q[i])
        BY <3>11, <4>1
      <4>4. acc[i] \in S /\ acc[i].world = run[i]
        BY <2>4, <3>2, <4>1, <4>2, <4>3
      <4> QED BY <4>1, <4>4 DEF mark, Zero
    <3>14. \A i \in 0..Len(q) : mark[i] \in Zero
      <4> HIDE DEF mark, Zero
      <4> QED BY <3>5, <3>12, <3>13, LoopInvariant
    <3>15. Len(q) \in 0..Len(q)
      BY <3>5
    <3>16. acc[Len(q)] \in S /\ acc[Len(q)].world = run[Len(q)]
      BY <3>14, <3>15
    <3> HIDE DEF mark, Zero
    <3> QED BY <3>3, <3>16
  <2> QED BY <2>1, <2>2, <2>6
<1> QED BY <1>1, <1>2

-----------------------------------------------------------------------------
(***************************************************************************)
(* The loops over the drivers: a driver's events change its own row and its *)
(* own order, whatever the drivers before it have done to theirs.           *)
(***************************************************************************)
\* On a view that has row a for driver d and y for its order o, the events e
\* lead to row b and to x.
Leads(n, d, a, b, o, y, x, e) ==
  \A v \in View(n) :
    v.drivers[d] = a /\ (o \in 1..n => v.orders[o] = y)
      => FoldsTo(v, e, Put(v, d, b, [v.orders EXCEPT ![o] = x]))

\* A driver that does nothing.
LEMMA LeadsNowhere ==
  ASSUME NEW n, NEW d \in Driver, NEW a, NEW o, NEW y, NEW x, o \in 1..n => x = y
  PROVE  Leads(n, d, a, a, o, y, x, <<>>)
<1> SUFFICES ASSUME NEW v \in View(n), v.drivers[d] = a, o \in 1..n => v.orders[o] = y
             PROVE  FoldsTo(v, <<>>, Put(v, d, a, [v.orders EXCEPT ![o] = x]))
  BY DEF Leads
<1>1. [v.orders EXCEPT ![o] = x] = v.orders
  BY ViewFields
<1>2. [v.drivers EXCEPT ![d] = a] = v.drivers
  BY ViewFields
<1>3. v = [drivers |-> v.drivers, orders |-> v.orders, shut |-> v.shut, paused |-> v.paused]
  BY ViewFields
<1>4. Put(v, d, a, [v.orders EXCEPT ![o] = x]) = v
  BY <1>1, <1>2, <1>3 DEF Put
<1> QED BY <1>4, FoldsNone

\* From the world w to the world v, driver by driver.
LEMMA EachDriver ==
  ASSUME NEW n, NEW w, NEW v, NEW k, NEW j, NEW closed, NEW pause,
         Known(n, k, w.drivers, w.orders, closed, pause),
         Known(n, j, v.drivers, v.orders, closed, pause),
         NEW E, E = [d \in Driver |-> E[d]],
         \A d \in Driver :
           Leads(n, d, RowOf(k[d], w.drivers[d]), RowOf(j[d], v.drivers[d]),
                 w.drivers[d].order, w.orders[w.drivers[d].order], v.orders[w.drivers[d].order], E[d]),
         \A d, e \in Driver :
           d # e /\ w.drivers[d].order = w.drivers[e].order => w.drivers[d].order \notin 1..n,
         \A o \in 1..n : (\A d \in Driver : w.drivers[d].order # o) => v.orders[o] = w.orders[o]
  PROVE  FoldsTo(Seen(k, w.drivers, w.orders, closed, pause), FlattenSeq(E),
                 Seen(j, v.drivers, v.orders, closed, pause))
<1> DEFINE own(d) == w.drivers[d].order
           a(d) == RowOf(k[d], w.drivers[d])
           b(d) == RowOf(j[d], v.drivers[d])
           rows(i) == [d \in Driver |-> IF d <= i THEN b(d) ELSE a(d)]
           os(i) == [o \in 1..n |-> IF \E d \in Driver : d <= i /\ own(d) = o
                                    THEN v.orders[o] ELSE w.orders[o]]
           h == [i \in 0..DriverCount |->
                   [drivers |-> rows(i), orders |-> os(i), shut |-> closed, paused |-> pause]]
<1>1. DriverCount \in Nat \ {0} /\ Driver = 1..DriverCount
  BY SimulationAssumption DEF Driver
<1>2. \A d \in Driver : a(d) \in RowRecord /\ b(d) \in RowRecord
  <2> TAKE d \in Driver
  <2>1. /\ w.drivers[d] \in DriverRecord /\ k[d] \in Nat \ {0}
        /\ v.drivers[d] \in DriverRecord /\ j[d] \in Nat \ {0}
    BY DEF Known
  <2> QED BY <2>1 DEF RowOf, Row, RowRecord, DriverRecord
<1>3. w.orders \in [1..n -> OrderRecord] /\ v.orders \in [1..n -> OrderRecord]
  BY DEF Known
<1>4. closed \in SUBSET Road /\ pause \in BOOLEAN
  BY DEF Known
<1>5. ASSUME NEW i \in 1..DriverCount
      PROVE  FoldsTo(h[i-1], E[i], h[i])
  <2>1. i \in Driver /\ i-1 \in 0..DriverCount /\ i \in 0..DriverCount
    BY <1>1
  <2>2. /\ h[i-1] = [drivers |-> rows(i-1), orders |-> os(i-1), shut |-> closed, paused |-> pause]
        /\ h[i] = [drivers |-> rows(i), orders |-> os(i), shut |-> closed, paused |-> pause]
    BY <2>1
  <2> HIDE DEF h
  <2>3. rows(i-1) \in [Driver -> RowRecord] /\ os(i-1) \in [1..n -> OrderRecord]
    <3> HIDE DEF a, b, own
    <3> QED BY <1>2, <1>3
  <2>4. rows(i-1)[i] = a(i)
    <3> HIDE DEF a, b
    <3> QED BY <1>1, <2>1
  <2>5. own(i) \in 1..n => os(i-1)[own(i)] = w.orders[own(i)]
    <3> SUFFICES ASSUME own(i) \in 1..n
                 PROVE  os(i-1)[own(i)] = w.orders[own(i)]
      OBVIOUS
    <3>1. ASSUME NEW d \in Driver, d <= i-1 PROVE own(d) # own(i)
      <4>1. d # i
        BY <1>1, <3>1
      <4> QED BY <2>1, <4>1
    <3> HIDE DEF own
    <3> QED BY <3>1
  <2>6. [rows(i-1) EXCEPT ![i] = b(i)] = rows(i)
    <3> HIDE DEF a, b
    <3>1. \A d \in Driver : d <= i <=> (d = i \/ d <= i-1)
      BY <1>1
    <3>2. \A d \in Driver : [rows(i-1) EXCEPT ![i] = b(i)][d] = rows(i)[d]
      BY <2>1, <3>1
    <3> QED BY <3>2
  <2>7. [os(i-1) EXCEPT ![own(i)] = v.orders[own(i)]] = os(i)
    <3>1. ASSUME NEW o \in 1..n
          PROVE  [os(i-1) EXCEPT ![own(i)] = v.orders[own(i)]][o] = os(i)[o]
      <4> HIDE DEF own
      <4>1. CASE own(i) = o
        <5>1. os(i)[o] = v.orders[o]
          BY <1>1, <2>1, <4>1
        <5> QED BY <4>1, <5>1
      <4>2. CASE own(i) # o
        <5>1. (\E d \in Driver : d <= i /\ own(d) = o) <=> (\E d \in Driver : d <= i-1 /\ own(d) = o)
          BY <1>1, <4>2
        <5> QED BY <4>2, <5>1
      <4> QED BY <4>1, <4>2
    <3> QED BY <3>1
  <2> DEFINE u == h[i-1]
             c == rows(i-1)
             ps == os(i-1)
             o == own(i)
  <2>8. u \in View(n) /\ u.drivers = c /\ u.orders = ps /\ u.shut = closed /\ u.paused = pause
    <3> HIDE DEF c, ps
    <3>1. u = [drivers |-> c, orders |-> ps, shut |-> closed, paused |-> pause]
      BY <2>2 DEF c, ps
    <3>2. c \in [Driver -> RowRecord] /\ ps \in [1..n -> OrderRecord]
      BY <2>3 DEF c, ps
    <3> HIDE DEF u
    <3> QED BY <1>4, <3>1, <3>2 DEF View
  <2>9. Leads(n, i, a(i), b(i), o, w.orders[o], v.orders[o], E[i])
    BY <2>1
  <2>10. u.drivers[i] = a(i) /\ (o \in 1..n => u.orders[o] = w.orders[o])
    <3> HIDE DEF u, a
    <3> QED BY <2>4, <2>5, <2>8 DEF c, ps, o
  <2> HIDE DEF u, a, b, o
  <2>11. FoldsTo(u, E[i], Put(u, i, b(i), [u.orders EXCEPT ![o] = v.orders[o]]))
    BY <2>8, <2>9, <2>10 DEF Leads
  <2>12. Put(u, i, b(i), [u.orders EXCEPT ![o] = v.orders[o]]) = h[i]
    <3>1. [u.drivers EXCEPT ![i] = b(i)] = rows(i)
      BY <2>6, <2>8
    <3>2. [u.orders EXCEPT ![o] = v.orders[o]] = os(i)
      BY <2>7, <2>8 DEF o
    <3> HIDE DEF rows, os
    <3> QED BY <2>2, <2>8, <3>1, <3>2 DEF Put
  <2> QED BY <2>11, <2>12 DEF u
<1>6. h[0] = Seen(k, w.drivers, w.orders, closed, pause)
  <2>1. \A d \in Driver : ~(d <= 0)
    BY <1>1
  <2>2. rows(0) = [d \in Driver |-> a(d)]
    <3> HIDE DEF a, b
    <3> QED BY <2>1
  <2>3. os(0) = w.orders
    BY <1>3, <2>1
  <2>4. h[0] = [drivers |-> rows(0), orders |-> os(0), shut |-> closed, paused |-> pause]
    BY <1>1
  <2> HIDE DEF h, rows, os
  <2> QED BY <2>2, <2>3, <2>4 DEF Seen
<1>7. h[DriverCount] = Seen(j, v.drivers, v.orders, closed, pause)
  <2>1. \A d \in Driver : d <= DriverCount
    BY <1>1
  <2>2. rows(DriverCount) = [d \in Driver |-> b(d)]
    <3> HIDE DEF a, b
    <3> QED BY <2>1
  <2>3. os(DriverCount) = v.orders
    <3>1. \A o \in 1..n : os(DriverCount)[o] = v.orders[o]
      BY <1>3, <2>1
    <3> QED BY <1>3, <3>1
  <2>4. h[DriverCount] = [drivers |-> rows(DriverCount), orders |-> os(DriverCount),
                          shut |-> closed, paused |-> pause]
    BY <1>1
  <2> HIDE DEF h, rows, os
  <2> QED BY <2>2, <2>3, <2>4 DEF Seen
<1> HIDE DEF h
<1>8. FoldsTo(h[0], FlattenSeq(E), h[DriverCount])
  BY <1>1, <1>5, FlattenFolds
<1> QED BY <1>6, <1>7, <1>8

-----------------------------------------------------------------------------
(***************************************************************************)
(* moveDriver.                                                              *)
(***************************************************************************)
\* What a hop from leg m does: it goes nowhere or part of the way, or it
\* crosses the road to the next node of the route.
Stays(m, n) ==
  /\ n = m \/ n.driver.progress # 0
  /\ n.driver.status = m.driver.status /\ n.status = m.status
  /\ n.driver.route = m.driver.route /\ n.driver.index = m.driver.index

Crosses(o, m, n, pickup) ==
  LET next    == m.driver.route[m.driver.index + 1]
      collect == m.driver.status = "en_route_to_pickup" /\ next = pickup
  IN  /\ m.driver.status \in {"en_route_to_pickup", "delivering"}
      /\ m.driver.index < Len(m.driver.route)
      /\ n # m /\ n.driver.progress = 0 /\ n.driver.pos = next
      /\ IF m.driver.index + 1 = Len(m.driver.route)
         THEN n.driver.status = "idle" /\ n.driver.order = NoOrder /\ n.status = "delivered"
         ELSE /\ n.driver.order = o
              /\ n.driver.status = IF collect THEN "delivering" ELSE m.driver.status
              /\ n.status = IF collect THEN "en_route" ELSE m.status
              /\ n.driver.route = m.driver.route
              /\ n.driver.index = m.driver.index + 1

\* A hop stays on its road or crosses to the next node.
LEMMA HopCases ==
  ASSUME NEW o \in 1..MaxOrders, NEW t, NEW m \in OnLeg(o, t)
  PROVE  Stays(m, Hop(m, t.pickup)) \/ Crosses(o, m, Hop(m, t.pickup), t.pickup)
<1> DEFINE d         == m.driver
           v         == Hop(m, t.pickup)
           road      == HopRoad(d.route, d.index)
           remaining == Weight[road] - d.progress
           crossed   == [d EXCEPT !.progress = 0,
                                  !.index = @ + 1,
                                  !.pos = d.route[d.index + 1]]
           next      == [driver |-> crossed, status |-> m.status,
                         budget |-> m.budget - remaining]
<1>1. m \in Leg(o)
  BY DEF OnLeg
<1>2. /\ d \in DriverRecord /\ m.budget \in Nat
      /\ d.route \in Seq(Node) /\ d.index \in Nat \ {0} /\ d.status \in DriverStatus
      /\ d.progress \in Nat
  BY <1>1 DEF Leg, DriverRecord
<1>3. CASE m.budget <= 0 \/ d.index >= Len(d.route) \/ road \notin Road \ shut
  <2>1. v = m
    BY <1>3 DEF Hop
  <2> HIDE DEF v
  <2> QED BY <2>1 DEF Stays, v
<1>4. CASE ~(m.budget <= 0 \/ d.index >= Len(d.route) \/ road \notin Road \ shut)
  <2>1. /\ d.index < Len(d.route)
        /\ d.status \in {"en_route_to_pickup", "delivering"}
        /\ d.order = o
    <3>1. Len(d.route) \in Nat /\ (d.route = NoRoute => Len(d.route) = 0)
      BY <1>2, LenProperties DEF NoRoute
    <3>2. d.index < Len(d.route)
      BY <1>2, <1>4, <3>1
    <3> QED BY <1>1, <1>2, <3>1, <3>2 DEF Leg, DriverStatus
  <2>2. CASE m.budget >= remaining
    <3>1. v = Arrive(next, t.pickup)
      BY <1>4, <2>2 DEF Hop
    <3>2. /\ next.driver = crossed /\ next.status = m.status
          /\ crossed.route = d.route /\ crossed.index = d.index + 1 /\ crossed.order = o
          /\ crossed.pos = d.route[d.index + 1] /\ crossed.status = d.status
          /\ crossed.progress = 0
      BY <1>2, <2>1 DEF DriverRecord
    <3>3. LET collected == [crossed EXCEPT !.status = "delivering"]
          IN  /\ collected.route = d.route /\ collected.index = d.index + 1
              /\ collected.pos = d.route[d.index + 1] /\ collected.status = "delivering"
              /\ collected.order = o /\ collected.progress = 0
      BY <1>2, <2>1 DEF DriverRecord
    <3> HIDE DEF crossed, next
    <3>4. CASE crossed.index = Len(crossed.route)
      <4>1. v.driver = IdleAt(crossed.pos) /\ v.status = "delivered"
        BY <3>1, <3>2, <3>4 DEF Arrive
      <4>2. /\ v.driver.status = "idle" /\ v.driver.progress = 0 /\ v.driver.pos = crossed.pos
            /\ v.driver.order = NoOrder
        BY <4>1 DEF IdleAt
      <4>3. v # m
        <5> HIDE DEF v
        <5> QED BY <2>1, <4>2
      <4> HIDE DEF v
      <4> QED BY <2>1, <3>2, <3>4, <4>1, <4>2, <4>3 DEF Crosses, v
    <3>5. CASE crossed.index # Len(crossed.route)
      <4> DEFINE e == v.driver
                 collect == d.status = "en_route_to_pickup" /\ crossed.pos = t.pickup
      <4>1. /\ e = IF collect THEN [crossed EXCEPT !.status = "delivering"] ELSE crossed
            /\ v.status = IF collect THEN "en_route" ELSE m.status
        BY <3>1, <3>2, <3>5 DEF Arrive
      <4>2. /\ e.route = d.route /\ e.index = d.index + 1
            /\ e.pos = d.route[d.index + 1] /\ e.order = o /\ e.progress = 0
            /\ e.status = IF collect THEN "delivering" ELSE d.status
        BY <3>2, <3>3, <4>1
      <4>3. v # m
        <5> HIDE DEF v
        <5>1. v.driver.index # m.driver.index
          BY <1>2, <4>2
        <5> QED BY <5>1
      <4> HIDE DEF v
      <4> QED BY <1>2, <2>1, <3>2, <3>5, <4>1, <4>2, <4>3 DEF Crosses, v
    <3> QED BY <3>4, <3>5
  <2>3. CASE ~(m.budget >= remaining)
    <3> DEFINE e == [d EXCEPT !.progress = @ + m.budget]
    <3>1. v.driver = e /\ v.status = m.status
      BY <1>4, <2>3 DEF Hop
    <3>2. /\ e.route = d.route /\ e.index = d.index /\ e.status = d.status
          /\ e.progress = d.progress + m.budget
      BY <1>2 DEF DriverRecord
    <3>3. e.progress # 0
      BY <1>2, <1>4, <3>2
    <3> HIDE DEF e, d, v
    <3> QED BY <3>1, <3>2, <3>3 DEF Stays, v, d
  <2> QED BY <2>2, <2>3
<1> QED BY <1>3, <1>4

\* The view v with row r for driver d and status st for order o.
Shown(v, d, r, o, st) == Put(v, d, r, Stage(v.orders, o, st))

\* A view that shows a row shows that row.
LEMMA ShownFields ==
  ASSUME NEW n, NEW v \in View(n), NEW d \in Driver, NEW r \in RowRecord,
         NEW o \in 1..n, NEW st \in OrderStatus
  PROVE  /\ Shown(v, d, r, o, st) \in View(n)
         /\ Shown(v, d, r, o, st).drivers[d] = r
         /\ \A s, ss :
              /\ Put(Shown(v, d, r, o, st), d, s, Stage(Shown(v, d, r, o, st).orders, o, ss)) =
                   Shown(v, d, s, o, ss)
              /\ Put(Shown(v, d, r, o, st), d, s, Shown(v, d, r, o, st).orders) = Shown(v, d, s, o, st)
<1> DEFINE os == Stage(v.orders, o, st)
           u == Put(v, d, r, os)
<1>1. v.orders \in [1..n -> OrderRecord]
  BY ViewFields
<1>2. os \in [1..n -> OrderRecord]
  BY <1>1, StageTyped
<1>3. \A ss : Stage(os, o, ss) = Stage(v.orders, o, ss)
  <2> TAKE ss
  <2>1. [v.orders[o] EXCEPT !.status = ss] = [[v.orders[o] EXCEPT !.status = st] EXCEPT !.status = ss]
    BY <1>1 DEF OrderRecord
  <2> QED BY <1>1, <2>1 DEF Stage
<1> HIDE DEF os
<1>4. /\ u \in View(n) /\ u.drivers[d] = r /\ u.orders = os
      /\ \A s, x : Put(u, d, s, x) = Put(v, d, s, x)
  BY <1>2, PutFields
<1> HIDE DEF u
<1>5. \A s, ss : Put(u, d, s, Stage(u.orders, o, ss)) = Put(v, d, s, Stage(v.orders, o, ss))
  BY <1>3, <1>4
<1>6. \A s : Put(u, d, s, u.orders) = Put(v, d, s, os)
  BY <1>4
<1> QED BY <1>4, <1>5, <1>6 DEF Shown, u, os

\* What the fold makes of view v when driver c, which it has at index k, has
\* come to leg m: the driver's status and the order's, but not yet its place.
RowAt(c, k, o, m) ==
  IF m.driver.status = "idle" THEN Row(c.pos, "idle", NoRoute, 1, NoOrder)
  ELSE Row(c.pos, m.driver.status, c.route, k, o)

AtLeg(v, d, c, k, o, m) == Shown(v, d, RowAt(c, k, o, m), o, m.status)

\* The row at a leg is a row.
LEMMA RowAtTyped ==
  ASSUME NEW c \in DriverRecord, NEW k \in Nat \ {0}, NEW o \in 1..MaxOrders, NEW m \in Leg(o)
  PROVE  RowAt(c, k, o, m) \in RowRecord /\ m.status \in OrderStatus
<1>1. /\ c.pos \in Node /\ c.route \in Seq(Node)
      /\ m.driver.status \in DriverStatus /\ m.status \in OrderStatus
  BY DEF DriverRecord, Leg
<1>2. "idle" \in DriverStatus /\ NoRoute \in Seq(Node) /\ NoOrder \in 0..MaxOrders /\ o \in 0..MaxOrders
  BY SimulationAssumption DEF DriverStatus, NoRoute, NoOrder
<1> QED BY <1>1, <1>2, RowTyped DEF RowAt

\* A hop's events.
LEMMA HopFolds ==
  ASSUME NEW n \in 0..MaxOrders, NEW o \in 1..n, NEW t, NEW m \in OnLeg(o, t),
         NEW d \in Driver, NEW c \in DriverRecord, NEW k \in Nat \ {0}, NEW v \in View(n)
  PROVE  /\ FoldsTo(AtLeg(v, d, c, k, o, m), ArriveEvents(d, m, Hop(m, t.pickup), t.pickup),
                    AtLeg(v, d, c, k, o, Hop(m, t.pickup)))
         /\ ArriveEvents(d, m, Hop(m, t.pickup), t.pickup) \in Seq(Event(n))
<1> DEFINE w == Hop(m, t.pickup)
           e == ArriveEvents(d, m, w, t.pickup)
           u == AtLeg(v, d, c, k, o, m)
<1>1. o \in 1..MaxOrders /\ m \in Leg(o)
  BY SimulationAssumption DEF OnLeg
<1>2. Stays(m, w) \/ Crosses(o, m, w, t.pickup)
  BY <1>1, HopCases
<1> HIDE DEF w
<1>3. CASE Stays(m, w)
  <2>1. e = <<>>
    BY <1>3 DEF ArriveEvents, Stays
  <2>2. AtLeg(v, d, c, k, o, w) = u
    BY <1>3 DEF AtLeg, RowAt, Stays
  <2> HIDE DEF u, e
  <2>3. FoldsTo(u, e, AtLeg(v, d, c, k, o, w))
    BY <2>1, <2>2, FoldsNone
  <2>4. e \in Seq(Event(n))
    BY <2>1
  <2> QED BY <2>3, <2>4 DEF u, e, w
<1>4. CASE Crosses(o, m, w, t.pickup)
  <2> DEFINE next    == m.driver.route[m.driver.index + 1]
             collect == m.driver.status = "en_route_to_pickup" /\ next = t.pickup
             finish  == m.driver.index + 1 = Len(m.driver.route)
             e1      == IF collect THEN <<StatusChanged(d, "delivering")>> ELSE <<>>
             e2      == IF finish THEN <<Delivered(o), StatusChanged(d, "idle")>> ELSE <<>>
             s0      == m.driver.status
             s1      == IF collect THEN "delivering" ELSE s0
             st      == IF collect THEN "en_route" ELSE m.status
             u1      == Shown(v, d, Row(c.pos, s1, c.route, k, o), o, st)
             off     == Row(c.pos, "idle", NoRoute, 1, NoOrder)
  <2>1. /\ s0 \in {"en_route_to_pickup", "delivering"} /\ m.driver.order = o
        /\ m.driver.index < Len(m.driver.route)
        /\ w # m /\ w.driver.progress = 0 /\ w.driver.pos = next
    BY <1>1, <1>4 DEF Crosses, Leg
  <2>2. finish => w.driver.status = "idle" /\ w.driver.order = NoOrder /\ w.status = "delivered"
    BY <1>4 DEF Crosses
  <2>3. ~finish => w.driver.order = o /\ w.driver.status = s1 /\ w.status = st
    BY <1>4 DEF Crosses
  <2>4. (w.driver.order = NoOrder) <=> finish
    BY <2>2, <2>3 DEF NoOrder
  <2>5. e = e1 \o e2
    <3>1. ~(m.driver.index >= Len(m.driver.route))
      <4>1. m.driver.index \in Nat /\ m.driver.route \in Seq(Node)
        BY <1>1 DEF Leg, DriverRecord
      <4>2. Len(m.driver.route) \in Nat
        BY <4>1, LenProperties
      <4> QED BY <2>1, <4>1, <4>2
    <3> HIDE DEF finish
    <3> QED BY <2>1, <2>4, <3>1 DEF ArriveEvents
  <2>6. /\ c.pos \in Node /\ c.route \in Seq(Node) /\ m.status \in OrderStatus
        /\ s0 \in DriverStatus
    BY <1>1 DEF DriverRecord, Leg
  <2>7. /\ s1 \in {"en_route_to_pickup", "delivering"} /\ s1 \in DriverStatus
        /\ st \in OrderStatus /\ o \in 0..MaxOrders
    BY <1>1, <2>1, <2>6, SimulationAssumption DEF DriverStatus, OrderStatus
  <2> DEFINE r0 == Row(c.pos, s0, c.route, k, o)
             r1 == Row(c.pos, s1, c.route, k, o)
  <2>8. r0 \in RowRecord /\ r1 \in RowRecord
    BY <2>6, <2>7, RowTyped
  <2>9. u = Shown(v, d, r0, o, m.status)
    BY <2>1 DEF AtLeg, RowAt
  <2>10. FoldsTo(u, e1, u1)
    <3>1. CASE collect
      <4> DEFINE x == Shown(v, d, r0, o, m.status)
      <4> HIDE DEF r0
      <4>1. /\ x \in View(n) /\ x.drivers[d] = r0
            /\ \A s, ss : Put(x, d, s, Stage(x.orders, o, ss)) = Shown(v, d, s, o, ss)
        BY <2>6, <2>8, ShownFields
      <4> HIDE DEF x
      <4>2. Apply(x, StatusChanged(d, "delivering")) =
              Put(x, d, Row(c.pos, "delivering", c.route, k, o), Stage(x.orders, o, "en_route"))
        <5>1. \A st2 \in {"en_route_to_pickup", "delivering"} :
                Apply(x, StatusChanged(d, st2)) =
                  Put(x, d, Row(c.pos, st2, c.route, k, o),
                      IF st2 = "delivering" THEN Stage(x.orders, o, "en_route") ELSE x.orders)
          <6> TAKE st2 \in {"en_route_to_pickup", "delivering"}
          <6> QED BY <4>1, ApplyBusy DEF r0
        <5> QED BY <5>1
      <4>3. Apply(x, StatusChanged(d, "delivering")) =
              Shown(v, d, Row(c.pos, "delivering", c.route, k, o), o, "en_route")
        BY <4>1, <4>2
      <4>4. u1 = Shown(v, d, Row(c.pos, "delivering", c.route, k, o), o, "en_route")
        BY <3>1
      <4>5. e1 = <<StatusChanged(d, "delivering")>>
        BY <3>1
      <4> HIDE DEF u, u1, e1
      <4> QED BY <2>9, <4>3, <4>4, <4>5, FoldsOne DEF x
    <3>2. CASE ~collect
      <4>1. u1 = u /\ e1 = <<>>
        BY <2>9, <3>2
      <4> HIDE DEF u, u1, e1
      <4> QED BY <4>1, FoldsNone
    <3> QED BY <3>1, <3>2
  <2>11. FoldsTo(u1, e2, AtLeg(v, d, c, k, o, w))
    <3>1. CASE finish
      <4> HIDE DEF r1, st
      <4>1. u1 = Shown(v, d, r1, o, st)
        BY DEF r1
      <4>2. /\ u1 \in View(n) /\ u1.drivers[d] = r1
            /\ \A s, ss : Put(u1, d, s, Stage(u1.orders, o, ss)) = Shown(v, d, s, o, ss)
        <5> HIDE DEF u1
        <5> QED BY <2>7, <2>8, <4>1, ShownFields
      <4> HIDE DEF u1, off
      <4>3. Apply(u1, Delivered(o)) = Put(u1, d, u1.drivers[d], Stage(u1.orders, o, "delivered"))
        BY <4>2, ApplyOutcomes
      <4> DEFINE u2 == Shown(v, d, r1, o, "delivered")
      <4>4. Apply(u1, Delivered(o)) = u2
        BY <4>2, <4>3
      <4>5. /\ u2 \in View(n) /\ u2.drivers[d] = r1
            /\ \A s : Put(u2, d, s, u2.orders) = Shown(v, d, s, o, "delivered")
        <5>1. "delivered" \in OrderStatus
          BY DEF OrderStatus
        <5> QED BY <5>1, <2>8, ShownFields
      <4> HIDE DEF u2
      <4>6. Apply(u2, StatusChanged(d, "idle")) = Put(u2, d, off, u2.orders)
        BY <4>5, ApplyIdle DEF r1, off
      <4>7. Apply(u2, StatusChanged(d, "idle")) = Shown(v, d, off, o, "delivered")
        BY <4>5, <4>6
      <4>8. AtLeg(v, d, c, k, o, w) = Shown(v, d, off, o, "delivered")
        BY <2>2, <3>1 DEF AtLeg, RowAt, off
      <4>9. e2 = <<Delivered(o), StatusChanged(d, "idle")>>
        BY <3>1
      <4> HIDE DEF e2
      <4> QED BY <4>4, <4>7, <4>8, <4>9, FoldsTwo
    <3>2. CASE ~finish
      <4>1. AtLeg(v, d, c, k, o, w) = u1
        BY <2>3, <2>7, <3>2 DEF AtLeg, RowAt
      <4>2. e2 = <<>>
        BY <3>2
      <4> HIDE DEF u1, e2
      <4> QED BY <4>1, <4>2, FoldsNone
    <3> QED BY <3>1, <3>2
  <2>12. e1 \in Seq(Event(n)) /\ e2 \in Seq(Event(n))
    <3>1. /\ StatusChanged(d, "delivering") \in Event(n) /\ StatusChanged(d, "idle") \in Event(n)
          /\ Delivered(o) \in Event(n)
      <4>1. "delivering" \in DriverStatus /\ "idle" \in DriverStatus
        BY DEF DriverStatus
      <4> QED BY <4>1 DEF Event
    <3> HIDE DEF collect, finish
    <3> QED BY <3>1
  <2> HIDE DEF u, u1, e1, e2, e
  <2>13. FoldsTo(u, e, AtLeg(v, d, c, k, o, w))
    BY <2>5, <2>10, <2>11, FoldsOn
  <2>14. e \in Seq(Event(n))
    BY <2>5, <2>12, ConcatProperties
  <2> QED BY <2>13, <2>14 DEF u, e, w
<1> QED BY <1>2, <1>3, <1>4

\* The legs of driver c's way along its route, which it only loses on arrival.
OnWay(o, t, c) ==
  {m \in OnLeg(o, t) : m.driver.status # "idle" =>
                         m.driver.route = c.route /\ m.driver.index >= c.index}

\* A hop stays on the driver's way.
LEMMA HopOnWay ==
  ASSUME NEW o \in 1..MaxOrders, NEW t, NEW c \in DriverRecord, NEW m \in OnWay(o, t, c)
  PROVE  Hop(m, t.pickup) \in OnWay(o, t, c)
<1> DEFINE w == Hop(m, t.pickup)
<1>1. m \in OnLeg(o, t) /\ m \in Leg(o) /\ o \in 0..MaxOrders
  BY SimulationAssumption DEF OnWay, OnLeg
<1>2. w \in OnLeg(o, t)
  BY <1>1, HopOn
<1>3. Stays(m, w) \/ Crosses(o, m, w, t.pickup)
  BY <1>1, HopCases
<1>4. m.driver.index \in Nat /\ c.index \in Nat
  BY <1>1 DEF Leg, DriverRecord
<1> HIDE DEF w
<1>5. w.driver.status # "idle" => w.driver.route = c.route /\ w.driver.index >= c.index
  <2>1. CASE Stays(m, w)
    BY <2>1 DEF Stays, OnWay
  <2>2. CASE Crosses(o, m, w, t.pickup)
    <3>1. m.driver.route = c.route /\ m.driver.index >= c.index
      BY <2>2 DEF Crosses, OnWay
    <3>2. w.driver.status # "idle" =>
            w.driver.route = m.driver.route /\ w.driver.index = m.driver.index + 1
      BY <2>2 DEF Crosses
    <3> QED BY <1>4, <3>1, <3>2
  <2> QED BY <1>3, <2>1, <2>2
<1> QED BY <1>2, <1>5 DEF OnWay, w

\* A driver that sets out.
SetsOut(d) ==
  [driver |-> drivers[d], status |-> orders[drivers[d].order].status, budget |-> Speed]

\* A driver sets out on its way.
LEMMA Departs ==
  ASSUME HeadedInv, NEW d \in Driver, OnTheMove(d)
  PROVE  /\ drivers[d] \in DriverRecord /\ drivers[d].status # "idle"
         /\ Len(orders) \in 0..MaxOrders /\ orders \in [1..Len(orders) -> OrderRecord]
         /\ drivers[d].order \in 1..Len(orders) /\ orders[drivers[d].order].driver = d
         /\ SetsOut(d) \in OnWay(drivers[d].order, orders[drivers[d].order], drivers[d])
<1> DEFINE n == Len(orders)
           o == drivers[d].order
           t == orders[o]
<1>1. World \in Good(n) /\ World.drivers = drivers /\ World.orders = orders /\ n \in 0..MaxOrders
  BY WorldGood DEF World, HeadedInv
<1>2. drivers[d].status # "idle"
  BY MovedOnLeg DEF HeadedInv
<1> HIDE DEF n
<1>3. /\ o \in 1..n /\ t.driver = d /\ t.status = OrderStatusOf[drivers[d].status]
      /\ drivers \in [Driver -> DriverRecord] /\ orders \in [1..n -> OrderRecord]
  BY <1>1, <1>2, BusyDriver, GoodWorld
<1>4. /\ drivers[d] \in DriverRecord /\ drivers[d].index \in Nat
      /\ t.status \in OrderStatus /\ Speed \in Nat
  BY <1>3, SimulationAssumption DEF DriverRecord, OrderRecord
<1>5. Clear(drivers[d], shut) /\ Course(drivers[d], t)
  BY <1>2 DEF HeadedInv, Headed, World
<1> HIDE DEF o, t
<1>6. SetsOut(d) \in Leg(o)
  BY <1>2, <1>3, <1>4 DEF Leg, SetsOut, o, t
<1>7. SetsOut(d).driver = drivers[d]
  BY DEF SetsOut
<1>8. SetsOut(d) \in OnWay(o, t, drivers[d])
  BY <1>4, <1>5, <1>6, <1>7 DEF OnLeg, OnWay
<1> QED BY <1>1, <1>2, <1>3, <1>4, <1>8 DEF n, o, t

\* A tick leaves the driver on its way.
LEMMA MovedOnWay ==
  ASSUME HeadedInv, NEW d \in Driver, OnTheMove(d)
  PROVE  Moved(d) \in OnWay(drivers[d].order, orders[drivers[d].order], drivers[d])
<1> DEFINE o == drivers[d].order
           t == orders[o]
           S == OnWay(o, t, drivers[d])
<1>1. SetsOut(d) \in S /\ drivers[d] \in DriverRecord /\ o \in 1..MaxOrders
  BY Departs, SimulationAssumption
<1>2. \A m \in S : Hop(m, t.pickup) \in S
  BY <1>1, HopOnWay
<1>3. drivers[d].route \in Seq(Node)
  BY <1>1 DEF DriverRecord
<1> HIDE DEF S
<1>4. Moved(d) \in S
  BY <1>1, <1>2, <1>3, MovedLoop DEF SetsOut
<1> QED BY <1>4 DEF S

\* The hops of a tick, each with its events.
LEMMA MoveFolds ==
  ASSUME HeadedInv, NEW d \in Driver, OnTheMove(d), NEW k \in Nat \ {0},
         NEW v \in View(Len(orders)), v.drivers[d] = RowOf(k, drivers[d]),
         v.orders[drivers[d].order] = orders[drivers[d].order]
  PROVE  \E e : /\ MoveEvents(d) = Append(e, PositionUpdate(d, Moved(d).driver.pos))
                /\ FoldsTo(v, e, AtLeg(v, d, drivers[d], k, drivers[d].order, Moved(d)))
<1> DEFINE n == Len(orders)
           c == drivers[d]
           o == c.order
           t == orders[o]
           pickup == t.pickup
           Round(a, i) == LET m == Hop(a.leg, pickup)
                          IN  [leg |-> m, events |-> a.events \o ArriveEvents(d, a.leg, m, pickup)]
           S    == {a \in [leg : OnWay(o, t, c), events : Seq(Event(n))] :
                      FoldsTo(v, a.events, AtLeg(v, d, c, k, o, a.leg))}
           F    == [x \in S \X Node |-> Round(x[1], x[2])]
           init == [leg |-> SetsOut(d), events |-> <<>>]
           q    == c.route
           acc  == CHOOSE g : g = [i \in 0..Len(q) |-> IF i = 0 THEN init ELSE Round(g[i-1], q[i])]
           Step(m, i) == Hop(m, pickup)
           run  == CHOOSE g : g = [i \in 0..Len(q) |-> IF i = 0 THEN SetsOut(d) ELSE Step(g[i-1], q[i])]
<1>1. /\ c \in DriverRecord /\ c.status # "idle" /\ n \in 0..MaxOrders /\ o \in 1..n
      /\ SetsOut(d) \in OnWay(o, t, c) /\ o \in 1..MaxOrders
      /\ orders \in [1..n -> OrderRecord]
  BY Departs, SimulationAssumption
<1>2. /\ MoveEvents(d) = Append(acc[Len(q)].events, PositionUpdate(d, Moved(d).driver.pos))
  BY DEF MoveEvents, Iterate, SetsOut
<1>3. Moved(d) = run[Len(q)]
  BY DEF Moved, Iterate, SetsOut
<1>4. q \in Seq(Node)
  BY <1>1 DEF DriverRecord
<1>5. Len(q) \in Nat /\ \A i \in 1..Len(q) : q[i] \in Node
  BY <1>4, LenProperties, ElementOfSeq
<1>6. init \in S
  <2>1. AtLeg(v, d, c, k, o, SetsOut(d)) = v
    <3>1. SetsOut(d).driver = c /\ SetsOut(d).status = t.status
      BY DEF SetsOut
    <3>2. RowAt(c, k, o, SetsOut(d)) = v.drivers[d]
      BY <1>1, <3>1 DEF RowAt, RowOf
    <3>3. v.orders \in [1..n -> OrderRecord] /\ v.drivers \in [Driver -> RowRecord]
      BY ViewFields
    <3>4. [t EXCEPT !.status = t.status] = t
      <4>1. t \in OrderRecord
        BY <1>1
      <4> QED BY <4>1 DEF OrderRecord
    <3>5. Stage(v.orders, o, t.status) = v.orders
      <4> HIDE DEF t
      <4>1. v.orders[o] = t
        BY DEF t
      <4>2. Stage(v.orders, o, t.status) = [v.orders EXCEPT ![o] = [v.orders[o] EXCEPT !.status = t.status]]
        BY DEF Stage
      <4>3. [v.orders EXCEPT ![o] = t] = v.orders
        BY <3>3, <4>1
      <4> QED BY <3>4, <4>1, <4>2, <4>3
    <3>6. [v.drivers EXCEPT ![d] = v.drivers[d]] = v.drivers
      BY <3>3
    <3>7. v = [drivers |-> v.drivers, orders |-> v.orders, shut |-> v.shut, paused |-> v.paused]
      BY ViewFields
    <3> HIDE DEF o, t, c
    <3>8. AtLeg(v, d, c, k, o, SetsOut(d)) = Put(v, d, v.drivers[d], v.orders)
      BY <3>1, <3>2, <3>5 DEF AtLeg, Shown
    <3> QED BY <3>6, <3>7, <3>8 DEF Put
  <2>2. FoldsTo(v, <<>>, v)
    BY FoldsNone
  <2>3. <<>> \in Seq(Event(n))
    OBVIOUS
  <2> QED BY <1>1, <2>1, <2>2, <2>3
<1>7. ASSUME NEW a \in S, NEW i \in Node
      PROVE  Round(a, i) \in S /\ Round(a, i).leg = Hop(a.leg, pickup) /\ F[<<a, i>>] = Round(a, i)
  <2> DEFINE m == a.leg
             w == Hop(m, pickup)
             f == ArriveEvents(d, m, w, pickup)
  <2>1. /\ m \in OnWay(o, t, c) /\ a.events \in Seq(Event(n))
        /\ FoldsTo(v, a.events, AtLeg(v, d, c, k, o, m))
    OBVIOUS
  <2>2. w \in OnWay(o, t, c)
    BY <1>1, <2>1, HopOnWay
  <2>3. m \in OnLeg(o, t)
    BY <2>1 DEF OnWay
  <2>4. FoldsTo(AtLeg(v, d, c, k, o, m), f, AtLeg(v, d, c, k, o, w)) /\ f \in Seq(Event(n))
    BY <1>1, <2>3, HopFolds
  <2> DEFINE z == [leg |-> w, events |-> a.events \o f]
  <2>5. Round(a, i) = z
    OBVIOUS
  <2> HIDE DEF m, w, f
  <2>6. FoldsTo(v, a.events \o f, AtLeg(v, d, c, k, o, w))
    BY <2>1, <2>4, FoldsOn
  <2>7. a.events \o f \in Seq(Event(n))
    BY <2>1, <2>4, ConcatProperties
  <2>8. z \in S
    <3> HIDE DEF o, t, c, n
    <3> QED BY <2>2, <2>6, <2>7
  <2>9. F[<<a, i>>] = Round(a, i)
    <3> HIDE DEF S, Round
    <3> QED OBVIOUS
  <2> QED BY <2>5, <2>8, <2>9 DEF w, m
<1>8. \A a \in S : FoldsTo(v, a.events, AtLeg(v, d, c, k, o, a.leg))
  OBVIOUS
<1>9. init.leg = SetsOut(d)
  OBVIOUS
<1>10. \A m, i : Step(m, i) = Hop(m, pickup)
  OBVIOUS
<1> HIDE DEF Round, Step, init, q, S, c, o, t, n, pickup
<1>11. \A a \in S, i \in Node : F[<<a, i>>] \in S
  BY <1>7
<1> HIDE DEF F
<1>12. PICK h : IsTypedRun(h, S, F, init, q)
  BY <1>4, <1>6, <1>11, TypedRun
<1>13. h \in [0..Len(q) -> S] /\ h[0] = init
  BY <1>12 DEF IsTypedRun
<1>14. ASSUME NEW i \in 0..Len(q)
       PROVE  h[i] = IF i = 0 THEN init ELSE Round(h[i-1], q[i])
  <2>1. CASE i = 0
    BY <1>13, <2>1
  <2>2. CASE i # 0
    <3>1. i \in 1..Len(q) /\ i-1 \in 0..Len(q) /\ q[i] \in Node
      BY <1>5, <2>2
    <3>2. h[i-1] \in S /\ h[i] = F[<<h[i-1], q[i]>>]
      BY <1>12, <1>13, <3>1 DEF IsTypedRun
    <3> QED BY <1>7, <2>2, <3>1, <3>2
  <2> QED BY <2>1, <2>2
<1>15. h = [i \in 0..Len(q) |-> IF i = 0 THEN init ELSE Round(h[i-1], q[i])]
  BY <1>13, <1>14
<1>16. acc = [i \in 0..Len(q) |-> IF i = 0 THEN init ELSE Round(acc[i-1], q[i])]
  BY <1>15
<1> DEFINE legs == [i \in 0..Len(q) |-> h[i].leg]
<1>17. ASSUME NEW i \in 0..Len(q)
       PROVE  legs[i] = IF i = 0 THEN SetsOut(d) ELSE Step(legs[i-1], q[i])
  <2>1. CASE i = 0
    BY <1>9, <1>13, <2>1
  <2>2. CASE i # 0
    <3>1. i-1 \in 0..Len(q) /\ i \in 1..Len(q) /\ q[i] \in Node
      BY <1>5, <2>2
    <3>2. h[i-1] \in S /\ h[i] = Round(h[i-1], q[i])
      BY <1>13, <1>14, <2>2, <3>1
    <3>3. h[i].leg = Hop(h[i-1].leg, pickup)
      BY <1>7, <3>1, <3>2
    <3> QED BY <1>10, <2>2, <3>1, <3>3
  <2> QED BY <2>1, <2>2
<1>18. legs = [i \in 0..Len(q) |-> IF i = 0 THEN SetsOut(d) ELSE Step(legs[i-1], q[i])]
  BY <1>17
<1>19. run = [i \in 0..Len(q) |-> IF i = 0 THEN SetsOut(d) ELSE Step(run[i-1], q[i])]
  <2> HIDE DEF legs
  <2> QED BY <1>18
<1> HIDE DEF acc, run, legs
<1> DEFINE mark == [i \in 0..Len(q) |-> IF acc[i] \in S /\ acc[i].leg = run[i] THEN 0 ELSE 1]
           Zero == {0}
<1>20. mark[0] \in Zero
  <2>1. 0 \in 0..Len(q)
    BY <1>5
  <2>2. acc[0] = init /\ run[0] = SetsOut(d)
    BY <1>16, <1>19, <2>1
  <2> QED BY <1>6, <1>9, <2>1, <2>2
<1>21. ASSUME NEW i \in 1..Len(q), mark[i-1] \in Zero
       PROVE  mark[i] \in Zero
  <2>1. i-1 \in 0..Len(q) /\ i \in 0..Len(q) /\ i # 0 /\ q[i] \in Node
    BY <1>5
  <2>2. acc[i-1] \in S /\ acc[i-1].leg = run[i-1]
    BY <1>21, <2>1
  <2> HIDE DEF mark, Zero
  <2>3. acc[i] = Round(acc[i-1], q[i]) /\ run[i] = Step(run[i-1], q[i])
    BY <1>16, <1>19, <2>1
  <2>4. acc[i] \in S /\ acc[i].leg = run[i]
    BY <1>7, <1>10, <2>1, <2>2, <2>3
  <2> QED BY <2>1, <2>4 DEF mark, Zero
<1>22. \A i \in 0..Len(q) : mark[i] \in Zero
  <2> HIDE DEF mark, Zero
  <2> QED BY <1>5, <1>20, <1>21, LoopInvariant
<1>23. Len(q) \in 0..Len(q)
  BY <1>5
<1>24. acc[Len(q)] \in S /\ acc[Len(q)].leg = run[Len(q)]
  BY <1>22, <1>23
<1> HIDE DEF mark, Zero
<1>25. FoldsTo(v, acc[Len(q)].events, AtLeg(v, d, c, k, o, Moved(d)))
  BY <1>3, <1>8, <1>24
<1> QED BY <1>2, <1>25 DEF o, c

\* The index the fold may have where the driver has i.
NotAhead(k, i) == k \in Nat \ {0} /\ k <= i /\ (i = 1 => k = 1)

\* No two drivers have the same order.
LEMMA OwnOrder ==
  ASSUME Inv, NEW d \in Driver, drivers[d].order \in 1..Len(orders)
  PROVE  orders[drivers[d].order].driver = d /\ drivers[d].status # "idle"
<1> DEFINE n == Len(orders)
<1>1. World \in Good(n) /\ World.drivers = drivers /\ World.orders = orders
  BY WorldGood DEF World
<1>2. drivers[d].order # NoOrder
  BY DEF NoOrder
<1> HIDE DEF n
<1>3. drivers[d].status # "idle"
  BY <1>2 DEF Inv, Pairing, Paired
<1>4. orders[drivers[d].order].driver = d
  BY <1>1, <1>3, BusyDriver
<1> QED BY <1>3, <1>4

\* moveDriver's events lead to what the driver then is.
LEMMA MoveLeads ==
  ASSUME HeadedInv, NEW d \in Driver, NEW k, NotAhead(k, drivers[d].index)
  PROVE  \E j : /\ NotAhead(j, AfterMoves.drivers[d].index)
                /\ Leads(Len(orders), d, RowOf(k, drivers[d]), RowOf(j, AfterMoves.drivers[d]),
                         drivers[d].order, orders[drivers[d].order],
                         AfterMoves.orders[drivers[d].order], MoveEvents(d))
<1> DEFINE n == Len(orders)
           c == drivers[d]
           o == c.order
           t == orders[o]
           w == AfterMoves
           M == Moved(d)
<1>1. /\ w.drivers = [e \in Driver |-> IF OnTheMove(e) THEN Moved(e).driver ELSE drivers[e]]
      /\ w.orders = [p \in DOMAIN orders |->
                       IF orders[p].driver # NoDriver /\ OnTheMove(orders[p].driver)
                            /\ drivers[orders[p].driver].order = p
                       THEN [orders[p] EXCEPT !.status = Moved(orders[p].driver).status]
                       ELSE orders[p]]
  BY DEF AfterMoves
<1>2. DOMAIN orders = 1..n /\ NoDriver \notin Driver
  <2>1. orders \in Seq(OrderRecord)
    BY DEF HeadedInv, Inv, TypeOK
  <2>2. DOMAIN orders = 1..n
    BY <2>1, LenProperties
  <2> QED BY <2>2, SimulationAssumption DEF NoDriver, Driver
<1> HIDE DEF w, n
<1>3. o \in 1..n => t.driver = d
  BY OwnOrder DEF HeadedInv, n
<1>4. CASE ~OnTheMove(d)
  <2>1. w.drivers[d] = c /\ (o \in 1..n => w.orders[o] = t)
    <3> HIDE DEF o
    <3> QED BY <1>1, <1>2, <1>3, <1>4 DEF o
  <2>2. MoveEvents(d) = <<>>
    BY <1>4 DEF MoveEvents
  <2> DEFINE x == w.orders[o]
  <2> HIDE DEF o, c, t, x
  <2>3. Leads(n, d, RowOf(k, c), RowOf(k, c), o, t, x, <<>>)
    BY <2>1, LeadsNowhere DEF x
  <2> QED BY <2>1, <2>2, <2>3 DEF o, c, t, x, w, n
<1>5. CASE OnTheMove(d)
  <2>1. /\ c \in DriverRecord /\ n \in 0..MaxOrders /\ o \in 1..n /\ o \in 1..MaxOrders
        /\ orders \in [1..n -> OrderRecord]
    BY <1>5, Departs, SimulationAssumption DEF n
  <2>2. M \in OnWay(o, t, c)
    BY <1>5, MovedOnWay
  <2>3. M \in OnLeg(o, t) /\ M \in Leg(o)
    BY <2>2 DEF OnWay, OnLeg
  <2>4. w.drivers[d] = M.driver
    BY <1>1, <1>5
  <2>5. w.orders[o] = [t EXCEPT !.status = M.status]
    <3> HIDE DEF o
    <3>1. orders[o].driver = d /\ o \in 1..n /\ drivers[d].order = o
      BY <1>3, <2>1 DEF o
    <3> QED BY <1>1, <1>2, <1>5, <3>1
  <2>6. RowAt(c, k, o, M) \in RowRecord /\ M.status \in OrderStatus
    BY <2>1, <2>3, RowAtTyped DEF NotAhead
  <2> DEFINE ahead == k + 1 <= Len(c.route) /\ c.route[k+1] = M.driver.pos
             j == IF M.driver.status = "idle" THEN 1 ELSE IF ahead THEN k + 1 ELSE k
             pos == M.driver.pos
  <2>7. ASSUME NEW v \in View(n), v.drivers[d] = RowOf(k, c), o \in 1..n => v.orders[o] = t
        PROVE  FoldsTo(v, MoveEvents(d), Put(v, d, RowOf(j, M.driver), [v.orders EXCEPT ![o] = w.orders[o]]))
    <3> DEFINE u == AtLeg(v, d, c, k, o, M)
               r == RowAt(c, k, o, M)
    <3>1. PICK e : MoveEvents(d) = Append(e, PositionUpdate(d, pos)) /\ FoldsTo(v, e, u)
      BY <1>5, <2>1, <2>7, MoveFolds DEF n, NotAhead
    <3>2. u = Shown(v, d, r, o, M.status)
      BY DEF AtLeg
    <3> HIDE DEF r, u
    <3>3. /\ u \in View(n) /\ u.drivers[d] = r
          /\ \A s : Put(u, d, s, u.orders) = Shown(v, d, s, o, M.status)
      BY <2>1, <2>6, <3>2, ShownFields DEF r
    <3>4. Apply(u, PositionUpdate(d, pos)) = Put(u, d, RowOf(j, M.driver), u.orders)
      <4>1. CASE M.driver.status = "idle"
        <5>1. r = Row(c.pos, "idle", NoRoute, 1, NoOrder)
          BY <4>1 DEF r, RowAt
        <5>2. Apply(u, PositionUpdate(d, pos)) =
                Put(u, d, Row(pos, "idle", NoRoute,
                              IF 1 + 1 <= Len(NoRoute) /\ NoRoute[1+1] = pos THEN 1 + 1 ELSE 1,
                              NoOrder), u.orders)
          BY <3>3, <5>1, ApplyPosition
        <5>3. ~(1 + 1 <= Len(NoRoute))
          BY DEF NoRoute
        <5>4. M.driver.order = NoOrder /\ M.driver.route = NoRoute
          BY <2>3, <4>1 DEF Leg
        <5>5. RowOf(j, M.driver) = Row(pos, "idle", NoRoute, 1, NoOrder)
          BY <4>1, <5>4 DEF RowOf
        <5> HIDE DEF pos, j
        <5> QED BY <5>2, <5>3, <5>5
      <4>2. CASE M.driver.status # "idle"
        <5> DEFINE s == M.driver.status
        <5>1. r = Row(c.pos, s, c.route, k, o)
          BY <4>2 DEF r, RowAt
        <5>2. Apply(u, PositionUpdate(d, pos)) =
                Put(u, d, Row(pos, s, c.route,
                              IF k + 1 <= Len(c.route) /\ c.route[k+1] = pos THEN k + 1 ELSE k, o), u.orders)
          BY <3>3, <5>1, ApplyPosition
        <5>3. M.driver.order = o /\ M.driver.route = c.route
          BY <2>2, <2>3, <4>2 DEF Leg, OnWay
        <5>4. RowOf(j, M.driver) = Row(pos, s, c.route, j, o)
          BY <5>3 DEF RowOf
        <5> HIDE DEF o, c
        <5> QED BY <4>2, <5>2, <5>4
      <4> QED BY <4>1, <4>2
    <3> DEFINE b == RowOf(j, M.driver)
               x == w.orders[o]
    <3> HIDE DEF b, j
    <3>5. Put(u, d, b, u.orders) = Put(v, d, b, Stage(v.orders, o, M.status))
      BY <3>3 DEF Shown
    <3>6. Stage(v.orders, o, M.status) = [v.orders EXCEPT ![o] = x]
      <4>1. v.orders[o] = t
        BY <2>1, <2>7
      <4> HIDE DEF o, t
      <4>2. Stage(v.orders, o, M.status) = [v.orders EXCEPT ![o] = [t EXCEPT !.status = M.status]]
        BY <4>1 DEF Stage
      <4> QED BY <2>5, <4>2
    <3> HIDE DEF x, o, c
    <3>7. FoldsTo(v, MoveEvents(d), Apply(u, PositionUpdate(d, pos)))
      BY <3>1, FoldsNext
    <3>8. FoldsTo(v, MoveEvents(d), Put(v, d, b, [v.orders EXCEPT ![o] = x]))
      BY <3>4, <3>5, <3>6, <3>7 DEF b
    <3> QED BY <3>8 DEF b, x
  <2>8. NotAhead(j, M.driver.index)
    <3>1. /\ k \in Nat \ {0} /\ k <= c.index /\ (c.index = 1 => k = 1)
          /\ c.index \in Nat \ {0} /\ M.driver.index \in Nat \ {0} /\ c.route \in Seq(Node)
      BY <2>1, <2>3 DEF NotAhead, Leg, DriverRecord
    <3>2. CASE M.driver.status = "idle"
      BY <2>3, <3>2 DEF NotAhead, Leg
    <3>3. CASE M.driver.status # "idle"
      <4> DEFINE i == M.driver.index
      <4>1. M.driver.route = c.route /\ i >= c.index
        BY <2>2, <3>3 DEF OnWay
      <4>2. Clear(M.driver, shut) /\ Course(M.driver, t)
        BY <2>3, <3>3 DEF OnLeg
      <4>3. k = i => ~ahead
        <5> SUFFICES ASSUME k = i, ahead PROVE FALSE
          OBVIOUS
        <5>1. Len(c.route) \in Nat
          BY <3>1, LenProperties
        <5>2. i \in i..Len(c.route)-1
          BY <3>1, <5>1
        <5>3. HopRoad(c.route, i) \in Road
          BY <4>1, <4>2, <5>2 DEF Clear
        <5>4. c.route[i] = M.driver.pos /\ c.route[i+1] = M.driver.pos
          BY <4>1, <4>2 DEF Course
        <5>5. M.driver.pos \in Node
          BY <2>3 DEF Leg, DriverRecord
        <5>6. HopRoad(c.route, i) = {M.driver.pos}
          BY <5>4 DEF HopRoad
        <5> QED BY <5>3, <5>5, <5>6, RoutingAssumption
      <4> HIDE DEF ahead, c
      <4> QED BY <3>1, <3>3, <4>1, <4>3 DEF NotAhead
    <3> QED BY <3>2, <3>3
  <2> HIDE DEF j
  <2>9. Leads(n, d, RowOf(k, c), RowOf(j, w.drivers[d]), o, t, w.orders[o], MoveEvents(d))
    BY <2>4, <2>7 DEF Leads
  <2> QED BY <2>4, <2>8, <2>9 DEF w, n
<1> QED BY <1>4, <1>5

\* All the drivers in their turn.
LEMMA AllDrivers ==
  ASSUME Inv, NEW w \in Good(Len(orders)), NEW k, Behind(k, drivers),
         NEW E, E = [d \in Driver |-> E[d]],
         \A d \in Driver :
           \E j : /\ NotAhead(j, w.drivers[d].index)
                  /\ Leads(Len(orders), d, RowOf(k[d], drivers[d]), RowOf(j, w.drivers[d]),
                           drivers[d].order, orders[drivers[d].order],
                           w.orders[drivers[d].order], E[d]),
         \A o \in 1..Len(orders) : (\A d \in Driver : drivers[d].order # o) => w.orders[o] = orders[o],
         NEW closed \in SUBSET Road, NEW pause \in BOOLEAN
  PROVE  Carries(World, FlattenSeq(E), w, k, closed, pause)
<1> DEFINE n == Len(orders)
           Fit(d, i) == /\ NotAhead(i, w.drivers[d].index)
                        /\ Leads(n, d, RowOf(k[d], drivers[d]), RowOf(i, w.drivers[d]),
                                 drivers[d].order, orders[drivers[d].order],
                                 w.orders[drivers[d].order], E[d])
           j == [d \in Driver |-> CHOOSE i : Fit(d, i)]
<1>1. World \in Good(n) /\ World.drivers = drivers /\ World.orders = orders
  BY WorldGood DEF World
<1>2. ASSUME NEW d \in Driver PROVE Fit(d, j[d])
  <2>1. \E i : Fit(d, i)
    OBVIOUS
  <2> HIDE DEF Fit
  <2> QED BY <2>1
<1> HIDE DEF j
<1>3. /\ \A d \in Driver : NotAhead(j[d], w.drivers[d].index)
      /\ \A d \in Driver : Leads(n, d, RowOf(k[d], drivers[d]), RowOf(j[d], w.drivers[d]),
                                 drivers[d].order, orders[drivers[d].order],
                                 w.orders[drivers[d].order], E[d])
  BY <1>2
<1> HIDE DEF n, Fit
<1>4. j = [d \in Driver |-> j[d]]
  BY DEF j
<1>5. Behind(j, w.drivers)
  <2>1. \A d \in Driver : j[d] \in Nat \ {0}
    BY <1>3 DEF NotAhead
  <2>2. j \in [Driver -> Nat \ {0}]
    BY <1>4, <2>1
  <2> QED BY <1>3, <2>2 DEF Behind, NotAhead
<1>6. Known(n, k, drivers, orders, closed, pause)
  <2>1. drivers \in [Driver -> DriverRecord] /\ orders \in [1..n -> OrderRecord]
    BY <1>1, GoodWorld
  <2> QED BY <2>1 DEF Known, Behind
<1>7. Known(n, j, w.drivers, w.orders, closed, pause)
  <2>1. w.drivers \in [Driver -> DriverRecord] /\ w.orders \in [1..n -> OrderRecord]
    BY GoodWorld DEF n
  <2> QED BY <1>5, <2>1 DEF Known, Behind
<1>8. ASSUME NEW d \in Driver, NEW e \in Driver, d # e, drivers[d].order = drivers[e].order
      PROVE  drivers[d].order \notin 1..n
  BY <1>8, OwnOrder DEF n
<1>9. FoldsTo(Seen(k, World.drivers, World.orders, closed, pause), FlattenSeq(E),
              Seen(j, w.drivers, w.orders, closed, pause))
  <2> DEFINE u == World
  <2>1. /\ Known(n, k, u.drivers, u.orders, closed, pause)
        /\ \A d \in Driver : Leads(n, d, RowOf(k[d], u.drivers[d]), RowOf(j[d], w.drivers[d]),
                                   u.drivers[d].order, u.orders[u.drivers[d].order],
                                   w.orders[u.drivers[d].order], E[d])
        /\ \A d, e \in Driver :
             d # e /\ u.drivers[d].order = u.drivers[e].order => u.drivers[d].order \notin 1..n
        /\ \A o \in 1..n : (\A d \in Driver : u.drivers[d].order # o) => w.orders[o] = u.orders[o]
    BY <1>1, <1>3, <1>6, <1>8 DEF n
  <2> HIDE DEF u
  <2>2. FoldsTo(Seen(k, u.drivers, u.orders, closed, pause), FlattenSeq(E),
                Seen(j, w.drivers, w.orders, closed, pause))
    BY <1>7, <2>1, EachDriver
  <2> QED BY <2>2 DEF u
<1> QED BY <1>5, <1>9 DEF Carries

\* The movement half of a tick.
LEMMA MovesFold ==
  ASSUME HeadedInv, NEW k, Behind(k, drivers)
  PROVE  Carries(World, OfAllDrivers(MoveEvents), AfterMoves, k, shut, paused)
<1> DEFINE E == [d \in Driver |-> MoveEvents(d)]
           w == AfterMoves
<1>1. w \in Good(Len(orders)) /\ shut \in SUBSET Road /\ paused \in BOOLEAN
  BY AfterMovesGood DEF HeadedInv, Inv, TypeOK
<1>2. OfAllDrivers(MoveEvents) = FlattenSeq(E)
  BY DEF OfAllDrivers
<1>3. E = [d \in Driver |-> E[d]] /\ \A d \in Driver : E[d] = MoveEvents(d)
  OBVIOUS
<1> HIDE DEF E
<1>4. ASSUME NEW d \in Driver
      PROVE  \E j : /\ NotAhead(j, w.drivers[d].index)
                    /\ Leads(Len(orders), d, RowOf(k[d], drivers[d]), RowOf(j, w.drivers[d]),
                             drivers[d].order, orders[drivers[d].order],
                             w.orders[drivers[d].order], E[d])
  <2>1. NotAhead(k[d], drivers[d].index)
    BY DEF Behind, NotAhead
  <2> QED BY <1>3, <2>1, MoveLeads
<1>5. ASSUME NEW o \in 1..Len(orders), \A d \in Driver : drivers[d].order # o
      PROVE  w.orders[o] = orders[o]
  <2>1. orders \in Seq(OrderRecord)
    BY DEF HeadedInv, Inv, TypeOK
  <2>2. o \in DOMAIN orders /\ orders[o] \in OrderRecord
    BY <2>1, LenProperties, ElementOfSeq
  <2>3. orders[o].driver \in Driver \union {NoDriver}
    BY <2>2 DEF OrderRecord
  <2> QED BY <1>5, <2>2, <2>3 DEF AfterMoves
<1> HIDE DEF w
<1>6. Carries(World, FlattenSeq(E), w, k, shut, paused)
  BY <1>1, <1>3, <1>4, <1>5, AllDrivers DEF HeadedInv
<1> QED BY <1>2, <1>6 DEF w

-----------------------------------------------------------------------------
(***************************************************************************)
(* rerouteDriver.                                                           *)
(***************************************************************************)
LEMMA RerouteLeads ==
  ASSUME Inv, NEW d \in Driver, NEW k, NotAhead(k, drivers[d].index), NEW closed
  PROVE  \E j : /\ NotAhead(j, AfterClosing(closed).drivers[d].index)
                /\ Leads(Len(orders), d, RowOf(k, drivers[d]), RowOf(j, AfterClosing(closed).drivers[d]),
                         drivers[d].order, orders[drivers[d].order],
                         AfterClosing(closed).orders[drivers[d].order], RerouteEvents(d, closed))
<1> DEFINE n == Len(orders)
           c == drivers[d]
           o == c.order
           t == orders[o]
           w == AfterClosing(closed)
           e == RerouteEvents(d, closed)
           a == RowOf(k, c)
<1>1. /\ World \in Good(n) /\ World.drivers = drivers /\ World.orders = orders /\ n \in 0..MaxOrders
      /\ w \in Good(n)
  BY WorldGood, AfterClosingGood DEF World
<1>2. /\ w.drivers = [x \in Driver |->
                        IF ~Affected(x, closed) THEN drivers[x]
                        ELSE IF Stranded(x, closed)
                        THEN [IdleAt(drivers[x].pos) EXCEPT !.progress = drivers[x].progress]
                        ELSE [drivers[x] EXCEPT !.route = Reroute(x, closed), !.index = 1]]
      /\ w.orders = [p \in DOMAIN orders |->
                       IF \E x \in Driver : drivers[x].order = p /\ Stranded(x, closed)
                       THEN [orders[p] EXCEPT !.status = "unassignable"]
                       ELSE orders[p]]
  BY DEF AfterClosing
<1> HIDE DEF w, n
<1>3. /\ drivers \in [Driver -> DriverRecord] /\ orders \in [1..n -> OrderRecord]
      /\ DOMAIN orders = 1..n
  BY <1>1, GoodWorld
<1>4. /\ c \in DriverRecord /\ c.pos \in Node /\ c.route \in Seq(Node) /\ c.status \in DriverStatus
      /\ o \in 0..MaxOrders /\ k \in Nat \ {0}
  BY <1>3 DEF DriverRecord, NotAhead
<1>5. o \in 1..n => t.driver = d
  BY OwnOrder DEF n
<1>6. ASSUME NEW x \in Driver, o \in 1..n, drivers[x].order = o PROVE x = d
  <2>1. orders[drivers[x].order].driver = x
    BY <1>6, OwnOrder DEF n
  <2> QED BY <1>5, <1>6, <2>1
<1>7. a = Row(c.pos, c.status, c.route, k, o) /\ a \in RowRecord
  <2>1. a = Row(c.pos, c.status, c.route, k, o)
    BY DEF RowOf
  <2> QED BY <1>4, <2>1, RowTyped
<1>8. CASE ~Affected(d, closed)
  <2>1. ~Stranded(d, closed)
    BY <1>8 DEF Stranded
  <2>2. w.drivers[d] = c
    BY <1>2, <1>8
  <2>3. o \in 1..n => w.orders[o] = t
    <3> SUFFICES ASSUME o \in 1..n PROVE w.orders[o] = t
      OBVIOUS
    <3>1. ~ \E x \in Driver : drivers[x].order = o /\ Stranded(x, closed)
      BY <1>6, <2>1
    <3> QED BY <1>2, <1>3, <3>1
  <2>4. e = <<>>
    BY <1>8 DEF RerouteEvents
  <2> DEFINE x == w.orders[o]
  <2> HIDE DEF o, t, x, a, e
  <2>5. Leads(n, d, a, a, o, t, x, <<>>)
    BY <2>3, LeadsNowhere DEF x
  <2> HIDE DEF c
  <2>6. NotAhead(k, w.drivers[d].index)
    BY <2>2 DEF c
  <2>7. a = RowOf(k, w.drivers[d])
    BY <2>2 DEF a
  <2>8. Leads(n, d, a, RowOf(k, w.drivers[d]), o, t, x, e)
    BY <2>4, <2>5, <2>7
  <2> QED BY <2>6, <2>8 DEF o, c, t, x, a, e, w, n
<1>9. CASE Affected(d, closed)
  <2>1. c.status # "idle" /\ Reroute(d, closed) \in Seq(Node)
    BY <1>9, AffectedBusy
  <2>2. o \in 1..n
    BY <1>1, <2>1, BusyDriver
  <2>3. CASE Stranded(d, closed)
    <3> DEFINE off == Row(c.pos, "idle", NoRoute, 1, NoOrder)
    <3>1. /\ w.drivers[d] = [IdleAt(c.pos) EXCEPT !.progress = c.progress]
          /\ w.orders[o] = [t EXCEPT !.status = "unassignable"]
      <4> HIDE DEF o
      <4>1. \E x \in Driver : drivers[x].order = o /\ Stranded(x, closed)
        BY <2>3 DEF o
      <4> QED BY <1>2, <1>3, <1>9, <2>2, <2>3, <4>1
    <3>2. RowOf(1, w.drivers[d]) = off /\ w.drivers[d].index = 1
      BY <3>1 DEF RowOf, Row, IdleAt
    <3>3. e = <<Invalidated(d), Unassignable(o), StatusChanged(d, "idle")>>
      BY <1>9, <2>3 DEF RerouteEvents
    <3> DEFINE x == w.orders[o]
               b == RowOf(1, w.drivers[d])
    <3> HIDE DEF e, off
    <3>4. ASSUME NEW v \in View(n), v.drivers[d] = a, v.orders[o] = t
          PROVE  FoldsTo(v, e, Put(v, d, b, [v.orders EXCEPT ![o] = x]))
      <4> DEFINE u1 == Apply(v, Invalidated(d))
                 u2 == Apply(u1, Unassignable(o))
                 u3 == Apply(u2, StatusChanged(d, "idle"))
      <4>1. u1 = v
        BY DEF Apply, Invalidated
      <4>2. u2 = Put(v, d, a, Stage(v.orders, o, "unassignable"))
        <5>1. Apply(v, Unassignable(o)) = Put(v, d, v.drivers[d], Stage(v.orders, o, "unassignable"))
          <6> HIDE DEF o
          <6> QED BY <2>2, ApplyOutcomes
        <5> HIDE DEF u1, a
        <5> QED BY <3>4, <4>1, <5>1
      <4>3. u2 = Shown(v, d, a, o, "unassignable")
        BY <4>2 DEF Shown
      <4> HIDE DEF u1, u2, a
      <4>4. /\ u2 \in View(n) /\ u2.drivers[d] = a
            /\ \A s : Put(u2, d, s, u2.orders) = Shown(v, d, s, o, "unassignable")
        <5>1. "unassignable" \in OrderStatus
          BY DEF OrderStatus
        <5> HIDE DEF o
        <5> QED BY <1>7, <2>2, <4>3, <5>1, ShownFields
      <4>5. u3 = Put(u2, d, off, u2.orders)
        <5> HIDE DEF c, o
        <5> QED BY <1>7, <4>4, ApplyIdle DEF off
      <4>6. u3 = Shown(v, d, off, o, "unassignable")
        BY <4>4, <4>5
      <4>7. Stage(v.orders, o, "unassignable") = [v.orders EXCEPT ![o] = x]
        <5> HIDE DEF o, t
        <5>1. Stage(v.orders, o, "unassignable") =
                [v.orders EXCEPT ![o] = [t EXCEPT !.status = "unassignable"]]
          BY <3>4 DEF Stage
        <5> QED BY <3>1, <5>1 DEF t, o
      <4> HIDE DEF u3, o, x, b
      <4>8. u3 = Put(v, d, b, [v.orders EXCEPT ![o] = x])
        BY <3>2, <4>6, <4>7 DEF Shown, b
      <4>9. FoldsTo(v, e, u3)
        BY <3>3, FoldsThree DEF u1, u2, u3
      <4> QED BY <4>8, <4>9
    <3> HIDE DEF a, x, b, o, t
    <3>5. Leads(n, d, a, b, o, t, x, e)
      BY <2>2, <3>4 DEF Leads
    <3>6. NotAhead(1, w.drivers[d].index)
      BY <3>2 DEF NotAhead
    <3> QED BY <3>5, <3>6 DEF o, c, t, x, a, b, e, w, n
  <2>4. CASE ~Stranded(d, closed)
    <3> DEFINE route == Reroute(d, closed)
               on == Row(c.pos, c.status, route, 1, o)
    <3>1. /\ w.drivers[d] = [c EXCEPT !.route = route, !.index = 1]
          /\ w.orders[o] = t
      <4>1. ~ \E x \in Driver : drivers[x].order = o /\ Stranded(x, closed)
        BY <1>6, <2>2, <2>4
      <4> QED BY <1>2, <1>3, <1>9, <2>2, <2>4, <4>1
    <3>2. RowOf(1, w.drivers[d]) = on /\ w.drivers[d].index = 1
      <4> HIDE DEF route
      <4>1. /\ w.drivers[d].pos = c.pos /\ w.drivers[d].status = c.status
            /\ w.drivers[d].route = route /\ w.drivers[d].index = 1 /\ w.drivers[d].order = o
        BY <1>4, <3>1 DEF DriverRecord
      <4> QED BY <4>1 DEF RowOf
    <3>3. e = <<Invalidated(d), Computed(d, route)>>
      BY <1>9, <2>4 DEF RerouteEvents
    <3> DEFINE x == w.orders[o]
               b == RowOf(1, w.drivers[d])
    <3> HIDE DEF e, on, route
    <3>4. ASSUME NEW v \in View(n), v.drivers[d] = a, v.orders[o] = t
          PROVE  FoldsTo(v, e, Put(v, d, b, [v.orders EXCEPT ![o] = x]))
      <4> DEFINE u1 == Apply(v, Invalidated(d))
                 u2 == Apply(u1, Computed(d, route))
      <4>1. u1 = v
        BY DEF Apply, Invalidated
      <4>2. Apply(v, Computed(d, route)) = Put(v, d, on, v.orders)
        <5> HIDE DEF a, c, o
        <5> QED BY <1>7, <3>4, ApplyComputed DEF on
      <4>3. [v.orders EXCEPT ![o] = x] = v.orders
        <5> HIDE DEF o, t
        <5>1. v.orders \in [1..n -> OrderRecord]
          BY ViewFields
        <5> QED BY <3>1, <3>4, <5>1
      <4> HIDE DEF u1, o, x, b
      <4>4. u2 = Put(v, d, b, [v.orders EXCEPT ![o] = x])
        BY <3>2, <4>1, <4>2, <4>3 DEF b
      <4> HIDE DEF u2
      <4>5. FoldsTo(v, e, u2)
        BY <3>3, FoldsTwo DEF u1, u2
      <4> QED BY <4>4, <4>5
    <3> HIDE DEF a, x, b, o, t
    <3>5. Leads(n, d, a, b, o, t, x, e)
      BY <2>2, <3>4 DEF Leads
    <3>6. NotAhead(1, w.drivers[d].index)
      BY <3>2 DEF NotAhead
    <3> QED BY <3>5, <3>6 DEF o, c, t, x, a, b, e, w, n
  <2> QED BY <2>3, <2>4
<1> QED BY <1>8, <1>9

\* recalculateAffectedRoutes.
LEMMA ReroutesFold ==
  ASSUME Inv, NEW k, Behind(k, drivers), NEW closed, NEW pause \in BOOLEAN, NEW E,
         E = [d \in Driver |-> RerouteEvents(d, closed)]
  PROVE  Carries(World, FlattenSeq(E), AfterClosing(closed), k, shut, pause)
<1> DEFINE w == AfterClosing(closed)
<1>1. w \in Good(Len(orders)) /\ shut \in SUBSET Road
  BY AfterClosingGood DEF Inv, TypeOK
<1>2. E = [d \in Driver |-> E[d]] /\ \A d \in Driver : E[d] = RerouteEvents(d, closed)
  OBVIOUS
<1>3. ASSUME NEW d \in Driver
      PROVE  \E j : /\ NotAhead(j, w.drivers[d].index)
                    /\ Leads(Len(orders), d, RowOf(k[d], drivers[d]), RowOf(j, w.drivers[d]),
                             drivers[d].order, orders[drivers[d].order],
                             w.orders[drivers[d].order], E[d])
  <2>1. NotAhead(k[d], drivers[d].index)
    BY DEF Behind, NotAhead
  <2> QED BY <1>2, <2>1, RerouteLeads
<1>4. ASSUME NEW o \in 1..Len(orders), \A d \in Driver : drivers[d].order # o
      PROVE  w.orders[o] = orders[o]
  <2>1. orders \in Seq(OrderRecord)
    BY DEF Inv, TypeOK
  <2>2. o \in DOMAIN orders
    BY <2>1, LenProperties
  <2> QED BY <1>4, <2>2 DEF AfterClosing
<1> HIDE DEF w
<1>5. Carries(World, FlattenSeq(E), w, k, shut, pause)
  BY <1>1, <1>2, <1>3, <1>4, AllDrivers
<1> QED BY <1>5 DEF w

-----------------------------------------------------------------------------
(***************************************************************************)
(* The fold beside the actor.                                               *)
(***************************************************************************)
\* The fold has what the actor has, at indexes of its own that are not ahead.
Follows == \E k : Behind(k, drivers) /\ view = Seen(k, drivers, orders, shut, paused)

FollowInv == HeadedInv /\ Follows

\* A snapshot shows the fold all there is.
LEMMA SnapshotSeen ==
  ASSUME NEW ds \in [Driver -> DriverRecord], NEW os, NEW closed, NEW pause
  PROVE  \E k : Behind(k, ds) /\ StateOf(ds, os, closed, pause) = Seen(k, ds, os, closed, pause)
<1> DEFINE k == [d \in Driver |-> ds[d].index]
<1>1. \A d \in Driver : ds[d].index \in Nat \ {0}
  BY DEF DriverRecord
<1>2. Behind(k, ds)
  BY <1>1 DEF Behind
<1>3. StateOf(ds, os, closed, pause) = Seen(k, ds, os, closed, pause)
  BY DEF StateOf, Seen, RowOf, Row
<1> HIDE DEF k
<1> QED BY <1>2, <1>3

\* What the handler's events carry the fold to is what it logs.
LEMMA LogFollows ==
  ASSUME NEW w, NEW e, NEW v, NEW k, Carries(w, e, v, k, shut, paused),
         view = Seen(k, w.drivers, w.orders, shut, paused), Log(e),
         drivers' = v.drivers, orders' = v.orders, shut' = shut, paused' = paused
  PROVE  Follows'
<1>1. PICK j : /\ Behind(j, v.drivers)
               /\ FoldsTo(Seen(k, w.drivers, w.orders, shut, paused), e,
                          Seen(j, v.drivers, v.orders, shut, paused))
  BY DEF Carries
<1>2. view' = Seen(j, v.drivers, v.orders, shut, paused)
  BY <1>1, FoldIs DEF Log
<1>3. Behind(j, drivers')
  BY <1>1
<1>4. view' = Seen(j, drivers', orders', shut', paused')
  BY <1>2
<1> QED BY <1>3, <1>4 DEF Follows

\* What FollowInv says, taken apart.
LEMMA FollowParts ==
  ASSUME FollowInv
  PROVE  /\ Inv /\ HeadedInv
         /\ World \in Good(Len(orders)) /\ World.drivers = drivers /\ World.orders = orders
         /\ Len(orders) \in 0..MaxOrders
         /\ drivers \in [Driver -> DriverRecord]
         /\ orders \in Seq(OrderRecord)
         /\ orders \in [1..Len(orders) -> OrderRecord]
         /\ shut \in SUBSET Road /\ paused \in BOOLEAN
         /\ \E k : Behind(k, drivers) /\ view = Seen(k, drivers, orders, shut, paused)
<1> DEFINE n == Len(orders)
<1>1. Inv /\ HeadedInv /\ Follows
  BY DEF FollowInv, HeadedInv
<1>2. World \in Good(n) /\ World.drivers = drivers /\ World.orders = orders /\ n \in 0..MaxOrders
  BY <1>1, WorldGood DEF World
<1>3. orders \in Seq(OrderRecord) /\ shut \in SUBSET Road /\ paused \in BOOLEAN
  BY <1>1 DEF Inv, TypeOK
<1> HIDE DEF n
<1>4. drivers \in [Driver -> DriverRecord] /\ orders \in [1..n -> OrderRecord]
  BY <1>2, GoodWorld
<1> QED BY <1>1, <1>2, <1>3, <1>4 DEF Follows, n

\* handlePlaceOrder.
LEMMA PlaceFollows ==
  ASSUME FollowInv, NEW t \in Trip, PlaceOrderLogged(t)
  PROVE  Follows'
<1> DEFINE order == [pickup |-> t[1], dest |-> t[2], status |-> "pending", driver |-> NoDriver]
           n == Len(orders)
           m == n + 1
           w == [World EXCEPT !.orders = Append(@, order)]
           v == AssignBaseline(w, m)
           e == AssignEvents(v, m)
           p == Placed(m, t)
<1>1. /\ drivers \in [Driver -> DriverRecord] /\ shut \in SUBSET Road /\ paused \in BOOLEAN
      /\ World.drivers = drivers /\ World.orders = orders /\ Inv
  BY FollowParts
<1>2. PICK k : Behind(k, drivers) /\ view = Seen(k, drivers, orders, shut, paused)
  BY FollowParts
<1>3. Commit(v) /\ Log(<<p>> \o e) /\ shut' = shut /\ paused' = paused /\ n < MaxOrders
  BY DEF PlaceOrderLogged, PlaceOrder
<1>4. w \in Good(m) /\ m \in 0..MaxOrders /\ m \in 1..m /\ w.orders[m].status = "pending"
  BY <1>1, <1>3, PlacedGood
<1>5. w.drivers = drivers /\ w.orders = Append(orders, order)
  BY DEF World
<1> DEFINE u == Seen(k, drivers, orders, shut, paused)
<1>6. Apply(u, p) = Seen(k, drivers, Append(orders, order), shut, paused)
  <2>1. Apply(u, p) = [u EXCEPT !.orders = Append(u.orders, order)]
    BY DEF Apply, Placed
  <2> HIDE DEF order
  <2> QED BY <2>1 DEF Seen
<1>7. FoldsTo(u, <<p>>, Apply(u, p))
  BY FoldsOne
<1> HIDE DEF w, p, m, n, u, order
<1>8. Carries(World, <<p>>, w, k, shut, paused)
  BY <1>1, <1>2, <1>5, <1>6, <1>7 DEF Carries, u
<1>9. \A j : Behind(j, w.drivers) => Carries(w, e, v, j, shut, paused)
  BY <1>1, <1>4, AssignFolds
<1> HIDE DEF e, v
<1>10. Carries(World, <<p>> \o e, v, k, shut, paused)
  BY <1>8, <1>9, CarriesOn
<1>11. drivers' = v.drivers /\ orders' = v.orders
  BY <1>3 DEF Commit
<1>12. view = Seen(k, World.drivers, World.orders, shut, paused)
  BY <1>1, <1>2
<1> QED BY <1>3, <1>10, <1>11, <1>12, LogFollows

\* tick: the drivers' moves, then the retries.
LEMMA TickFollows ==
  ASSUME FollowInv, TickLogged
  PROVE  Follows'
<1> DEFINE w == AfterMoves
           v == RetryPending(w)
           e == OfAllDrivers(MoveEvents)
           f == RetryEvents(w)
<1>1. /\ Inv /\ HeadedInv /\ Len(orders) \in 0..MaxOrders
      /\ shut \in SUBSET Road /\ paused \in BOOLEAN
      /\ World.drivers = drivers /\ World.orders = orders
  BY FollowParts
<1>2. PICK k : Behind(k, drivers) /\ view = Seen(k, drivers, orders, shut, paused)
  BY FollowParts
<1>3. Commit(v) /\ Log(e \o f) /\ shut' = shut /\ paused' = paused
  BY DEF TickLogged, Tick
<1>4. w \in Good(Len(orders))
  BY <1>1, AfterMovesGood
<1>5. Carries(World, e, w, k, shut, paused)
  BY <1>1, <1>2, MovesFold
<1> HIDE DEF w, e
<1>6. \A j : Behind(j, w.drivers) => Carries(w, f, v, j, shut, paused)
  BY <1>1, <1>4, RetryFolds
<1> HIDE DEF v, f
<1>7. Carries(World, e \o f, v, k, shut, paused)
  BY <1>5, <1>6, CarriesOn
<1>8. drivers' = v.drivers /\ orders' = v.orders
  BY <1>3 DEF Commit
<1>9. view = Seen(k, World.drivers, World.orders, shut, paused)
  BY <1>1, <1>2
<1> QED BY <1>3, <1>7, <1>8, <1>9, LogFollows

\* handleCloseRoad: the reroutes, then the road.
LEMMA CloseFollows ==
  ASSUME FollowInv, NEW r \in Road, CloseRoadLogged(r)
  PROVE  Follows'
<1> DEFINE closed == shut \union {r}
           w == AfterClosing(closed)
           E == [d \in Driver |-> RerouteEvents(d, closed)]
           e == FlattenSeq(E)
           x == Road_("road.closed", r)
<1>1. /\ Inv /\ paused \in BOOLEAN
      /\ World.drivers = drivers /\ World.orders = orders
  BY FollowParts
<1>2. PICK k : Behind(k, drivers) /\ view = Seen(k, drivers, orders, shut, paused)
  BY FollowParts
<1>3. Commit(w) /\ shut' = closed /\ paused' = paused /\ Log(Append(e, x))
  BY DEF CloseRoadLogged, CloseRoad, OfAllDrivers
<1> HIDE DEF e
<1>4. Carries(World, e, w, k, shut, paused)
  BY <1>1, <1>2, ReroutesFold DEF e
<1> HIDE DEF w, E
<1>5. PICK j : /\ Behind(j, w.drivers)
               /\ FoldsTo(Seen(k, World.drivers, World.orders, shut, paused), e,
                          Seen(j, w.drivers, w.orders, shut, paused))
  BY <1>4 DEF Carries
<1> DEFINE u == Seen(j, w.drivers, w.orders, shut, paused)
<1>6. Apply(u, x) = Seen(j, w.drivers, w.orders, closed, paused)
  <2>1. Apply(u, x) = [u EXCEPT !.shut = u.shut \union {r}]
    BY DEF Apply, Road_
  <2> QED BY <2>1 DEF Seen
<1> HIDE DEF u, x
<1>7. FoldsTo(view, Append(e, x), Apply(u, x))
  BY <1>1, <1>2, <1>5, FoldsNext DEF u
<1>8. view' = Apply(u, x)
  BY <1>3, <1>7, FoldIs DEF Log
<1>9. drivers' = w.drivers /\ orders' = w.orders
  BY <1>3 DEF Commit
<1>10. view' = Seen(j, drivers', orders', shut', paused') /\ Behind(j, drivers')
  BY <1>3, <1>5, <1>6, <1>8, <1>9
<1> QED BY <1>10 DEF Follows

\* The handlers that log one event and touch no driver or order.
LEMMA OneEvent ==
  ASSUME NEW e, Log(<<e>>)
  PROVE  view' = Apply(view, e)
BY FoldsOne, FoldIs DEF Log

\* ReopenRoad.
LEMMA ReopenFollows ==
  ASSUME FollowInv, NEW r \in Road, ReopenRoadLogged(r)
  PROVE  Follows'
<1> DEFINE x == Road_("road.reopened", r)
<1>1. PICK k : Behind(k, drivers) /\ view = Seen(k, drivers, orders, shut, paused)
  BY FollowParts
<1>2. view' = Apply(view, x)
  BY OneEvent DEF ReopenRoadLogged
<1>3. Apply(view, x) = [view EXCEPT !.shut = view.shut \ {r}]
  BY DEF Apply, Road_
<1>4. shut' = shut \ {r} /\ drivers' = drivers /\ orders' = orders /\ paused' = paused
  BY DEF ReopenRoadLogged, ReopenRoad
<1>5. view' = Seen(k, drivers, orders, shut \ {r}, paused)
  BY <1>1, <1>2, <1>3 DEF Seen
<1>6. view' = Seen(k, drivers', orders', shut', paused') /\ Behind(k, drivers')
  BY <1>1, <1>4, <1>5
<1> QED BY <1>6 DEF Follows

\* SetPaused.
LEMMA PauseFollows ==
  ASSUME FollowInv, NEW p \in BOOLEAN, SetPausedLogged(p)
  PROVE  Follows'
<1> DEFINE x == PauseChanged(p)
<1>1. PICK k : Behind(k, drivers) /\ view = Seen(k, drivers, orders, shut, paused)
  BY FollowParts
<1>2. view' = Apply(view, x)
  BY OneEvent DEF SetPausedLogged
<1>3. Apply(view, x) = [view EXCEPT !.paused = p]
  BY DEF Apply, PauseChanged
<1>4. shut' = shut /\ drivers' = drivers /\ orders' = orders /\ paused' = p
  BY DEF SetPausedLogged, SetPaused
<1>5. view' = Seen(k, drivers, orders, shut, p)
  BY <1>1, <1>2, <1>3 DEF Seen
<1>6. view' = Seen(k, drivers', orders', shut', paused') /\ Behind(k, drivers')
  BY <1>1, <1>4, <1>5
<1> QED BY <1>6 DEF Follows

\* A snapshot, of a reset world or of the world as it stands.
LEMMA SnapshotFollows ==
  ASSUME drivers' \in [Driver -> DriverRecord],
         view' = StateOf(drivers', orders', shut', paused')
  PROVE  Follows'
<1> DEFINE ds == drivers'
           os == orders'
           closed == shut'
           pause == paused'
<1>1. PICK k : Behind(k, ds) /\ StateOf(ds, os, closed, pause) = Seen(k, ds, os, closed, pause)
  BY SnapshotSeen
<1>2. Behind(k, drivers') /\ view' = Seen(k, drivers', orders', shut', paused')
  BY <1>1
<1> QED BY <1>2 DEF Follows

\* The steps of the log are steps of the actor.
LEMMA ReplaySteps ==
  ASSUME [ReplayNext]_replayVars
  PROVE  [Next]_vars
BY DEF ReplayNext, Next, PlaceOrderLogged, TickLogged, CloseRoadLogged, ReopenRoadLogged,
       SetPausedLogged, ResetLogged, TakeSnapshot, replayVars, vars

\* The run's opening snapshot.
LEMMA FollowInit == ReplayInit => FollowInv
<1> SUFFICES ASSUME ReplayInit PROVE FollowInv
  OBVIOUS
<1>1. HeadedInv
  BY HeadedInit DEF ReplayInit
<1>2. drivers \in [Driver -> DriverRecord]
  BY <1>1 DEF HeadedInv, Inv, TypeOK
<1>3. view = StateOf(drivers, orders, shut, paused)
  BY DEF ReplayInit
<1>4. Follows
  BY <1>2, <1>3, SnapshotSeen DEF Follows
<1> QED BY <1>1, <1>4 DEF FollowInv

\* Every step with its events.
LEMMA FollowNext == FollowInv /\ [ReplayNext]_replayVars => FollowInv'
<1> SUFFICES ASSUME FollowInv, [ReplayNext]_replayVars PROVE FollowInv'
  OBVIOUS
<1>1. HeadedInv'
  BY ReplaySteps, HeadedNext DEF FollowInv
<1>2. drivers' \in [Driver -> DriverRecord]
  BY <1>1 DEF HeadedInv, Inv, TypeOK
<1>3. ASSUME NEW t \in Trip, PlaceOrderLogged(t) PROVE Follows'
  BY <1>3, PlaceFollows
<1>4. ASSUME TickLogged PROVE Follows'
  BY <1>4, TickFollows
<1>5. ASSUME NEW r \in Road, CloseRoadLogged(r) PROVE Follows'
  BY <1>5, CloseFollows
<1>6. ASSUME NEW r \in Road, ReopenRoadLogged(r) PROVE Follows'
  BY <1>6, ReopenFollows
<1>7. ASSUME NEW p \in BOOLEAN, SetPausedLogged(p) PROVE Follows'
  BY <1>7, PauseFollows
<1>8. ASSUME ResetLogged PROVE Follows'
  <2> DEFINE state == StateOf(drivers', orders', shut', paused')
  <2>1. view' = Apply(view, SnapshotEvent(state))
    <3> DEFINE x == SnapshotEvent(state)
    <3>1. Log(<<x>>)
      BY <1>8 DEF ResetLogged
    <3> HIDE DEF x
    <3>2. view' = Apply(view, x)
      BY <3>1, OneEvent
    <3> QED BY <3>2 DEF x
  <2>2. view' = state
    <3> HIDE DEF state
    <3> QED BY <2>1 DEF Apply, SnapshotEvent
  <2> QED BY <1>2, <2>2, SnapshotFollows
<1>9. ASSUME TakeSnapshot PROVE Follows'
  <2>1. view' = StateOf(drivers', orders', shut', paused')
    BY <1>9 DEF TakeSnapshot, vars
  <2> QED BY <1>2, <2>1, SnapshotFollows
<1>10. ASSUME UNCHANGED replayVars PROVE Follows'
  <2>1. Follows
    BY DEF FollowInv
  <2> QED BY <1>10, <2>1 DEF Follows, replayVars
<1>11. Follows'
  BY <1>3, <1>4, <1>5, <1>6, <1>7, <1>8, <1>9, <1>10 DEF ReplayNext
<1> QED BY <1>1, <1>11 DEF FollowInv

\* The fold agrees with the actor but for the indexes.
LEMMA FollowAgrees == FollowInv => ReplayAgrees
<1> SUFFICES ASSUME FollowInv PROVE ReplayAgrees
  OBVIOUS
<1>1. PICK k : Behind(k, drivers) /\ view = Seen(k, drivers, orders, shut, paused)
  BY FollowParts
<1>2. \A d \in Driver : view.drivers[d] = RowOf(k[d], drivers[d])
  BY <1>1 DEF Seen
<1>3. \A d \in Driver : view.drivers[d].index = k[d]
  <2> TAKE d \in Driver
  <2>1. RowOf(k[d], drivers[d]).index = k[d]
    BY DEF RowOf, Row
  <2> QED BY <1>2, <2>1
<1>4. \A d \in Driver : [view.drivers[d] EXCEPT !.index = 1] =
                          [StateOf(drivers, orders, shut, paused).drivers[d] EXCEPT !.index = 1]
  <2> TAKE d \in Driver
  <2>1. StateOf(drivers, orders, shut, paused).drivers[d] = RowOf(drivers[d].index, drivers[d])
    BY DEF StateOf, RowOf, Row
  <2>2. [RowOf(k[d], drivers[d]) EXCEPT !.index = 1] = RowOf(1, drivers[d])
    BY DEF RowOf, Row
  <2>3. [RowOf(drivers[d].index, drivers[d]) EXCEPT !.index = 1] = RowOf(1, drivers[d])
    BY DEF RowOf, Row
  <2> QED BY <1>2, <2>1, <2>2, <2>3
<1>5. WithoutIndex(view) = WithoutIndex(StateOf(drivers, orders, shut, paused))
  <2> DEFINE s == StateOf(drivers, orders, shut, paused)
             rows == [d \in Driver |-> [view.drivers[d] EXCEPT !.index = 1]]
             state(r) == [drivers |-> r, orders |-> orders, shut |-> shut, paused |-> paused]
  <2>1. rows = [d \in Driver |-> [s.drivers[d] EXCEPT !.index = 1]]
    BY <1>4
  <2>2. WithoutIndex(view) = [view EXCEPT !.drivers = rows]
    BY DEF WithoutIndex
  <2>3. WithoutIndex(s) = [s EXCEPT !.drivers = [d \in Driver |-> [s.drivers[d] EXCEPT !.index = 1]]]
    BY DEF WithoutIndex
  <2>4. WithoutIndex(s) = [s EXCEPT !.drivers = rows]
    BY <2>1, <2>3
  <2> HIDE DEF rows
  <2>5. [view EXCEPT !.drivers = rows] = state(rows)
    BY <1>1 DEF Seen
  <2>6. [s EXCEPT !.drivers = rows] = state(rows)
    <3>1. s = state(s.drivers)
      BY DEF StateOf
    <3> DEFINE own == s.drivers
    <3>2. s = state(own)
      BY <3>1
    <3> HIDE DEF own, s
    <3> QED BY <3>2
  <2> QED BY <2>2, <2>4, <2>5, <2>6
<1>6. \A d \in Driver : /\ view.drivers[d].index <= drivers[d].index
                        /\ drivers[d].index = 1 => view.drivers[d].index = 1
  BY <1>1, <1>3 DEF Behind
<1> QED BY <1>5, <1>6 DEF ReplayAgrees

\* The fold of the log agrees with the actor after every step, whatever
\* snapshot it started from.
THEOREM ReplayAlwaysAgrees == ReplaySpec => []ReplayAgrees
<1>1. ReplayInit => FollowInv
  BY FollowInit
<1>2. FollowInv /\ [ReplayNext]_replayVars => FollowInv'
  BY FollowNext
<1>3. FollowInv => ReplayAgrees
  BY FollowAgrees
<1> QED BY <1>1, <1>2, <1>3, PTL DEF ReplaySpec
=============================================================================
