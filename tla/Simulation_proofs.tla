-------------------------- MODULE Simulation_proofs --------------------------
(***************************************************************************)
(* The dispatcher keeps its types and its pairing of drivers with orders,   *)
(* every driver on its course over open roads, and its queue in order and   *)
(* complete, and shows clients no more than a lifecycle of orders: for      *)
(* every city, every set of trips, and any number of drivers and orders.    *)
(* The first two go together: Pairing needs the types, and the types of an  *)
(* order a moving driver carries need Pairing (it has an order).  The       *)
(* others need both, and the courses also need what a route is.             *)
(*                                                                          *)
(* The proof follows the handlers.  A handler is a function from a world to *)
(* a world, so each has a lemma saying that it maps Good worlds to Good     *)
(* worlds, and the actions of Next only put the handlers together.          *)
(***************************************************************************)
EXTENDS Simulation, Iteration_proofs, FiniteSetTheorems

-----------------------------------------------------------------------------
(***************************************************************************)
(* What the simulation relies on FindRoute for: its result is a shortest    *)
(* open path whenever there is an open path at all.                         *)
(***************************************************************************)

\* A simple path is a non-empty sequence of nodes along roads.
LEMMA SimplePathType ==
  ASSUME NEW p \in SimplePath
  PROVE  /\ p \in Seq(Node)
         /\ Len(p) \in Nat \ {0}
         /\ \A i \in 1..Len(p)-1 : HopRoad(p, i) \in Road
<1>1. PICK n \in 1..Cardinality(Node) : p \in [1..n -> Node]
  BY DEF SimplePath
<1>2. Len(p) = n /\ p \in Seq(Node)
  BY <1>1
<1>3. n \in Nat \ {0}
  BY <1>1
<1> QED
  BY <1>2, <1>3 DEF SimplePath

\* The stages of a path's length: h[i] is the length of its first i roads.
RunningLengths(h, p) ==
  /\ h \in [0..Len(p)-1 -> Nat]
  /\ h[0] = 0
  /\ \A i \in 1..Len(p)-1 : h[i] = h[i-1] + Weight[HopRoad(p, i)]

\* The length of a path is reached in such stages.
LEMMA PathLengths ==
  ASSUME NEW p \in SimplePath
  PROVE  \E h : RunningLengths(h, p) /\ Distance(p) = h[Len(p)-1]
<1> DEFINE n == Len(p) - 1
           q == [i \in 1..n |-> i]
           Add(sum, i) == sum + Weight[HopRoad(p, i)]
           F == [x \in Nat \X (1..n) |-> Add(x[1], x[2])]
           acc == CHOOSE g : g = [i \in 0..Len(q) |-> IF i = 0 THEN 0 ELSE Add(g[i-1], q[i])]
<1>1. n \in Nat /\ \A i \in 1..n : Weight[HopRoad(p, i)] \in Nat
  BY SimplePathType, RoutingAssumption
<1>2. q \in Seq(1..n) /\ Len(q) = n
  BY <1>1
<1>3. ASSUME NEW s \in Nat, NEW x \in 1..n
      PROVE  F[<<s, x>>] = Add(s, x) /\ Add(s, x) \in Nat
  BY <1>1
<1>4. PICK h : /\ h \in [0..Len(q) -> Nat]
               /\ h[0] = 0
               /\ \A i \in 1..Len(q) : h[i] = F[<<h[i-1], q[i]>>]
  <2> DEFINE S == Nat
             Q == 1..n
             zero == 0
  <2>1. zero \in S
    OBVIOUS
  <2>2. q \in Seq(Q)
    BY <1>2
  <2>3. \A s \in S, x \in Q : F[<<s, x>>] \in S
    BY <1>3
  <2> HIDE DEF F, q, n, S, Q, zero
  <2>4. \E h : IsTypedRun(h, S, F, zero, q)
    BY <2>1, <2>2, <2>3, TypedRun
  <2> QED BY <2>4 DEF S, zero, IsTypedRun
<1>5. ASSUME NEW i \in 1..n
      PROVE  h[i] = Add(h[i-1], q[i]) /\ q[i] = i
  <2>1. i \in 1..Len(q) /\ i-1 \in 0..Len(q) /\ q[i] = i
    BY <1>1, <1>2
  <2>2. h[i-1] \in Nat /\ h[i] = F[<<h[i-1], q[i]>>]
    BY <2>1, <1>4
  <2>3. F[<<h[i-1], q[i]>>] = Add(h[i-1], q[i])
    BY <2>1, <2>2, <1>3
  <2> HIDE DEF Add, F
  <2> QED BY <2>1, <2>2, <2>3
<1>6. h = [i \in 0..Len(q) |-> IF i = 0 THEN 0 ELSE Add(h[i-1], q[i])]
  <2>1. ASSUME NEW i \in 0..Len(q)
        PROVE  h[i] = IF i = 0 THEN 0 ELSE Add(h[i-1], q[i])
    <3>1. i # 0 => i \in 1..n
      BY <1>1, <1>2
    <3> HIDE DEF Add
    <3> QED BY <1>4, <1>5, <3>1
  <2> QED BY <1>4, <2>1
<1>7. acc = [i \in 0..Len(q) |-> IF i = 0 THEN 0 ELSE Add(acc[i-1], q[i])]
  BY <1>6
<1>8. Distance(p) = acc[Len(q)]
  BY DEF Distance, Iterate, acc
<1> HIDE DEF acc
<1> DEFINE mark == [i \in 0..n |-> IF acc[i] = h[i] THEN 0 ELSE 1]
           Zero == {0}
<1>9. mark[0] \in Zero
  BY <1>1, <1>2, <1>4, <1>7
<1>10. ASSUME NEW i \in 1..n, mark[i-1] \in Zero
       PROVE  mark[i] \in Zero
  <2>1. i-1 \in 0..n /\ i \in 0..n /\ i \in 0..Len(q) /\ i # 0
    BY <1>1, <1>2
  <2>2. acc[i-1] = h[i-1]
    BY <1>10, <2>1
  <2>3. acc[i] = Add(acc[i-1], q[i])
    BY <1>7, <2>1
  <2>4. acc[i] = h[i]
    BY <1>5, <2>2, <2>3
  <2> QED BY <2>1, <2>4
<1>11. \A i \in 0..n : mark[i] \in Zero
  <2> HIDE DEF mark, Zero, n
  <2> QED BY <1>1, <1>9, <1>10, LoopInvariant
<1>12. acc[n] = h[n]
  BY <1>1, <1>11
<1>13. RunningLengths(h, p)
  <2>1. \A i \in 1..n : h[i] = h[i-1] + Weight[HopRoad(p, i)]
    BY <1>5
  <2> QED BY <1>2, <1>4, <2>1 DEF RunningLengths
<1> QED BY <1>2, <1>8, <1>12, <1>13

\* The length of a path is a natural number.
LEMMA DistanceType ==
  ASSUME NEW p \in SimplePath
  PROVE  Distance(p) \in Nat
<1>1. PICK h : RunningLengths(h, p) /\ Distance(p) = h[Len(p)-1]
  BY PathLengths
<1>2. Len(p)-1 \in 0..Len(p)-1
  BY SimplePathType
<1> QED BY <1>1, <1>2 DEF RunningLengths

\* FindRoute: a shortest open path, or NoRoute when no path is open.
THEOREM FindRouteCorrect ==
  ASSUME NEW closed, NEW a \in Node, NEW b \in Node
  PROVE  LET p == FindRoute(closed, a, b)
         IN  IF Reachable(closed, a, b)
             THEN /\ p \in OpenPaths(closed, a, b)
                  /\ \A r \in OpenPaths(closed, a, b) : Distance(p) <= Distance(r)
             ELSE p = NoRoute
<1> DEFINE open == OpenPaths(closed, a, b)
           T == {Distance(r) : r \in open}
<1>1. CASE open = {}
  BY <1>1 DEF FindRoute, Reachable
<1>2. CASE open # {}
  <2>1. \A r \in open : r \in SimplePath /\ Distance(r) \in Nat
    BY DistanceType DEF OpenPaths
  <2>2. T \in SUBSET Nat /\ T # {}
    BY <2>1, <1>2
  <2>3. PICK least \in T : \A k \in T : least <= k
    <3> HIDE DEF T
    <3> QED BY <2>2, LeastNatural
  <2>4. PICK p \in open : Distance(p) = least
    OBVIOUS
  <2>5. \A r \in open : Distance(p) <= Distance(r)
    BY <2>3, <2>4
  <2> HIDE DEF open
  <2>6. \E r \in open : \A s \in open : Distance(r) <= Distance(s)
    BY <2>5
  <2>7. FindRoute(closed, a, b) = CHOOSE r \in open : \A s \in open : Distance(r) <= Distance(s)
    BY <1>2 DEF FindRoute, open
  <2>8. /\ FindRoute(closed, a, b) \in open
        /\ \A r \in open : Distance(FindRoute(closed, a, b)) <= Distance(r)
    BY <2>6, <2>7
  <2> QED BY <1>2, <2>8 DEF Reachable, open
<1> QED
  BY <1>1, <1>2

-----------------------------------------------------------------------------
(***************************************************************************)
(* The estimate of the search is consistent: it never drops by more than    *)
(* the length of the road travelled.  It is the triangle inequality, with   *)
(* straight lines rounded down.                                             *)
(***************************************************************************)
\* Squares of natural numbers grow.
LEMMA SquaresGrow ==
  ASSUME NEW x \in Nat, NEW y \in Nat, x * x < y * y
  PROVE  x < y
<1>1. CASE y <= x
  <2>1. y * y <= x * y
    BY <1>1
  <2>2. x * y <= x * x
    BY <1>1
  <2> QED BY <2>1, <2>2
<1> QED BY <1>1

\* A square root, rounded down.
LEMMA SquareRoot ==
  ASSUME NEW sq \in Nat
  PROVE  \E k \in 0..sq : k * k <= sq /\ (k + 1) * (k + 1) > sq
<1> DEFINE T == {j \in Nat : (j + 1) * (j + 1) > sq}
<1>1. sq \in T
  OBVIOUS
<1>2. PICK k \in T : \A j \in T : k <= j
  <2>1. T \in SUBSET Nat /\ T # {}
    BY <1>1
  <2> HIDE DEF T
  <2> QED BY <2>1, LeastNatural
<1>3. k * k <= sq
  <2>1. CASE k = 0
    BY <2>1
  <2>2. CASE k # 0
    <3>1. k-1 \in Nat /\ ~(k-1 \in T)
      BY <1>2, <2>2
    <3>2. (k-1) + 1 = k
      BY <1>2
    <3>3. ~(k * k > sq)
      BY <3>1, <3>2
    <3> QED BY <3>3, <1>2
  <2> QED BY <2>1, <2>2
<1>4. k <= k * k
  <2>1. CASE k = 0
    BY <2>1
  <2>2. CASE k # 0
    <3>1. k \in Nat /\ k >= 1
      BY <1>2, <2>2
    <3>2. k * 1 <= k * k
      BY <3>1
    <3> QED BY <3>1, <3>2
  <2> QED BY <2>1, <2>2
<1>5. k \in 0..sq
  BY <1>2, <1>3, <1>4
<1> QED BY <1>2, <1>3, <1>5

\* Two vectors, the lengths of which are at most w and less than h + 1.
LEMMA Triangle ==
  ASSUME NEW a \in Int, NEW b \in Int, NEW c \in Int, NEW d \in Int,
         NEW w \in Nat, NEW h \in Nat, NEW k \in Nat,
         a * a + b * b <= w * w,
         c * c + d * d < (h + 1) * (h + 1),
         k * k <= (a + c) * (a + c) + (b + d) * (b + d)
  PROVE  k <= w + h
<1>1. PICK e \in Nat : e = h + 1
  OBVIOUS
<1>2. PICK P \in Nat : P = a * a + b * b
  <2>1. a * a >= 0 /\ b * b >= 0 /\ a * a \in Int /\ b * b \in Int
    OBVIOUS
  <2> QED BY <2>1
<1>3. PICK Q \in Nat : Q = c * c + d * d
  <2>1. c * c >= 0 /\ d * d >= 0 /\ c * c \in Int /\ d * d \in Int
    OBVIOUS
  <2> QED BY <2>1
<1>4. PICK x \in Int : x = a * c + b * d
  OBVIOUS
<1>5. PICK y \in Int : y = a * d - b * c
  OBVIOUS
<1>6. P * Q = x * x + y * y
  BY <1>2, <1>3, <1>4, <1>5
<1>7. x * x <= P * Q
  BY <1>6
<1>8. P * Q <= (w * w) * (e * e)
  <2>1. P <= w * w /\ Q <= e * e
    BY <1>1, <1>2, <1>3
  <2>2. PICK u \in Nat, v \in Nat : u = w * w /\ v = e * e
    OBVIOUS
  <2>3. P * Q <= u * Q
    BY <2>1, <2>2
  <2>4. u * Q <= u * v
    BY <2>1, <2>2
  <2> QED BY <2>2, <2>3, <2>4
<1>9. x <= w * e
  <2>1. PICK z \in Nat : z = w * e
    OBVIOUS
  <2>2. (w * w) * (e * e) = z * z
    BY <2>1
  <2>3. x * x <= z * z
    BY <1>7, <1>8, <2>2
  <2>4. CASE x > z
    <3>1. x * x > z * z
      BY <2>4
    <3> QED BY <2>3, <3>1
  <2> QED BY <2>1, <2>4
<1>10. (a + c) * (a + c) + (b + d) * (b + d) = P + 2 * x + Q
  BY <1>2, <1>3, <1>4
<1>11. P + 2 * x + Q < (w + e) * (w + e)
  <2>1. P <= w * w /\ Q < e * e
    BY <1>1, <1>2, <1>3
  <2>2. (w + e) * (w + e) = w * w + 2 * (w * e) + e * e
    OBVIOUS
  <2>3. PICK u \in Nat, v \in Nat, z \in Nat : u = w * w /\ v = e * e /\ z = w * e
    OBVIOUS
  <2> QED BY <1>9, <2>1, <2>2, <2>3
<1>12. k * k < (w + e) * (w + e)
  BY <1>10, <1>11
<1>13. k < w + e
  BY <1>12, SquaresGrow
<1> QED BY <1>1, <1>13

\* The square of the distance between two nodes.
SquareOf(n, goal) ==
  (Coord[n][1] - Coord[goal][1]) * (Coord[n][1] - Coord[goal][1]) +
  (Coord[n][2] - Coord[goal][2]) * (Coord[n][2] - Coord[goal][2])

\* The straight line to the goal, rounded down to whole units.
LEMMA HeuristicRoot ==
  ASSUME NEW n \in Node, NEW goal \in Node
  PROVE  /\ Heuristic(n, goal) \in Nat
         /\ Heuristic(n, goal) * Heuristic(n, goal) <= SquareOf(n, goal)
         /\ SquareOf(n, goal) < (Heuristic(n, goal) + 1) * (Heuristic(n, goal) + 1)
<1> DEFINE sq == SquareOf(n, goal)
<1>1. sq \in Nat
  <2>1. PICK dx \in Int, dy \in Int : /\ dx = Coord[n][1] - Coord[goal][1]
                                      /\ dy = Coord[n][2] - Coord[goal][2]
    BY CoordAssumption
  <2>2. dx * dx >= 0 /\ dy * dy >= 0 /\ dx * dx \in Int /\ dy * dy \in Int
    OBVIOUS
  <2> QED BY <2>1, <2>2 DEF SquareOf
<1>2. Heuristic(n, goal) = CHOOSE k \in 0..sq : k * k <= sq /\ (k + 1) * (k + 1) > sq
  BY DEF Heuristic, SquareOf
<1> HIDE DEF sq
<1>3. \E k \in 0..sq : k * k <= sq /\ (k + 1) * (k + 1) > sq
  BY <1>1, SquareRoot
<1>4. PICK k \in 0..sq : k = Heuristic(n, goal) /\ k * k <= sq /\ (k + 1) * (k + 1) > sq
  BY <1>2, <1>3
<1> QED BY <1>1, <1>4 DEF sq

\* The estimate is nothing at the goal, and consistent along every road.
LEMMA HeuristicAtGoal ==
  ASSUME NEW goal \in Node
  PROVE  Heuristic(goal, goal) = 0
<1>1. SquareOf(goal, goal) = 0
  <2>1. Coord[goal][1] \in Int /\ Coord[goal][2] \in Int
    BY CoordAssumption
  <2> QED BY <2>1 DEF SquareOf
<1>2. PICK k \in Nat : k = Heuristic(goal, goal) /\ k * k <= 0
  BY <1>1, HeuristicRoot
<1>3. CASE k >= 1
  <2>1. k * k >= k * 1
    BY <1>3
  <2> QED BY <1>2, <1>3, <2>1
<1> QED BY <1>2, <1>3

\* Along a road the estimate drops by no more than the road's length.
LEMMA HeuristicConsistent ==
  ASSUME NEW a \in Node, NEW b \in Node, NEW goal \in Node, {a, b} \in Road
  PROVE  Heuristic(a, goal) <= Weight[{a, b}] + Heuristic(b, goal)
<1>1. PICK ax \in Int, ay \in Int, bx \in Int, by \in Int, gx \in Int, gy \in Int :
        /\ ax = Coord[a][1] /\ ay = Coord[a][2]
        /\ bx = Coord[b][1] /\ by = Coord[b][2]
        /\ gx = Coord[goal][1] /\ gy = Coord[goal][2]
  BY CoordAssumption
<1>2. PICK w \in Nat : w = Weight[{a, b}]
  BY RoutingAssumption
<1>3. PICK p \in Int, q \in Int, r \in Int, s \in Int :
        p = ax - bx /\ q = ay - by /\ r = bx - gx /\ s = by - gy
  OBVIOUS
<1>4. p * p + q * q <= w * w
  BY <1>1, <1>2, <1>3, CoordAssumption
<1>5. PICK h \in Nat : h = Heuristic(b, goal) /\ SquareOf(b, goal) < (h + 1) * (h + 1)
  BY HeuristicRoot
<1>6. PICK k \in Nat : k = Heuristic(a, goal) /\ k * k <= SquareOf(a, goal)
  BY HeuristicRoot
<1>7. SquareOf(b, goal) = r * r + s * s
  BY <1>1, <1>3 DEF SquareOf
<1>8. SquareOf(a, goal) = (p + r) * (p + r) + (q + s) * (q + s)
  <2>1. p + r = ax - gx /\ q + s = ay - gy
    BY <1>3
  <2> QED BY <1>1, <2>1 DEF SquareOf
<1>9. k <= w + h
  <2>1. r * r + s * s < (h + 1) * (h + 1)
    BY <1>5, <1>7
  <2>2. k * k <= (p + r) * (p + r) + (q + s) * (q + s)
    BY <1>6, <1>8
  <2> QED BY <1>4, <2>1, <2>2, Triangle, Zenon
<1> QED BY <1>2, <1>5, <1>6, <1>9

-----------------------------------------------------------------------------
\* A finite set in a sequence, each member once.
LEMMA Sequenced ==
  ASSUME NEW S, IsFiniteSet(S)
  PROVE  /\ SetToSeq(S) \in Seq(S)
         /\ Len(SetToSeq(S)) = Cardinality(S)
         /\ \A i, j \in 1..Cardinality(S) : SetToSeq(S)[i] = SetToSeq(S)[j] => i = j
         /\ \A x \in S : \E i \in 1..Cardinality(S) : SetToSeq(S)[i] = x
<1> DEFINE n == Cardinality(S)
<1>1. n \in Nat /\ ExistsBijection(1..n, S)
  BY FS_CardinalityType
<1>2. PICK g \in Bijection(1..n, S) : TRUE
  BY <1>1 DEF ExistsBijection
<1>3. g \in [1..n -> S] /\ IsInjective(g)
  BY <1>2 DEF Bijection, Injection
<1>4. SetToSeq(S) = CHOOSE f \in [1..n -> S] : IsInjective(f)
  BY DEF SetToSeq
<1> HIDE DEF n
<1>5. PICK f \in [1..n -> S] : f = SetToSeq(S) /\ IsInjective(f)
  BY <1>3, <1>4
<1>6. f \in Injection(1..n, S)
  BY <1>5 DEF Injection
<1>7. Cardinality(1..n) = n
  BY <1>1, FS_Interval
<1>8. f \in Surjection(1..n, S)
  <2>1. Cardinality(1..n) = Cardinality(S)
    BY <1>7 DEF n
  <2> QED BY <1>6, <2>1, FS_Injection
<1>9. f \in Seq(S) /\ Len(f) = n
  BY <1>1, <1>5
<1> QED BY <1>5, <1>8, <1>9 DEF Surjection, IsInjective, n

-----------------------------------------------------------------------------
\* The roads in both directions.
Arc == {a \in Node \X Node : {a[1], a[2]} \in Road}

\* There are at most two arcs for a road.
LEMMA ArcsBounded ==
  /\ IsFiniteSet(Arc) /\ IsFiniteSet(Road)
  /\ Cardinality(Arc) <= 2 * Cardinality(Road)
<1>1. IsFiniteSet(Arc)
  <2>1. IsFiniteSet(Node \X Node)
    BY RoutingAssumption, FS_Product
  <2> QED BY <2>1, FS_Subset DEF Arc
<1>2. \A r \in Road : \E a \in Arc : {a[1], a[2]} = r
  <2> TAKE r \in Road
  <2>1. PICK x \in Node, y \in Node : r = {x, y}
    BY RoutingAssumption
  <2>2. <<x, y>> \in Arc
    BY <2>1 DEF Arc
  <2> QED BY <2>1, <2>2
<1>3. IsFiniteSet(Road)
  <2> DEFINE f == [a \in Arc |-> {a[1], a[2]}]
  <2>1. f \in [Arc -> Road]
    BY DEF Arc
  <2>2. f \in Surjection(Arc, Road)
    BY <1>2, <2>1 DEF Surjection
  <2> HIDE DEF f
  <2> QED BY <1>1, <2>2, FS_Surjection
<1> DEFINE one == [r \in Road |-> CHOOSE a \in Arc : {a[1], a[2]} = r]
           two == [r \in Road |-> <<one[r][2], one[r][1]>>]
           One == {one[r] : r \in Road}
           Two == {two[r] : r \in Road}
<1>4. \A r \in Road : one[r] \in Arc /\ {one[r][1], one[r][2]} = r
  BY <1>2
<1> HIDE DEF one
<1>5. /\ IsFiniteSet(One) /\ Cardinality(One) <= Cardinality(Road)
      /\ IsFiniteSet(Two) /\ Cardinality(Two) <= Cardinality(Road)
  <2>1. one \in [Road -> One] /\ two \in [Road -> Two]
    BY DEF one
  <2>2. one \in Surjection(Road, One)
    BY <2>1 DEF Surjection
  <2>3. two \in Surjection(Road, Two)
    BY <2>1 DEF Surjection
  <2> HIDE DEF two, One, Two
  <2> QED BY <1>3, <2>2, <2>3, FS_Surjection
<1>6. Arc \subseteq One \union Two
  <2> SUFFICES ASSUME NEW a \in Arc PROVE a \in One \union Two
    OBVIOUS
  <2>1. PICK x \in Node, y \in Node : a = <<x, y>> /\ {x, y} \in Road
    <3>1. PICK x \in Node, y \in Node : a = <<x, y>>
      BY DEF Arc
    <3>2. {a[1], a[2]} \in Road
      BY DEF Arc
    <3>3. a[1] = x /\ a[2] = y
      BY <3>1
    <3> QED BY <3>1, <3>2, <3>3
  <2>2. PICK p \in Node, q \in Node : one[{x, y}] = <<p, q>> /\ {p, q} = {x, y}
    <3> DEFINE b == one[{x, y}]
    <3>1. b \in Arc /\ {b[1], b[2]} = {x, y}
      BY <1>4, <2>1
    <3> HIDE DEF b
    <3>2. PICK p \in Node, q \in Node : b = <<p, q>>
      BY <3>1 DEF Arc
    <3>3. b[1] = p /\ b[2] = q
      BY <3>2
    <3> QED BY <3>1, <3>2, <3>3 DEF b
  <2>3. (p = x /\ q = y) \/ (p = y /\ q = x)
    BY <2>2
  <2>4. two[{x, y}] = <<q, p>>
    BY <2>1, <2>2
  <2> HIDE DEF two
  <2> QED BY <2>1, <2>2, <2>3, <2>4
<1>7. Cardinality(Arc) <= 2 * Cardinality(Road)
  <2> HIDE DEF One, Two
  <2>1. /\ IsFiniteSet(One \union Two)
        /\ Cardinality(One \union Two) =
             Cardinality(One) + Cardinality(Two) - Cardinality(One \cap Two)
    BY <1>5, FS_Union
  <2>2. IsFiniteSet(One \cap Two)
    BY <1>5, FS_Intersection
  <2>3. /\ Cardinality(One) \in Nat /\ Cardinality(Two) \in Nat /\ Cardinality(Road) \in Nat
        /\ Cardinality(One \cap Two) \in Nat /\ Cardinality(Arc) \in Nat
    BY <1>1, <1>3, <1>5, <2>2, FS_CardinalityType
  <2>4. Cardinality(Arc) <= Cardinality(One \union Two)
    BY <1>6, <2>1, FS_Subset
  <2> QED BY <1>5, <2>1, <2>3, <2>4
<1> QED BY <1>1, <1>3, <1>7

-----------------------------------------------------------------------------
(***************************************************************************)
(* The search.  Its states, and what it knows in them.                      *)
(***************************************************************************)
Entry == [node : Node, priority : Nat, seq : Nat]

SearchTyped ==
  [open : SUBSET Entry,
   gScore : UNION {[D -> Nat] : D \in SUBSET Node},
   cameFrom : UNION {[D -> Node] : D \in SUBSET Node},
   visited : SUBSET Node, seq : Nat, reached : BOOLEAN]

\* What node k would be pushed with.
Priority(s, goal, k) == s.gScore[k] + Heuristic(k, goal)

\* The heap holds each entry once, told apart by when it was pushed.
Distinct(s) == \A e, f \in s.open : e.seq < s.seq /\ (e.seq = f.seq => e = f)

\* Every node scored, but the start, was reached from a visited one over an
\* open road, and its score is the length of that way.
Backed(s, closed, start) ==
  /\ start \in DOMAIN s.gScore /\ s.gScore[start] = 0
  /\ DOMAIN s.cameFrom = DOMAIN s.gScore \ {start}
  /\ s.visited \subseteq DOMAIN s.gScore
  /\ \A k \in DOMAIN s.cameFrom :
       /\ s.cameFrom[k] \in s.visited
       /\ {s.cameFrom[k], k} \in Road \ closed
       /\ s.gScore[k] = s.gScore[s.cameFrom[k]] + Weight[{s.cameFrom[k], k}]

\* No entry promises too much, and the score of a node to be visited is in one.
Covered(s, goal) ==
  /\ \A e \in s.open : e.node \in DOMAIN s.gScore /\ Priority(s, goal, e.node) <= e.priority
  /\ \A k \in DOMAIN s.gScore \ s.visited :
       \E e \in s.open : e.node = k /\ e.priority = Priority(s, goal, k)

\* No entry comes before what has been visited.
InOrder(s, goal) == \A v \in s.visited, e \in s.open : Priority(s, goal, v) <= e.priority

\* The arcs R have been relaxed.
Relaxed(s, R) ==
  \A a \in R : /\ {a[1], a[2]} \in Road /\ a[1] \in s.visited /\ a[2] \in DOMAIN s.gScore
               /\ s.gScore[a[2]] <= s.gScore[a[1]] + Weight[{a[1], a[2]}]

\* Every push was for an arc, but the first.
PushesCounted(s, R) ==
  IsFiniteSet(s.open) /\ IsFiniteSet(R) /\ s.seq <= 1 + Cardinality(R)

\* The search is under way, with the arcs R relaxed.
Searching(s, closed, start, goal, R) ==
  /\ s \in SearchTyped /\ start \in Node /\ goal \in Node \ s.visited /\ ~s.reached
  /\ Distinct(s) /\ Backed(s, closed, start) /\ Covered(s, goal) /\ InOrder(s, goal)
  /\ Relaxed(s, R) /\ PushesCounted(s, R)

\* Node n was visited last.
Latest(s, goal, n) ==
  n \in s.visited /\ \A v \in s.visited : Priority(s, goal, v) <= Priority(s, goal, n)

\* How many entries have been popped.
Pops(s) == s.seq - Cardinality(s.open)

-----------------------------------------------------------------------------
\* Scores and origins are functions on the nodes scored.
LEMMA SearchFields ==
  ASSUME NEW s \in SearchTyped
  PROVE  /\ s = [open |-> s.open, gScore |-> s.gScore, cameFrom |-> s.cameFrom,
                 visited |-> s.visited, seq |-> s.seq, reached |-> s.reached]
         /\ s.open \subseteq Entry /\ s.visited \subseteq Node
         /\ s.seq \in Nat /\ s.reached \in BOOLEAN
         /\ DOMAIN s.gScore \subseteq Node /\ s.gScore \in [DOMAIN s.gScore -> Nat]
         /\ DOMAIN s.cameFrom \subseteq Node /\ s.cameFrom \in [DOMAIN s.cameFrom -> Node]
<1>1. PICK D \in SUBSET Node : s.gScore \in [D -> Nat]
  BY DEF SearchTyped
<1>2. PICK C \in SUBSET Node : s.cameFrom \in [C -> Node]
  BY DEF SearchTyped
<1>3. /\ s = [open |-> s.open, gScore |-> s.gScore, cameFrom |-> s.cameFrom,
              visited |-> s.visited, seq |-> s.seq, reached |-> s.reached]
      /\ s.open \subseteq Entry /\ s.visited \subseteq Node
      /\ s.seq \in Nat /\ s.reached \in BOOLEAN
  BY DEF SearchTyped
<1> QED BY <1>1, <1>2, <1>3

\* A function f with x for k.
With(f, k, x) == [j \in DOMAIN f \union {k} |-> IF j = k THEN x ELSE f[j]]

\* Relax, with the improved state written out.
NewEntry(s, m, t, goal) == [node |-> m, priority |-> t + Heuristic(m, goal), seq |-> s.seq]

Improved(s, n, m, t, goal) ==
  [open |-> s.open \union {NewEntry(s, m, t, goal)},
   gScore |-> With(s.gScore, m, t), cameFrom |-> With(s.cameFrom, m, n),
   visited |-> s.visited, seq |-> s.seq + 1, reached |-> s.reached]

\* Relax leaves the state as it is or improves it.
LEMMA RelaxIs ==
  ASSUME NEW s \in SearchTyped, NEW n, NEW m, NEW goal
  PROVE  LET t == s.gScore[n] + Weight[{n, m}]
         IN  Relax(s, n, m, goal) = IF m \in DOMAIN s.gScore /\ t >= s.gScore[m] THEN s
                                    ELSE Improved(s, n, m, t, goal)
<1> DEFINE t == s.gScore[n] + Weight[{n, m}]
           e == [node |-> m, priority |-> Estimate(t, m, goal), seq |-> s.seq]
           rec(a, b, c, d, x, y) ==
             [open |-> a, gScore |-> b, cameFrom |-> c, visited |-> d, seq |-> x, reached |-> y]
           put(r) == [r EXCEPT
             !.gScore = [k \in DOMAIN @ \union {m} |-> IF k = m THEN t ELSE @[k]],
             !.cameFrom = [k \in DOMAIN @ \union {m} |-> IF k = m THEN n ELSE @[k]],
             !.open = @ \union {e},
             !.seq = @ + 1]
<1>1. \A a, b, c, d, x, y :
        put(rec(a, b, c, d, x, y)) = rec(a \union {e}, With(b, m, t), With(c, m, n), d, x + 1, y)
  <2> TAKE a, b, c, d, x, y
  <2> DEFINE r == rec(a, b, c, d, x, y)
             g == [k \in DOMAIN b \union {m} |-> IF k = m THEN t ELSE b[k]]
             f == [k \in DOMAIN c \union {m} |-> IF k = m THEN n ELSE c[k]]
  <2>1. r.gScore = b /\ r.cameFrom = c /\ r.open = a /\ r.seq = x
    OBVIOUS
  <2>2. put(r) = [r EXCEPT !.gScore = g, !.cameFrom = f, !.open = a \union {e}, !.seq = x + 1]
    BY <2>1
  <2>3. g = With(b, m, t) /\ f = With(c, m, n)
    BY DEF With
  <2> HIDE DEF e, t, f, g
  <2>4. [r EXCEPT !.gScore = g, !.cameFrom = f, !.open = a \union {e}, !.seq = x + 1]
          = rec(a \union {e}, g, f, d, x + 1, y)
    <3>1. PICK o, z : o = a \union {e} /\ z = x + 1
      OBVIOUS
    <3>2. [r EXCEPT !.gScore = g] = rec(a, g, c, d, x, y)
      OBVIOUS
    <3>3. [rec(a, g, c, d, x, y) EXCEPT !.cameFrom = f] = rec(a, g, f, d, x, y)
      OBVIOUS
    <3>4. [rec(a, g, f, d, x, y) EXCEPT !.open = o] = rec(o, g, f, d, x, y)
      OBVIOUS
    <3>5. [rec(o, g, f, d, x, y) EXCEPT !.seq = z] = rec(o, g, f, d, z, y)
      OBVIOUS
    <3>6. [r EXCEPT !.gScore = g, !.cameFrom = f, !.open = o, !.seq = z] =
            [[[[r EXCEPT !.gScore = g] EXCEPT !.cameFrom = f] EXCEPT !.open = o] EXCEPT !.seq = z]
      OBVIOUS
    <3> HIDE DEF rec, r
    <3>7. [r EXCEPT !.gScore = g, !.cameFrom = f, !.open = o, !.seq = z] = rec(o, g, f, d, z, y)
      BY <3>2, <3>3, <3>4, <3>5, <3>6
    <3> QED BY <3>1, <3>7
  <2> QED BY <2>2, <2>3, <2>4
<1>2. s = rec(s.open, s.gScore, s.cameFrom, s.visited, s.seq, s.reached)
  BY SearchFields
<1>3. put(s) = Improved(s, n, m, t, goal)
  <2> HIDE DEF put, rec
  <2>1. put(s) = rec(s.open \union {e}, With(s.gScore, m, t), With(s.cameFrom, m, n), s.visited,
                     s.seq + 1, s.reached)
    BY <1>1, <1>2
  <2> QED BY <2>1 DEF rec, Improved, NewEntry, Estimate
<1>4. Relax(s, n, m, goal) = IF m \in DOMAIN s.gScore /\ t >= s.gScore[m] THEN s ELSE put(s)
  BY DEF Relax
<1> HIDE DEF put
<1> QED BY <1>3, <1>4

\* One more arc relaxed.
LEMMA OneMore ==
  ASSUME NEW R, IsFiniteSet(R), NEW a, a \notin R
  PROVE  /\ IsFiniteSet(R \union {a})
         /\ Cardinality(R) \in Nat /\ Cardinality(R \union {a}) = Cardinality(R) + 1
BY FS_AddElement, FS_CardinalityType

\* Relaxing the arc from the node visited last keeps all that the search knows.
\* A visited node is never improved: its priority comes first, and the estimate
\* is consistent.
LEMMA RelaxKeeps ==
  ASSUME NEW s, NEW closed, NEW start, NEW goal, NEW R, Searching(s, closed, start, goal, R),
         NEW n, Latest(s, goal, n), NEW m \in Node, {n, m} \in Road \ closed, <<n, m>> \notin R
  PROVE  LET u == Relax(s, n, m, goal)
         IN  /\ Searching(u, closed, start, goal, R \union {<<n, m>>})
             /\ Latest(u, goal, n) /\ u.visited = s.visited /\ Pops(u) = Pops(s)
<1> DEFINE w == Weight[{n, m}]
           g == s.gScore
           t == g[n] + w
           a == <<n, m>>
           P == R \union {a}
           H(k) == Heuristic(k, goal)
<1>1. /\ s \in SearchTyped /\ start \in Node /\ goal \in Node \ s.visited /\ ~s.reached
      /\ Distinct(s) /\ Backed(s, closed, start) /\ Covered(s, goal) /\ InOrder(s, goal)
      /\ Relaxed(s, R) /\ PushesCounted(s, R)
  BY DEF Searching
<1>2. /\ s.open \subseteq Entry /\ s.visited \subseteq Node /\ s.seq \in Nat
      /\ s.reached \in BOOLEAN /\ DOMAIN g \subseteq Node /\ g \in [DOMAIN g -> Nat]
      /\ DOMAIN s.cameFrom \subseteq Node /\ s.cameFrom \in [DOMAIN s.cameFrom -> Node]
  BY <1>1, SearchFields
<1>3. /\ n \in s.visited /\ n \in DOMAIN g /\ n \in Node /\ s.visited \subseteq DOMAIN g
      /\ start \in DOMAIN g /\ g[start] = 0
  BY <1>1, <1>2 DEF Latest, Backed
<1>4. w \in Nat /\ w > 0 /\ n # m
  BY RoutingAssumption
<1>5. t \in Nat /\ t > g[n] /\ g[n] \in Nat
  BY <1>2, <1>3, <1>4
<1>6. \A k \in Node : H(k) \in Nat
  BY <1>1, HeuristicRoot
<1>7. H(n) <= w + H(m)
  BY <1>1, <1>3, HeuristicConsistent
<1>8. \A v \in s.visited : g[v] + H(v) <= g[n] + H(n)
  BY DEF Latest, Priority
<1>9. /\ IsFiniteSet(s.open) /\ IsFiniteSet(P) /\ Cardinality(R) \in Nat
      /\ s.seq <= 1 + Cardinality(R) /\ Cardinality(P) = Cardinality(R) + 1
  BY <1>1, OneMore DEF PushesCounted
<1>10. Relax(s, n, m, goal) = IF m \in DOMAIN g /\ t >= g[m] THEN s ELSE Improved(s, n, m, t, goal)
  BY <1>1, RelaxIs
<1>11. CASE m \in DOMAIN g /\ t >= g[m]
  <2>1. Relaxed(s, P)
    <3> SUFFICES ASSUME NEW b \in P
                 PROVE  /\ {b[1], b[2]} \in Road /\ b[1] \in s.visited /\ b[2] \in DOMAIN g
                        /\ g[b[2]] <= g[b[1]] + Weight[{b[1], b[2]}]
      BY DEF Relaxed
    <3>1. CASE b \in R
      BY <1>1, <3>1 DEF Relaxed
    <3>2. CASE b = a
      <4>1. b[1] = n /\ b[2] = m
        BY <3>2
      <4>2. g[m] \in Nat /\ g[m] <= t
        BY <1>2, <1>5, <1>11
      <4> QED BY <1>3, <1>11, <4>1, <4>2
    <3> QED BY <3>1, <3>2
  <2>2. PushesCounted(s, P)
    BY <1>2, <1>9 DEF PushesCounted
  <2>3. Searching(s, closed, start, goal, P)
    BY <1>1, <2>1, <2>2 DEF Searching
  <2>4. Relax(s, n, m, goal) = s
    BY <1>10, <1>11
  <2> QED BY <2>3, <2>4
<1>12. CASE ~(m \in DOMAIN g /\ t >= g[m])
  <2> DEFINE u == Improved(s, n, m, t, goal)
             e == NewEntry(s, m, t, goal)
  <2>1. /\ u.open = s.open \union {e} /\ u.gScore = With(g, m, t)
        /\ u.cameFrom = With(s.cameFrom, m, n) /\ u.visited = s.visited
        /\ u.seq = s.seq + 1 /\ u.reached = s.reached
        /\ u = [open |-> u.open, gScore |-> u.gScore, cameFrom |-> u.cameFrom,
                visited |-> u.visited, seq |-> u.seq, reached |-> u.reached]
    BY DEF Improved
  <2>2. e \in Entry /\ e.node = m /\ e.priority = t + H(m) /\ e.seq = s.seq
    BY <1>2, <1>5, <1>6 DEF NewEntry, Entry
  <2> HIDE DEF u, e
  <2>3. /\ u.gScore \in [DOMAIN g \union {m} -> Nat] /\ DOMAIN u.gScore = DOMAIN g \union {m}
        /\ u.gScore[m] = t
        /\ \A k \in DOMAIN g : k # m => u.gScore[k] = g[k]
    <3> HIDE DEF g, t
    <3>1. PICK D : D = DOMAIN g
      OBVIOUS
    <3>2. g \in [D -> Nat] /\ t \in Nat
      BY <1>2, <1>5, <3>1
    <3>3. /\ With(g, m, t) \in [D \union {m} -> Nat]
          /\ DOMAIN With(g, m, t) = D \union {m}
          /\ With(g, m, t)[m] = t
          /\ \A k \in D : k # m => With(g, m, t)[k] = g[k]
      BY <3>2 DEF With
    <3> QED BY <2>1, <3>1, <3>3
  <2>4. /\ u.cameFrom \in [DOMAIN s.cameFrom \union {m} -> Node]
        /\ DOMAIN u.cameFrom = DOMAIN s.cameFrom \union {m}
        /\ u.cameFrom[m] = n
        /\ \A k \in DOMAIN s.cameFrom : k # m => u.cameFrom[k] = s.cameFrom[k]
    <3>1. PICK D, f : D = DOMAIN s.cameFrom /\ f = s.cameFrom
      OBVIOUS
    <3>2. f \in [D -> Node] /\ n \in Node
      BY <1>2, <1>3, <3>1
    <3>3. /\ With(f, m, n) \in [D \union {m} -> Node]
          /\ DOMAIN With(f, m, n) = D \union {m}
          /\ With(f, m, n)[m] = n
          /\ \A k \in D : k # m => With(f, m, n)[k] = f[k]
      BY <3>2 DEF With
    <3> QED BY <2>1, <3>1, <3>3
  <2>5. m \notin s.visited
    <3> SUFFICES ASSUME m \in s.visited PROVE FALSE
      OBVIOUS
    <3>1. m \in DOMAIN g /\ g[m] \in Nat
      BY <1>2, <1>3
    <3>2. g[m] + H(m) <= g[n] + H(n)
      BY <1>8
    <3>3. H(m) \in Nat /\ H(n) \in Nat
      BY <1>3, <1>6
    <3> HIDE DEF H, g, w
    <3>4. g[m] <= t
      BY <1>4, <1>5, <1>7, <3>1, <3>2, <3>3
    <3> QED BY <1>5, <1>12, <3>1, <3>4
  <2>6. m # start
    BY <1>3, <1>5, <1>12
  <2>7. \A k \in DOMAIN g : u.gScore[k] \in Nat /\ g[k] \in Nat /\ u.gScore[k] <= g[k]
    BY <1>2, <1>5, <1>12, <2>3
  <2>8. \A v \in s.visited : v \in DOMAIN g /\ u.gScore[v] = g[v]
    BY <1>3, <2>3, <2>5
  <2>9. u \in SearchTyped
    <3>1. /\ u.open \in SUBSET Entry /\ u.visited \in SUBSET Node
          /\ u.seq \in Nat /\ u.reached \in BOOLEAN
      BY <1>1, <1>2, <2>1, <2>2
    <3>2. DOMAIN g \union {m} \in SUBSET Node /\ DOMAIN s.cameFrom \union {m} \in SUBSET Node
      BY <1>2
    <3>3. u.gScore \in UNION {[D -> Nat] : D \in SUBSET Node}
      <4>1. PICK D \in SUBSET Node : D = DOMAIN g \union {m}
        BY <3>2
      <4>2. u.gScore \in [D -> Nat]
        BY <2>3, <4>1
      <4> QED BY <4>2
    <3>4. u.cameFrom \in UNION {[D -> Node] : D \in SUBSET Node}
      <4>1. PICK D \in SUBSET Node : D = DOMAIN s.cameFrom \union {m}
        BY <3>2
      <4>2. u.cameFrom \in [D -> Node]
        BY <2>4, <4>1
      <4> QED BY <4>2
    <3> HIDE DEF g
    <3> QED BY <2>1, <3>1, <3>3, <3>4 DEF SearchTyped
  <2>10. Distinct(u)
    BY <1>1, <1>2, <2>1, <2>2 DEF Distinct, Entry
  <2>11. Backed(u, closed, start)
    <3>1. /\ start \in DOMAIN u.gScore /\ u.gScore[start] = 0
          /\ DOMAIN u.cameFrom = DOMAIN u.gScore \ {start}
          /\ u.visited \subseteq DOMAIN u.gScore
      <4>1. DOMAIN s.cameFrom = DOMAIN g \ {start}
        BY <1>1 DEF Backed
      <4> HIDE DEF g, t
      <4>2. start \in DOMAIN u.gScore /\ u.gScore[start] = 0
        BY <1>3, <2>3, <2>6
      <4>3. DOMAIN u.cameFrom = DOMAIN u.gScore \ {start}
        BY <2>3, <2>4, <2>6, <4>1
      <4>4. u.visited \subseteq DOMAIN u.gScore
        BY <1>3, <2>1, <2>3
      <4> QED BY <4>2, <4>3, <4>4
    <3>2. ASSUME NEW k \in DOMAIN u.cameFrom
          PROVE  /\ u.cameFrom[k] \in u.visited
                 /\ {u.cameFrom[k], k} \in Road \ closed
                 /\ u.gScore[k] = u.gScore[u.cameFrom[k]] + Weight[{u.cameFrom[k], k}]
      <4>1. CASE k = m
        BY <1>3, <2>1, <2>3, <2>4, <2>8, <4>1
      <4>2. CASE k # m
        <5>1. k \in DOMAIN s.cameFrom /\ u.cameFrom[k] = s.cameFrom[k] /\ k \in DOMAIN g
          BY <1>1, <2>4, <4>2 DEF Backed
        <5>2. /\ s.cameFrom[k] \in s.visited /\ {s.cameFrom[k], k} \in Road \ closed
              /\ g[k] = g[s.cameFrom[k]] + Weight[{s.cameFrom[k], k}]
          BY <1>1, <5>1 DEF Backed
        <5>3. u.gScore[k] = g[k] /\ u.gScore[s.cameFrom[k]] = g[s.cameFrom[k]]
          BY <2>3, <2>8, <4>2, <5>1, <5>2
        <5> QED BY <2>1, <5>1, <5>2, <5>3
      <4> QED BY <4>1, <4>2
    <3> QED BY <3>1, <3>2 DEF Backed
  <2>12. Covered(u, goal)
    <3>1. ASSUME NEW f \in u.open
          PROVE  f.node \in DOMAIN u.gScore /\ u.gScore[f.node] + H(f.node) <= f.priority
      <4>1. CASE f = e
        <5>1. f.node = m /\ f.priority = t + H(m)
          BY <2>2, <4>1
        <5>2. t + H(m) \in Nat
          BY <1>5, <1>6
        <5> HIDE DEF t, H
        <5> QED BY <2>3, <5>1, <5>2
      <4>2. CASE f # e
        <5>1. f \in s.open /\ f.node \in DOMAIN g /\ g[f.node] + H(f.node) <= f.priority
          BY <1>1, <2>1, <4>2 DEF Covered, Priority
        <5>2. f.priority \in Nat /\ f.node \in Node /\ H(f.node) \in Nat
          BY <1>2, <1>6, <5>1 DEF Entry
        <5> HIDE DEF H
        <5> QED BY <2>3, <2>7, <5>1, <5>2
      <4> QED BY <4>1, <4>2
    <3>2. ASSUME NEW k \in DOMAIN u.gScore \ u.visited
          PROVE  \E f \in u.open : f.node = k /\ f.priority = u.gScore[k] + H(k)
      <4>1. CASE k = m
        BY <2>1, <2>2, <2>3, <4>1
      <4>2. CASE k # m
        <5>1. k \in DOMAIN g \ s.visited /\ u.gScore[k] = g[k]
          BY <2>1, <2>3, <4>2
        <5>2. PICK f \in s.open : f.node = k /\ f.priority = g[k] + H(k)
          BY <1>1, <5>1 DEF Covered, Priority
        <5> QED BY <2>1, <5>1, <5>2
      <4> QED BY <4>1, <4>2
    <3> QED BY <3>1, <3>2 DEF Covered, Priority
  <2>13. InOrder(u, goal)
    <3> SUFFICES ASSUME NEW v \in u.visited, NEW f \in u.open
                 PROVE  u.gScore[v] + H(v) <= f.priority
      BY DEF InOrder, Priority
    <3>1. v \in s.visited /\ u.gScore[v] = g[v] /\ g[v] \in Nat /\ v \in Node
      BY <1>2, <2>1, <2>8
    <3>2. CASE f \in s.open
      BY <1>1, <3>1, <3>2 DEF InOrder, Priority
    <3>3. CASE f = e
      <4>1. f.priority = t + H(m)
        BY <2>2, <3>3
      <4>2. g[v] + H(v) <= g[n] + H(n)
        BY <1>8, <3>1
      <4>3. H(v) \in Nat /\ H(n) \in Nat /\ H(m) \in Nat
        BY <1>3, <1>6, <3>1
      <4> HIDE DEF H, w, g
      <4> QED BY <1>4, <1>5, <1>7, <3>1, <4>1, <4>2, <4>3
    <3> QED BY <2>1, <3>2, <3>3
  <2>14. Relaxed(u, P)
    <3> SUFFICES ASSUME NEW b \in P
                 PROVE  /\ {b[1], b[2]} \in Road
                        /\ b[1] \in u.visited /\ b[2] \in DOMAIN u.gScore
                        /\ u.gScore[b[2]] <= u.gScore[b[1]] + Weight[{b[1], b[2]}]
      BY DEF Relaxed
    <3>1. CASE b = a
      <4>1. b[1] = n /\ b[2] = m
        BY <3>1
      <4>2. u.gScore[n] = g[n] /\ u.gScore[m] = t
        BY <1>3, <2>3, <2>8
      <4>3. n \in u.visited /\ m \in DOMAIN u.gScore /\ {n, m} \in Road
        BY <1>3, <2>1, <2>3
      <4>4. t = g[n] + Weight[{n, m}] /\ t \in Nat
        BY <1>5
      <4> HIDE DEF t, g, w
      <4> QED BY <4>1, <4>2, <4>3, <4>4
    <3>2. CASE b \in R
      <4>1. PICK x, y, z : x = b[1] /\ y = b[2] /\ z = Weight[{b[1], b[2]}]
        OBVIOUS
      <4>2. /\ {x, y} \in Road /\ x \in s.visited /\ y \in DOMAIN g /\ g[y] <= g[x] + z
            /\ z \in Nat
        BY <1>1, <3>2, <4>1, RoutingAssumption DEF Relaxed
      <4>3. u.gScore[x] = g[x] /\ g[x] \in Nat /\ u.gScore[y] <= g[y] /\ u.gScore[y] \in Nat
        BY <1>2, <2>7, <2>8, <4>2
      <4>4. u.gScore[y] <= u.gScore[x] + z
        <5>1. g[y] \in Nat
          BY <2>7, <4>2
        <5> QED BY <4>2, <4>3, <5>1
      <4> QED BY <2>1, <2>3, <4>1, <4>2, <4>4
    <3> QED BY <3>1, <3>2
  <2>15. e \notin s.open
    BY <1>1, <1>2, <2>2 DEF Distinct
  <2>16. /\ IsFiniteSet(u.open) /\ Cardinality(s.open) \in Nat
         /\ Cardinality(u.open) = Cardinality(s.open) + 1
    BY <1>9, <2>1, <2>15, OneMore
  <2>17. PushesCounted(u, P)
    BY <1>2, <1>9, <2>1, <2>16 DEF PushesCounted
  <2>18. Pops(u) = Pops(s)
    BY <1>2, <2>1, <2>16 DEF Pops
  <2>19. Latest(u, goal, n)
    <3>1. \A v \in s.visited : u.gScore[v] + H(v) <= u.gScore[n] + H(n)
      BY <1>3, <1>8, <2>8
    <3> QED BY <1>3, <2>1, <3>1 DEF Latest, Priority
  <2>20. Searching(u, closed, start, goal, P)
    BY <1>1, <2>1, <2>9, <2>10, <2>11, <2>12, <2>13, <2>14, <2>17 DEF Searching
  <2>21. Relax(s, n, m, goal) = u
    BY <1>10, <1>12 DEF u
  <2> QED BY <2>1, <2>18, <2>19, <2>20, <2>21
<1> QED BY <1>11, <1>12

\* The entry at the top of the heap.
Top(s) == CHOOSE e \in s.open : \A f \in s.open : e = f \/ Sooner(e, f)

\* It is there, and no entry has a lesser priority.
LEMMA TopIsLeast ==
  ASSUME NEW s \in SearchTyped, Distinct(s), s.open # {}
  PROVE  Top(s) \in s.open /\ \A f \in s.open : Top(s).priority <= f.priority
<1> DEFINE P == {e.priority : e \in s.open}
           Q(p) == {e.seq : e \in {f \in s.open : f.priority = p}}
<1>1. \A e \in s.open : e.priority \in Nat /\ e.seq \in Nat
  BY SearchFields DEF Entry
<1>2. PICK p \in P : \A k \in P : p <= k
  <2>1. P \in SUBSET Nat /\ P # {}
    BY <1>1
  <2> HIDE DEF P
  <2> QED BY <2>1, LeastNatural
<1>3. PICK q \in Q(p) : \A k \in Q(p) : q <= k
  <2>1. Q(p) \in SUBSET Nat /\ Q(p) # {}
    BY <1>1, <1>2
  <2> HIDE DEF Q
  <2> QED BY <2>1, LeastNatural
<1>4. PICK e \in s.open : e.priority = p /\ e.seq = q
  BY <1>3
<1>5. \A f \in s.open : e = f \/ Sooner(e, f)
  <2> SUFFICES ASSUME NEW f \in s.open, e # f PROVE Sooner(e, f)
    OBVIOUS
  <2>1. p <= f.priority /\ f.priority \in Nat /\ p \in Nat /\ f.seq \in Nat /\ q \in Nat
    BY <1>1, <1>2, <1>4
  <2>2. CASE p = f.priority
    <3>1. q <= f.seq
      BY <1>3, <2>2
    <3>2. q # f.seq
      BY <1>4 DEF Distinct
    <3> QED BY <1>4, <2>1, <2>2, <3>1, <3>2 DEF Sooner
  <2> QED BY <1>4, <2>1, <2>2 DEF Sooner
<1>6. PICK t \in s.open : t = Top(s) /\ \A f \in s.open : t = f \/ Sooner(t, f)
  BY <1>4, <1>5 DEF Top
<1>7. \A f \in s.open : t.priority <= f.priority
  BY <1>1, <1>6 DEF Sooner
<1> QED BY <1>6, <1>7

-----------------------------------------------------------------------------
\* The state with entry e popped and the nodes V visited.
After(s, e, V, done) ==
  [open |-> s.open \ {e}, gScore |-> s.gScore, cameFrom |-> s.cameFrom,
   visited |-> V, seq |-> s.seq, reached |-> done]

\* An entry popped, and its node visited: the search goes on, and the node is
\* the latest.
LEMMA PopKeeps ==
  ASSUME NEW s, NEW closed, NEW start, NEW goal, NEW R, Searching(s, closed, start, goal, R),
         NEW e \in s.open, \A f \in s.open : e.priority <= f.priority, e.node # goal
  PROVE  LET u == After(s, e, s.visited \union {e.node}, s.reached)
         IN  /\ Searching(u, closed, start, goal, R) /\ Pops(u) = Pops(s) + 1
             /\ e.node \notin s.visited => Latest(u, goal, e.node)
<1> DEFINE u == After(s, e, s.visited \union {e.node}, s.reached)
           n == e.node
           g == s.gScore
<1>1. /\ s \in SearchTyped /\ start \in Node /\ goal \in Node \ s.visited /\ ~s.reached
      /\ Distinct(s) /\ Backed(s, closed, start) /\ Covered(s, goal) /\ InOrder(s, goal)
      /\ Relaxed(s, R) /\ PushesCounted(s, R)
  BY DEF Searching
<1>2. /\ s.open \subseteq Entry /\ s.visited \subseteq Node /\ s.seq \in Nat
      /\ s.reached \in BOOLEAN /\ DOMAIN g \subseteq Node /\ g \in [DOMAIN g -> Nat]
  BY <1>1, SearchFields
<1>3. /\ u.open = s.open \ {e} /\ u.gScore = g /\ u.cameFrom = s.cameFrom
      /\ u.visited = s.visited \union {n} /\ u.seq = s.seq /\ u.reached = s.reached
      /\ u = [open |-> u.open, gScore |-> u.gScore, cameFrom |-> u.cameFrom,
              visited |-> u.visited, seq |-> u.seq, reached |-> u.reached]
  BY DEF After
<1>4. n \in DOMAIN g /\ n \in Node /\ Priority(s, goal, n) <= e.priority
  BY <1>1, <1>2 DEF Covered
<1>5. \A v \in DOMAIN g : Priority(s, goal, v) \in Nat
  <2>1. \A v \in DOMAIN g : g[v] \in Nat /\ Heuristic(v, goal) \in Nat
    BY <1>1, <1>2, HeuristicRoot
  <2> QED BY <2>1 DEF Priority
<1>6. \A f \in s.open : f.priority \in Nat
  BY <1>2 DEF Entry
<1>7. \A v \in Node : Priority(u, goal, v) = Priority(s, goal, v)
  BY <1>3 DEF Priority
<1>8. s.visited \subseteq DOMAIN g
  BY <1>1 DEF Backed
<1> HIDE DEF u, g, n
<1>9. u \in SearchTyped
  <2>1. u.open \in SUBSET Entry /\ u.visited \in SUBSET Node
    BY <1>2, <1>3, <1>4
  <2>2. /\ s.gScore \in UNION {[D -> Nat] : D \in SUBSET Node}
        /\ s.cameFrom \in UNION {[D -> Node] : D \in SUBSET Node}
    BY <1>1 DEF SearchTyped
  <2> QED BY <1>2, <1>3, <2>1, <2>2 DEF SearchTyped, g
<1>10. Distinct(u)
  BY <1>1, <1>3 DEF Distinct
<1>11. Backed(u, closed, start)
  BY <1>1, <1>3, <1>4 DEF Backed, g
<1>12. Covered(u, goal)
  <2>1. \A f \in u.open : f.node \in DOMAIN u.gScore /\ Priority(u, goal, f.node) <= f.priority
    BY <1>1, <1>2, <1>3, <1>7 DEF Covered, g
  <2>2. ASSUME NEW k \in DOMAIN u.gScore \ u.visited
        PROVE  \E f \in u.open : f.node = k /\ f.priority = Priority(u, goal, k)
    <3>1. k \in DOMAIN s.gScore \ s.visited /\ k # n /\ k \in Node
      BY <1>2, <1>3 DEF g
    <3>2. PICK f \in s.open : f.node = k /\ f.priority = Priority(s, goal, k)
      BY <1>1, <3>1 DEF Covered
    <3>3. f \in u.open
      BY <1>3, <3>1, <3>2 DEF n
    <3> QED BY <1>7, <3>1, <3>2, <3>3
  <2> QED BY <2>1, <2>2 DEF Covered
<1>13. InOrder(u, goal)
  <2> SUFFICES ASSUME NEW v \in u.visited, NEW f \in u.open
               PROVE  Priority(s, goal, v) <= f.priority
    BY <1>2, <1>3, <1>4, <1>7 DEF InOrder
  <2>1. f \in s.open
    BY <1>3
  <2>2. CASE v \in s.visited
    BY <1>1, <2>1, <2>2 DEF InOrder
  <2>3. CASE v = n
    <3>1. Priority(s, goal, n) <= e.priority /\ e.priority <= f.priority
      BY <1>4, <2>1
    <3> QED BY <1>4, <1>5, <1>6, <2>1, <2>3, <3>1
  <2> QED BY <1>3, <2>2, <2>3
<1>14. Relaxed(u, R)
  BY <1>1, <1>3 DEF Relaxed, g
<1>15. /\ IsFiniteSet(u.open) /\ IsFiniteSet(R) /\ u.seq <= 1 + Cardinality(R)
       /\ Cardinality(s.open) \in Nat /\ Cardinality(u.open) = Cardinality(s.open) - 1
  BY <1>1, <1>3, FS_RemoveElement, FS_CardinalityType DEF PushesCounted
<1>16. goal \in Node \ u.visited
  BY <1>1, <1>3 DEF n
<1>17. Searching(u, closed, start, goal, R)
  BY <1>1, <1>3, <1>9, <1>10, <1>11, <1>12, <1>13, <1>14, <1>15, <1>16 DEF Searching, PushesCounted
<1>18. Pops(u) = Pops(s) + 1
  BY <1>2, <1>3, <1>15 DEF Pops
<1>19. ASSUME n \notin s.visited PROVE Latest(u, goal, n)
  <2>1. PICK f \in s.open : f.priority = Priority(s, goal, n)
    BY <1>1, <1>4, <1>19 DEF Covered, g
  <2>2. \A v \in s.visited : Priority(s, goal, v) <= Priority(s, goal, n)
    BY <1>1, <2>1 DEF InOrder
  <2>3. Priority(s, goal, n) <= Priority(s, goal, n)
    BY <1>4, <1>5
  <2> QED BY <1>2, <1>3, <1>4, <1>7, <2>2, <2>3 DEF Latest
<1> QED BY <1>17, <1>18, <1>19 DEF u, n

\* The open arcs out of the nodes V.
OpenArcs(closed, V) == {a \in Arc : a[1] \in V /\ {a[1], a[2]} \notin closed}

\* The estimates along a path never fall: the whole length is the last.
LEMMA PathEstimate ==
  ASSUME NEW q \in SimplePath, NEW h, RunningLengths(h, q), NEW goal, goal = q[Len(q)],
         NEW i \in 1..Len(q)
  PROVE  h[i-1] + Heuristic(q[i], goal) <= h[Len(q)-1]
<1>0. PICK n \in Nat : n = Len(q) - 1 /\ Len(q) = n + 1
  <2>1. PICK l \in Nat \ {0} : l = Len(q)
    BY SimplePathType
  <2>2. l - 1 \in Nat /\ l = (l - 1) + 1
    OBVIOUS
  <2> QED BY <2>1, <2>2
<1> DEFINE F(j) == h[j] + Heuristic(q[j+1], goal)
           acc == [d \in 0..n |-> F(n - d)]
           S == {x \in Nat : x <= F(n)}
<1>1. /\ \A j \in 0..n : q[j+1] \in Node /\ h[j] \in Nat
      /\ \A j \in 1..n : {q[j], q[j+1]} \in Road /\ h[j] = h[j-1] + Weight[{q[j], q[j+1]}]
      /\ goal \in Node
  <2>1. q \in Seq(Node) /\ \A j \in 1..n : HopRoad(q, j) \in Road
    BY <1>0, SimplePathType
  <2>2. \A j \in 0..n : q[j+1] \in Node
    BY <1>0, <2>1
  <2>3. goal \in Node
    BY <1>0, <2>1
  <2> QED BY <1>0, <2>1, <2>2, <2>3 DEF RunningLengths, HopRoad
<1>2. \A j \in 0..n : Heuristic(q[j+1], goal) \in Nat /\ F(j) \in Nat
  <2> TAKE j \in 0..n
  <2>1. q[j+1] \in Node /\ h[j] \in Nat
    BY <1>1
  <2>2. Heuristic(q[j+1], goal) \in Nat
    BY <1>1, <2>1, HeuristicRoot
  <2> QED BY <2>1, <2>2
<1>3. acc[0] \in S
  BY <1>1, <1>2
<1>4. ASSUME NEW d \in 1..n, acc[d-1] \in S PROVE acc[d] \in S
  <2>1. PICK j \in 1..n : j = n - d + 1 /\ n - (d-1) = j /\ n - d = j - 1
    OBVIOUS
  <2>2. acc[d-1] = F(j) /\ acc[d] = F(j-1)
    BY <1>1, <2>1
  <2>3. PICK w \in Nat : /\ w = Weight[{q[j], q[j+1]}] /\ h[j] = h[j-1] + w
                         /\ Heuristic(q[j], goal) <= w + Heuristic(q[j+1], goal)
    <3>1. q[j] \in Node /\ q[j+1] \in Node /\ {q[j], q[j+1]} \in Road
      <4>1. j-1 \in 0..n /\ j \in 0..n /\ (j-1)+1 = j
        BY <2>1
      <4>2. q[(j-1)+1] \in Node /\ q[j+1] \in Node
        BY <1>1, <4>1
      <4> QED BY <1>1, <4>1, <4>2
    <3>2. Weight[{q[j], q[j+1]}] \in Nat
      BY <3>1, RoutingAssumption
    <3>3. Heuristic(q[j], goal) <= Weight[{q[j], q[j+1]}] + Heuristic(q[j+1], goal)
      BY <1>1, <3>1, HeuristicConsistent
    <3> QED BY <1>1, <3>2, <3>3
  <2>4. F(j-1) <= F(j) /\ F(j-1) \in Nat /\ F(j) \in Nat /\ F(n) \in Nat
    <3>1. j-1 \in 0..n /\ j \in 0..n /\ (j-1)+1 = j /\ n \in 0..n
      BY <1>1
    <3>2. /\ h[j-1] \in Nat /\ h[j] \in Nat /\ Heuristic(q[j], goal) \in Nat
          /\ Heuristic(q[j+1], goal) \in Nat
      <4>1. Heuristic(q[(j-1)+1], goal) \in Nat
        BY <1>2, <3>1
      <4> QED BY <1>1, <1>2, <3>1, <4>1
    <3>3. F(n) \in Nat
      BY <1>2, <3>1
    <3>4. F(j-1) = h[j-1] + Heuristic(q[j], goal) /\ F(j) = h[j] + Heuristic(q[j+1], goal)
      BY <3>1
    <3>5. PICK a \in Nat, b \in Nat, c \in Nat, x \in Nat :
            a = h[j-1] /\ b = h[j] /\ c = Heuristic(q[j], goal) /\ x = Heuristic(q[j+1], goal)
      BY <3>2
    <3>6. b = a + w /\ c <= w + x
      BY <2>3, <3>5
    <3>7. a + c <= b + x /\ a + c \in Nat /\ b + x \in Nat
      BY <3>6
    <3> HIDE DEF F
    <3> QED BY <3>3, <3>4, <3>5, <3>7
  <2> HIDE DEF F
  <2> QED BY <1>4, <2>2, <2>4
<1>5. \A d \in 0..n : acc[d] \in S
  <2> HIDE DEF acc, S
  <2> QED BY <1>1, <1>3, <1>4, LoopInvariant
<1>6. PICK d \in 0..n : n - d = i - 1
  <2>1. i \in 1..n+1
    BY <1>0
  <2>2. n - (i-1) \in 0..n /\ n - (n - (i-1)) = i - 1
    BY <2>1
  <2> QED BY <2>2
<1>7. F(i-1) <= F(n)
  <2>1. acc[d] = F(i-1)
    BY <1>6
  <2> HIDE DEF F
  <2> QED BY <1>5, <2>1
<1>8. (i-1)+1 = i /\ q[n+1] = goal /\ h[n] \in Nat
  BY <1>0, <1>1
<1>9. Heuristic(q[n+1], goal) = 0
  BY <1>1, <1>8, HeuristicAtGoal
<1>10. F(i-1) = h[i-1] + Heuristic(q[i], goal) /\ F(n) = h[n]
  BY <1>8, <1>9
<1> HIDE DEF F
<1> QED BY <1>0, <1>7, <1>10

\* While the goal is not visited, every open path to it has a node that has been
\* scored no worse than along the path, and has not been visited.
LEMMA Frontier ==
  ASSUME NEW s, NEW closed, NEW start, NEW goal,
         Searching(s, closed, start, goal, OpenArcs(closed, s.visited)),
         NEW q \in OpenPaths(closed, start, goal), NEW h, RunningLengths(h, q)
  PROVE  \E i \in 1..Len(q) :
           q[i] \in DOMAIN s.gScore \ s.visited /\ s.gScore[q[i]] <= h[i-1]
<1> DEFINE g == s.gScore
           T == {i \in 1..Len(q) : q[i] \notin s.visited}
<1>1. /\ s \in SearchTyped /\ goal \in Node \ s.visited /\ Backed(s, closed, start)
      /\ Relaxed(s, OpenArcs(closed, s.visited))
  BY DEF Searching
<1>2. g \in [DOMAIN g -> Nat] /\ start \in DOMAIN g /\ g[start] = 0
  BY <1>1, SearchFields DEF Backed
<1>3. q \in SimplePath /\ q[1] = start /\ q[Len(q)] = goal
  BY DEF OpenPaths
<1>4. /\ Len(q) \in Nat \ {0} /\ \A i \in 1..Len(q) : q[i] \in Node /\ h[i-1] \in Nat
      /\ h[0] = 0
      /\ \A i \in 1..Len(q)-1 : /\ {q[i], q[i+1]} \in Road \ closed
                                /\ h[i] = h[i-1] + Weight[{q[i], q[i+1]}]
  <2>1. q \in Seq(Node) /\ Len(q) \in Nat \ {0}
    BY <1>3, SimplePathType
  <2>2. \A i \in 1..Len(q)-1 : HopRoad(q, i) \in Road \ closed
    BY <1>3, SimplePathType DEF OpenPaths
  <2>3. ASSUME NEW i \in 1..Len(q) PROVE q[i] \in Node /\ h[i-1] \in Nat
    <3>1. q[i] \in Node /\ i-1 \in 0..Len(q)-1
      BY <2>1
    <3>2. h \in [0..Len(q)-1 -> Nat]
      BY DEF RunningLengths
    <3> QED BY <3>1, <3>2
  <2> QED BY <2>1, <2>2, <2>3 DEF RunningLengths, HopRoad
<1>5. PICK i \in T : \A j \in T : i <= j
  <2>1. Len(q) \in T
    BY <1>1, <1>3, <1>4
  <2>2. T \in SUBSET Nat /\ T # {}
    BY <2>1
  <2> HIDE DEF T
  <2> QED BY <2>2, LeastNatural
<1>6. \A j \in 1..Len(q) : j < i => q[j] \in s.visited
  BY <1>5
<1> DEFINE n == i - 1
           Fits(j) == q[j+1] \in DOMAIN g /\ g[q[j+1]] <= h[j]
           mark == [j \in 0..n |-> IF Fits(j) THEN 0 ELSE 1]
           Zero == {0}
<1>7. n \in Nat /\ n <= Len(q) - 1
  BY <1>4, <1>5
<1>8. mark[0] \in Zero
  <2>1. Fits(0)
    BY <1>2, <1>3, <1>4
  <2> QED BY <1>7, <2>1
<1>9. ASSUME NEW j \in 1..n, mark[j-1] \in Zero PROVE mark[j] \in Zero
  <2>1. j-1 \in 0..n /\ j \in 0..n /\ (j-1)+1 = j /\ j \in 1..Len(q) /\ j+1 \in 1..Len(q) /\ j < i
        /\ j \in 1..Len(q)-1 /\ (j+1)-1 = j
    BY <1>4, <1>7
  <2>2. Fits(j-1)
    <3> HIDE DEF Fits
    <3> QED BY <1>9, <2>1
  <2>3. PICK x \in Node, y \in Node, w \in Nat :
          /\ x = q[j] /\ y = q[j+1] /\ w = Weight[{x, y}] /\ {x, y} \in Road \ closed
          /\ h[j] = h[j-1] + w
    <3>1. {q[j], q[j+1]} \in Road
      BY <1>4, <2>1
    <3>2. Weight[{q[j], q[j+1]}] \in Nat
      BY <3>1, RoutingAssumption
    <3>3. /\ q[j] \in Node /\ q[j+1] \in Node /\ {q[j], q[j+1]} \in Road \ closed
          /\ h[j] = h[j-1] + Weight[{q[j], q[j+1]}]
      BY <1>4, <2>1
    <3> QED BY <3>2, <3>3
  <2>4. x \in s.visited
    BY <1>6, <2>1, <2>3
  <2>5. <<x, y>> \in OpenArcs(closed, s.visited)
    <3>1. <<x, y>> \in Arc
      BY <2>3 DEF Arc
    <3> QED BY <2>3, <2>4, <3>1 DEF OpenArcs
  <2>6. y \in DOMAIN g /\ g[y] <= g[x] + w
    <3>1. PICK a \in OpenArcs(closed, s.visited) : a = <<x, y>>
      BY <2>5
    <3>2. a[1] = x /\ a[2] = y
      BY <3>1
    <3>3. a[2] \in DOMAIN s.gScore /\ s.gScore[a[2]] <= s.gScore[a[1]] + Weight[{a[1], a[2]}]
      BY <1>1 DEF Relaxed
    <3> QED BY <2>3, <3>2, <3>3
  <2>7. x \in DOMAIN g /\ g[x] <= h[j-1]
    BY <2>1, <2>2, <2>3
  <2>8. g[x] \in Nat /\ g[y] \in Nat /\ h[j-1] \in Nat
    BY <1>2, <1>4, <2>1, <2>6, <2>7
  <2>9. Fits(j)
    BY SMTT(30), <2>3, <2>6, <2>7, <2>8
  <2> QED BY <2>1, <2>9
<1>10. \A j \in 0..n : mark[j] \in Zero
  <2> HIDE DEF mark, Zero, n
  <2> QED BY <1>7, <1>8, <1>9, LoopInvariant
<1>11. Fits(n)
  <2> HIDE DEF Fits
  <2> QED BY <1>7, <1>10
<1>12. n+1 = i /\ i \in 1..Len(q) /\ q[i] \notin s.visited
  BY <1>5
<1> QED BY <1>11, <1>12

-----------------------------------------------------------------------------
\* The goal has been reached with the least possible score.
Arrived(s, closed, start, goal) ==
  /\ s \in SearchTyped /\ s.reached /\ start \in Node /\ goal \in Node
  /\ Backed(s, closed, start) /\ goal \in DOMAIN s.gScore
  /\ \A q \in OpenPaths(closed, start, goal) : s.gScore[goal] <= Distance(q)

\* An entry of the goal popped: no open path to it is shorter than its score.
LEMMA PopArrives ==
  ASSUME NEW s, NEW closed, NEW start, NEW goal,
         Searching(s, closed, start, goal, OpenArcs(closed, s.visited)),
         NEW e \in s.open, \A f \in s.open : e.priority <= f.priority, e.node = goal
  PROVE  Arrived(After(s, e, s.visited, TRUE), closed, start, goal)
<1> DEFINE u == After(s, e, s.visited, TRUE)
           g == s.gScore
<1>1. /\ s \in SearchTyped /\ start \in Node /\ goal \in Node \ s.visited
      /\ Backed(s, closed, start) /\ Covered(s, goal)
  BY DEF Searching
<1>2. /\ s.open \subseteq Entry /\ g \in [DOMAIN g -> Nat]
  BY <1>1, SearchFields
<1>3. u \in SearchTyped
  <2>1. u.open \in SUBSET Entry
    BY <1>2 DEF After
  <2>2. s \in SearchTyped
    BY <1>1
  <2>3. /\ s.gScore \in UNION {[D -> Nat] : D \in SUBSET Node}
        /\ s.cameFrom \in UNION {[D -> Node] : D \in SUBSET Node}
        /\ s.visited \in SUBSET Node /\ s.seq \in Nat
    BY <2>2 DEF SearchTyped
  <2> QED BY <2>1, <2>3 DEF SearchTyped, After
<1>4. Backed(u, closed, start)
  BY <1>1 DEF Backed, After
<1>5. goal \in DOMAIN g /\ g[goal] \in Nat /\ g[goal] <= e.priority
  <2>1. goal \in DOMAIN g /\ Priority(s, goal, goal) <= e.priority
    BY <1>1 DEF Covered
  <2>2. Heuristic(goal, goal) = 0
    BY <1>1, HeuristicAtGoal
  <2> QED BY <1>2, <2>1, <2>2 DEF Priority
<1>6. ASSUME NEW q \in OpenPaths(closed, start, goal)
      PROVE  g[goal] <= Distance(q)
  <2>1. q \in SimplePath /\ q[Len(q)] = goal
    BY DEF OpenPaths
  <2>2. PICK h : RunningLengths(h, q) /\ Distance(q) = h[Len(q)-1]
    BY <2>1, PathLengths
  <2>3. PICK i \in 1..Len(q) : q[i] \in DOMAIN g \ s.visited /\ g[q[i]] <= h[i-1]
    BY <2>2, Frontier
  <2>4. PICK f \in s.open : f.priority = g[q[i]] + Heuristic(q[i], goal)
    BY <1>1, <2>3 DEF Covered, Priority
  <2>5. e.priority <= f.priority /\ e.priority \in Nat /\ f.priority \in Nat
    BY <1>2 DEF Entry
  <2>6. h[i-1] + Heuristic(q[i], goal) <= h[Len(q)-1]
    BY <2>1, <2>2, PathEstimate
  <2>7. /\ q[i] \in Node /\ h[i-1] \in Nat /\ h[Len(q)-1] \in Nat /\ g[q[i]] \in Nat
        /\ Heuristic(q[i], goal) \in Nat
    <3>1. q[i] \in Node /\ Len(q) \in Nat \ {0}
      BY <2>1, SimplePathType
    <3>2. Heuristic(q[i], goal) \in Nat
      BY <1>1, <3>1, HeuristicRoot
    <3>3. i-1 \in 0..Len(q)-1 /\ Len(q)-1 \in 0..Len(q)-1
      BY <3>1
    <3> QED BY <1>2, <2>2, <2>3, <3>1, <3>2, <3>3 DEF RunningLengths
  <2>8. PICK a, b, c, d, x, y : /\ a = g[goal] /\ b = g[q[i]] /\ c = Heuristic(q[i], goal)
                                /\ d = h[i-1] /\ x = h[Len(q)-1] /\ y = e.priority
    OBVIOUS
  <2>9. /\ a \in Nat /\ b \in Nat /\ c \in Nat /\ d \in Nat /\ x \in Nat /\ y \in Nat
        /\ a <= y /\ y <= b + c /\ b <= d /\ d + c <= x
    BY <1>5, <2>3, <2>4, <2>5, <2>6, <2>7, <2>8
  <2>10. a <= x
    BY <2>9
  <2> QED BY <2>2, <2>8, <2>10
<1> QED BY <1>1, <1>3, <1>4, <1>5, <1>6 DEF Arrived, After

\* With nothing left in the heap, no path is open.
LEMMA NothingLeft ==
  ASSUME NEW s, NEW closed, NEW start, NEW goal,
         Searching(s, closed, start, goal, OpenArcs(closed, s.visited)), s.open = {}
  PROVE  OpenPaths(closed, start, goal) = {}
<1> SUFFICES ASSUME NEW q \in OpenPaths(closed, start, goal) PROVE FALSE
  OBVIOUS
<1>1. q \in SimplePath
  BY DEF OpenPaths
<1>2. PICK h : RunningLengths(h, q)
  BY <1>1, PathLengths
<1>3. PICK i \in 1..Len(q) : q[i] \in DOMAIN s.gScore \ s.visited
  BY <1>2, Frontier
<1>4. Covered(s, goal)
  BY DEF Searching
<1> QED BY <1>3, <1>4 DEF Covered

\* An arc relaxed again changes nothing.
LEMMA RelaxAgain ==
  ASSUME NEW s \in SearchTyped, NEW R, Relaxed(s, R), NEW n, NEW m, <<n, m>> \in R, NEW goal
  PROVE  Relax(s, n, m, goal) = s
<1>1. PICK a \in R : a = <<n, m>>
  OBVIOUS
<1>2. a[1] = n /\ a[2] = m
  BY <1>1
<1>3. PICK t : t = s.gScore[n] + Weight[{n, m}]
  OBVIOUS
<1>4. m \in DOMAIN s.gScore /\ s.gScore[m] <= t
  BY <1>2, <1>3 DEF Relaxed
<1>5. Relax(s, n, m, goal) = IF m \in DOMAIN s.gScore /\ t >= s.gScore[m] THEN s
                             ELSE Improved(s, n, m, t, goal)
  BY <1>3, RelaxIs
<1> QED BY <1>4, <1>5

\* The node visited last, with all its open edges relaxed.
Spread(s, closed, goal, n) ==
  LET Step(acc, m) == Relax(acc, n, m, goal)
  IN  Iterate(Step, s, Edges(closed, n))

\* All edges of the node visited last are relaxed, one after the other.
LEMMA SpreadKeeps ==
  ASSUME NEW s, NEW closed, NEW start, NEW goal, NEW n,
         Searching(s, closed, start, goal, OpenArcs(closed, s.visited \ {n})),
         Latest(s, goal, n)
  PROVE  LET u == Spread(s, closed, goal, n)
         IN  /\ Searching(u, closed, start, goal, OpenArcs(closed, s.visited))
             /\ u.visited = s.visited /\ Pops(u) = Pops(s)
<1> DEFINE V == s.visited
           Q == {m \in Node : {n, m} \in Road \ closed}
           q == Edges(closed, n)
           N == Cardinality(Q)
           S == {t \in SearchTyped : \E R \in SUBSET Arc :
                   Searching(t, closed, start, goal, R) /\ Latest(t, goal, n)}
           F == [x \in S \X Q |-> Relax(x[1], n, x[2], goal)]
           acc == CHOOSE g : g = [i \in 0..Len(q) |->
                    IF i = 0 THEN s ELSE Relax(g[i-1], n, q[i], goal)]
           Done(i) == OpenArcs(closed, V \ {n}) \union {<<n, q[j]>> : j \in 1..i}
           Fits(t, i) == /\ Searching(t, closed, start, goal, Done(i)) /\ Latest(t, goal, n)
                         /\ t.visited = V /\ Pops(t) = Pops(s)
           mark == [i \in 0..N |-> IF Fits(acc[i], i) THEN 0 ELSE 1]
           Zero == {0}
<1>1. n \in Node /\ n \in V
  BY SearchFields DEF Latest, Searching
<1>2. /\ q \in Seq(Q) /\ Len(q) = N /\ N \in Nat
      /\ \A i, j \in 1..N : q[i] = q[j] => i = j
      /\ \A m \in Q : \E i \in 1..N : q[i] = m
  <2>1. IsFiniteSet(Q)
    <3>1. Q \subseteq Node /\ IsFiniteSet(Node)
      BY RoutingAssumption
    <3> HIDE DEF Q
    <3> QED BY <3>1, FS_Subset
  <2>2. q = SetToSeq(Q)
    BY DEF Edges
  <2> HIDE DEF Q, q
  <2> QED BY <2>1, <2>2, Sequenced, FS_CardinalityType
<1>3. \A i \in 1..N : q[i] \in Q
  <2> HIDE DEF Q, q, N
  <2> QED BY <1>2
<1>4. \A m \in Q : <<n, m>> \in Arc
  BY <1>1 DEF Arc
<1>5. ASSUME NEW t \in S, NEW m \in Q
      PROVE  F[<<t, m>>] = Relax(t, n, m, goal) /\ Relax(t, n, m, goal) \in S
  <2>1. F[<<t, m>>] = Relax(t, n, m, goal)
    <3> HIDE DEF S, Q
    <3> QED OBVIOUS
  <2>2. PICK R \in SUBSET Arc : Searching(t, closed, start, goal, R) /\ Latest(t, goal, n)
    OBVIOUS
  <2>3. CASE <<n, m>> \in R
    <3>1. Relaxed(t, R) /\ t \in SearchTyped
      BY <2>2 DEF Searching
    <3>2. Relax(t, n, m, goal) = t
      BY <2>3, <3>1, RelaxAgain
    <3> QED BY <2>1, <3>2
  <2>4. CASE <<n, m>> \notin R
    <3>1. m \in Node /\ {n, m} \in Road \ closed
      OBVIOUS
    <3>2. PICK u : u = Relax(t, n, m, goal)
      OBVIOUS
    <3>3. Searching(u, closed, start, goal, R \union {<<n, m>>}) /\ Latest(u, goal, n)
      BY <2>2, <2>4, <3>1, <3>2, RelaxKeeps
    <3>4. R \union {<<n, m>>} \in SUBSET Arc /\ u \in SearchTyped
      BY <1>4, <3>3 DEF Searching
    <3>5. u \in S
      BY <3>3, <3>4
    <3> QED BY <2>1, <3>2, <3>5
  <2> QED BY <2>3, <2>4
<1>6. s \in S
  <2>1. OpenArcs(closed, V \ {n}) \in SUBSET Arc /\ s \in SearchTyped
    BY DEF OpenArcs, Searching
  <2> QED BY <2>1
<1>7. PICK h : /\ h \in [0..N -> S]
               /\ h[0] = s
               /\ \A i \in 1..N : h[i] = F[<<h[i-1], q[i]>>]
  <2>1. \A t \in S, m \in Q : F[<<t, m>>] \in S
    BY <1>5
  <2> HIDE DEF S, Q, q, F, N
  <2>2. \E h : IsTypedRun(h, S, F, s, q)
    BY <1>2, <1>6, <2>1, TypedRun
  <2> QED BY <1>2, <2>2 DEF IsTypedRun
<1>8. h = [i \in 0..N |-> IF i = 0 THEN s ELSE Relax(h[i-1], n, q[i], goal)]
  <2>1. ASSUME NEW i \in 0..N
        PROVE  h[i] = IF i = 0 THEN s ELSE Relax(h[i-1], n, q[i], goal)
    <3>1. CASE i = 0
      BY <1>7, <3>1
    <3>2. CASE i # 0
      <4>1. i \in 1..N /\ i-1 \in 0..N
        BY <1>2, <3>2
      <4>2. h[i-1] \in S /\ q[i] \in Q
        BY <1>3, <1>7, <4>1
      <4>3. F[<<h[i-1], q[i]>>] = Relax(h[i-1], n, q[i], goal)
        <5> HIDE DEF S, F, Q
        <5> QED BY <1>5, <4>2
      <4> HIDE DEF F
      <4> QED BY <1>7, <3>2, <4>1, <4>3
    <3> QED BY <3>1, <3>2
  <2> QED BY <1>7, <2>1
<1>9. acc = [i \in 0..N |-> IF i = 0 THEN s ELSE Relax(acc[i-1], n, q[i], goal)]
  <2> HIDE DEF q, N
  <2> QED BY <1>2, <1>8
<1>10. Spread(s, closed, goal, n) = acc[N]
  <2>1. Spread(s, closed, goal, n) = acc[Len(q)]
    BY DEF Spread, Iterate
  <2> QED BY <1>2, <2>1
<1> HIDE DEF acc
<1>11. mark[0] \in Zero
  <2>1. acc[0] = s
    BY <1>2, <1>9
  <2>2. Done(0) = OpenArcs(closed, V \ {n})
    OBVIOUS
  <2>3. Fits(s, 0)
    BY <2>2
  <2> HIDE DEF Fits
  <2> QED BY <1>2, <2>1, <2>3
<1>12. ASSUME NEW i \in 1..N, mark[i-1] \in Zero PROVE mark[i] \in Zero
  <2>1. i-1 \in 0..N /\ i \in 0..N /\ i # 0
    BY <1>2
  <2>2. Fits(acc[i-1], i-1)
    <3> HIDE DEF Fits
    <3> QED BY <1>12, <2>1
  <2>3. PICK t, m, u : t = acc[i-1] /\ m = q[i] /\ u = acc[i] /\ u = Relax(t, n, m, goal)
    BY <1>9, <2>1
  <2>4. m \in Node /\ {n, m} \in Road \ closed
    BY <1>3, <2>3
  <2>5. <<n, m>> \notin Done(i-1)
    <3>1. <<n, m>> \notin OpenArcs(closed, V \ {n})
      BY DEF OpenArcs
    <3>2. ASSUME NEW j \in 1..i-1 PROVE q[j] # m
      <4>1. j \in 1..N /\ j # i
        BY <1>2, <2>1
      <4> HIDE DEF N, q
      <4> QED BY <1>2, <2>1, <2>3, <4>1
    <3>3. \A j \in 1..i-1 : <<n, q[j]>> # <<n, m>>
      BY <3>2
    <3> QED BY <3>1, <3>3
  <2>6. Done(i) = Done(i-1) \union {<<n, m>>}
    <3>1. 1..i = (1..i-1) \union {i}
      BY <2>1
    <3> QED BY <2>3, <3>1
  <2> HIDE DEF Done
  <2>7. Fits(u, i)
    <3>1. /\ Searching(t, closed, start, goal, Done(i-1)) /\ Latest(t, goal, n)
          /\ t.visited = V /\ Pops(t) = Pops(s)
      BY <2>2, <2>3
    <3>2. PICK R : R = Done(i-1)
      OBVIOUS
    <3>3. /\ Searching(u, closed, start, goal, R \union {<<n, m>>})
          /\ Latest(u, goal, n) /\ u.visited = t.visited /\ Pops(u) = Pops(t)
      BY <2>3, <2>4, <2>5, <3>1, <3>2, RelaxKeeps
    <3> QED BY <2>6, <3>1, <3>2, <3>3
  <2> HIDE DEF Fits
  <2> QED BY <2>1, <2>3, <2>7
<1>13. \A i \in 0..N : mark[i] \in Zero
  <2> HIDE DEF mark, Zero, N
  <2> QED BY <1>2, <1>11, <1>12, LoopInvariant
<1>14. Fits(acc[N], N)
  <2>1. N \in 0..N
    BY <1>2
  <2>2. mark[N] = 0
    <3> HIDE DEF mark, N
    <3> QED BY <1>13, <2>1
  <2> HIDE DEF Fits, N
  <2> QED BY <2>1, <2>2
<1>15. Done(N) = OpenArcs(closed, V)
  <2>1. \A a \in Done(N) : a \in OpenArcs(closed, V)
    <3> SUFFICES ASSUME NEW a \in Done(N) PROVE a \in OpenArcs(closed, V)
      OBVIOUS
    <3>1. CASE a \in OpenArcs(closed, V \ {n})
      BY <3>1 DEF OpenArcs
    <3>2. CASE a \in {<<n, q[j]>> : j \in 1..N}
      <4>1. PICK m \in Q : a = <<n, m>>
        BY <1>3, <3>2
      <4>2. a[1] = n /\ a[2] = m /\ a \in Arc
        BY <1>4, <4>1
      <4> QED BY <1>1, <4>2 DEF OpenArcs
    <3> QED BY <3>1, <3>2
  <2>2. \A a \in OpenArcs(closed, V) : a \in Done(N)
    <3> SUFFICES ASSUME NEW a \in OpenArcs(closed, V), a[1] = n
                 PROVE  a \in {<<n, q[j]>> : j \in 1..N}
      BY DEF OpenArcs
    <3>1. PICK x \in Node, y \in Node : a = <<x, y>>
      BY DEF OpenArcs, Arc
    <3>2. a[1] = x /\ a[2] = y
      BY <3>1
    <3>3. {n, y} \in Road \ closed
      BY <3>2 DEF OpenArcs, Arc
    <3>4. PICK j \in 1..N : q[j] = y
      BY <1>2, <3>3
    <3> QED BY <3>1, <3>2, <3>4
  <2> QED BY <2>1, <2>2
<1> HIDE DEF Done
<1> QED BY <1>10, <1>14, <1>15

\* One round, with the states written out.
LEMMA PopIs ==
  ASSUME NEW s \in SearchTyped, NEW closed, NEW goal
  PROVE  LET e == Top(s)
             n == e.node
         IN  Pop(closed, s, goal) =
               IF s.open = {} \/ s.reached THEN s
               ELSE IF n \in s.visited THEN After(s, e, s.visited, s.reached)
               ELSE IF n = goal THEN After(s, e, s.visited, TRUE)
               ELSE Spread(After(s, e, s.visited \union {n}, s.reached), closed, goal, n)
<1> DEFINE e == Top(s)
           n == e.node
           rec(a, b, c, d, x, y) ==
             [open |-> a, gScore |-> b, cameFrom |-> c, visited |-> d, seq |-> x, reached |-> y]
           pop(r) == [r EXCEPT !.open = @ \ {e}]
           visit(r) == [r EXCEPT !.visited = @ \union {n}]
           done(r, z) == [r EXCEPT !.reached = z]
<1>1. Pop(closed, s, goal) =
        IF s.open = {} \/ s.reached THEN s
        ELSE IF n \in s.visited THEN pop(s)
        ELSE IF n = goal THEN done(pop(s), TRUE)
        ELSE Spread(visit(pop(s)), closed, goal, n)
  BY DEF Pop, Top, Spread
<1>2. s = rec(s.open, s.gScore, s.cameFrom, s.visited, s.seq, s.reached)
  BY SearchFields
<1>3. \A v, z : After(s, e, v, z) = rec(s.open \ {e}, s.gScore, s.cameFrom, v, s.seq, z)
  BY DEF After
<1> HIDE DEF n, e
<1>4. \A a, b, c, d, x, y : pop(rec(a, b, c, d, x, y)) = rec(a \ {e}, b, c, d, x, y)
  OBVIOUS
<1>5. \A a, b, c, d, x, y : visit(rec(a, b, c, d, x, y)) = rec(a, b, c, d \union {n}, x, y)
  OBVIOUS
<1>6. \A a, b, c, d, x, y, z : done(rec(a, b, c, d, x, y), z) = rec(a, b, c, d, x, z)
  OBVIOUS
<1> HIDE DEF rec, pop, visit, done
<1>7. pop(s) = rec(s.open \ {e}, s.gScore, s.cameFrom, s.visited, s.seq, s.reached)
  BY <1>2, <1>4
<1>8. visit(pop(s)) =
        rec(s.open \ {e}, s.gScore, s.cameFrom, s.visited \union {n}, s.seq, s.reached)
  BY <1>5, <1>7
<1>9. done(pop(s), TRUE) = rec(s.open \ {e}, s.gScore, s.cameFrom, s.visited, s.seq, TRUE)
  <2>1. \A z : done(pop(s), z) = rec(s.open \ {e}, s.gScore, s.cameFrom, s.visited, s.seq, z)
    BY <1>6, <1>7
  <2> QED BY <2>1
<1> QED BY <1>1, <1>3, <1>7, <1>8, <1>9 DEF e, n

\* The search has arrived, or goes on with every open edge of what it visited
\* relaxed.
UnderWay(s, closed, start, goal) ==
  Searching(s, closed, start, goal, OpenArcs(closed, s.visited))

Seeks(s, closed, start, goal) ==
  Arrived(s, closed, start, goal) \/ UnderWay(s, closed, start, goal)

\* A round arrives, has nothing to do, or pops an entry.
LEMMA PopSeeks ==
  ASSUME NEW s, NEW closed, NEW start, NEW goal, Seeks(s, closed, start, goal)
  PROVE  LET u == Pop(closed, s, goal)
         IN  /\ Seeks(u, closed, start, goal)
             /\ u.reached \/ u.open = {} \/ (Pops(u) = Pops(s) + 1 /\ ~s.reached /\ s.open # {})
<1> DEFINE u == Pop(closed, s, goal)
           e == Top(s)
           n == e.node
<1>1. s \in SearchTyped
  BY DEF Seeks, UnderWay, Searching, Arrived
<1>2. u = IF s.open = {} \/ s.reached THEN s
          ELSE IF n \in s.visited THEN After(s, e, s.visited, s.reached)
          ELSE IF n = goal THEN After(s, e, s.visited, TRUE)
          ELSE Spread(After(s, e, s.visited \union {n}, s.reached), closed, goal, n)
  BY <1>1, PopIs
<1> HIDE DEF u
<1>3. CASE s.open = {} \/ s.reached
  BY <1>2, <1>3 DEF u
<1>4. CASE ~(s.open = {} \/ s.reached)
  <2>1. /\ Searching(s, closed, start, goal, OpenArcs(closed, s.visited))
        /\ s.open # {} /\ Distinct(s) /\ goal \notin s.visited
    BY <1>4 DEF Seeks, UnderWay, Searching, Arrived
  <2>2. e \in s.open /\ \A f \in s.open : e.priority <= f.priority
    BY <1>1, <2>1, TopIsLeast
  <2> HIDE DEF e
  <2>3. CASE n \in s.visited
    <3>1. s.visited \union {n} = s.visited /\ n # goal
      BY <2>1, <2>3
    <3>2. u = After(s, e, s.visited \union {e.node}, s.reached)
      BY <1>2, <1>4, <2>3, <3>1
    <3>3. Searching(u, closed, start, goal, OpenArcs(closed, s.visited)) /\ Pops(u) = Pops(s) + 1
      BY <2>1, <2>2, <3>1, <3>2, PopKeeps
    <3>4. u.visited = s.visited
      BY <3>1, <3>2 DEF After
    <3> QED BY <1>4, <3>3, <3>4 DEF Seeks, UnderWay, u
  <2>4. CASE n \notin s.visited /\ n = goal
    <3>1. u = After(s, e, s.visited, TRUE)
      BY <1>2, <1>4, <2>4
    <3>2. Arrived(u, closed, start, goal)
      BY <2>1, <2>2, <2>4, <3>1, PopArrives
    <3> QED BY <3>2 DEF Seeks, Arrived, u
  <2>5. CASE n \notin s.visited /\ n # goal
    <3> DEFINE p == After(s, e, s.visited \union {n}, s.reached)
    <3>1. u = Spread(p, closed, goal, n)
      BY <1>2, <1>4, <2>5
    <3>2. /\ Searching(p, closed, start, goal, OpenArcs(closed, s.visited))
          /\ Pops(p) = Pops(s) + 1 /\ Latest(p, goal, n)
      BY <2>1, <2>2, <2>5, PopKeeps
    <3>3. p.visited = s.visited \union {n}
      BY DEF After
    <3>4. p.visited \ {n} = s.visited
      BY <2>5, <3>3
    <3> HIDE DEF p
    <3>5. Searching(p, closed, start, goal, OpenArcs(closed, p.visited \ {n}))
      BY <3>2, <3>4
    <3>6. /\ Searching(u, closed, start, goal, OpenArcs(closed, p.visited))
          /\ u.visited = p.visited /\ Pops(u) = Pops(p)
      BY <3>1, <3>2, <3>5, SpreadKeeps
    <3> QED BY <1>4, <3>2, <3>6 DEF Seeks, UnderWay, u
  <2> QED BY <2>3, <2>4, <2>5
<1> QED BY <1>3, <1>4

-----------------------------------------------------------------------------
\* The search at its beginning, and after all its rounds.
First(start, goal) ==
  [open |-> {[node |-> start, priority |-> Estimate(0, start, goal), seq |-> 0]},
   gScore |-> [n \in {start} |-> 0], cameFrom |-> [n \in {} |-> start],
   visited |-> {}, seq |-> 1, reached |-> FALSE]

Explored(closed, start, goal) ==
  LET Round(s, i) == Pop(closed, s, goal)
  IN  Iterate(Round, First(start, goal), [i \in 1..2 * Cardinality(Road) + 1 |-> i])

\* Search in these terms.
LEMMA SearchIs ==
  ASSUME NEW closed, NEW start, NEW goal
  PROVE  LET s == Explored(closed, start, goal)
         IN  Search(closed, start, goal) =
               IF start = goal THEN <<start>>
               ELSE IF s.reached THEN Reconstruct(s, start, goal) ELSE NoRoute
BY DEF Search, Explored, First

\* At its beginning the search is under way, and nothing has been popped.
LEMMA FirstSeeks ==
  ASSUME NEW closed, NEW start \in Node, NEW goal \in Node
  PROVE  Seeks(First(start, goal), closed, start, goal) /\ Pops(First(start, goal)) = 0
<1> DEFINE s == First(start, goal)
           e == [node |-> start, priority |-> Heuristic(start, goal), seq |-> 0]
<1>1. Heuristic(start, goal) \in Nat
  BY HeuristicRoot
<1>2. Estimate(0, start, goal) = Heuristic(start, goal)
  BY <1>1 DEF Estimate
<1>3. /\ s.open = {e} /\ s.gScore = [n \in {start} |-> 0]
      /\ s.cameFrom = [n \in {} |-> start] /\ s.visited = {} /\ s.seq = 1 /\ s.reached = FALSE
      /\ s = [open |-> s.open, gScore |-> s.gScore, cameFrom |-> s.cameFrom,
              visited |-> s.visited, seq |-> s.seq, reached |-> s.reached]
  BY <1>2 DEF First
<1>4. /\ e \in Entry /\ e.node = start /\ e.priority = Heuristic(start, goal) /\ e.seq = 0
  BY <1>1 DEF Entry
<1> HIDE DEF s, e
<1>5. DOMAIN s.gScore = {start} /\ s.gScore[start] = 0 /\ DOMAIN s.cameFrom = {}
  BY <1>3
<1>6. s \in SearchTyped
  <2>1. s.gScore \in [{start} -> Nat] /\ s.cameFrom \in [{} -> Node]
    BY <1>3
  <2>2. /\ s.gScore \in UNION {[D -> Nat] : D \in SUBSET Node}
        /\ s.cameFrom \in UNION {[D -> Node] : D \in SUBSET Node}
    <3>1. {start} \in SUBSET Node /\ {} \in SUBSET Node
      OBVIOUS
    <3> QED BY <2>1, <3>1
  <2>3. /\ s.open \in SUBSET Entry /\ s.visited \in SUBSET Node /\ s.seq \in Nat
        /\ s.reached \in BOOLEAN
    <3>1. {e} \in SUBSET Entry /\ {} \in SUBSET Node /\ 1 \in Nat /\ FALSE \in BOOLEAN
      BY <1>4
    <3> QED BY <1>3, <3>1
  <2>4. s = [open |-> s.open, gScore |-> s.gScore, cameFrom |-> s.cameFrom,
             visited |-> s.visited, seq |-> s.seq, reached |-> s.reached]
    BY <1>3
  <2> QED BY <2>2, <2>3, <2>4 DEF SearchTyped
<1>7. Priority(s, goal, start) = Heuristic(start, goal)
  BY <1>1, <1>5 DEF Priority
<1>8. Distinct(s) /\ InOrder(s, goal)
  BY <1>3, <1>4 DEF Distinct, InOrder
<1>9. Backed(s, closed, start)
  BY <1>3, <1>5 DEF Backed
<1>10. Covered(s, goal)
  BY <1>1, <1>3, <1>4, <1>5, <1>7 DEF Covered
<1>11. OpenArcs(closed, s.visited) = {}
  BY <1>3 DEF OpenArcs
<1>12. Relaxed(s, {})
  BY DEF Relaxed
<1>13. PushesCounted(s, {}) /\ Pops(s) = 0
  <2>1. IsFiniteSet({}) /\ Cardinality({}) = 0
    BY FS_EmptySet
  <2>2. IsFiniteSet({e}) /\ Cardinality({e}) = 1
    BY FS_Singleton
  <2> QED BY <1>3, <2>1, <2>2 DEF PushesCounted, Pops
<1>14. Searching(s, closed, start, goal, {})
  BY <1>3, <1>6, <1>8, <1>9, <1>10, <1>12, <1>13 DEF Searching
<1> QED BY <1>11, <1>13, <1>14 DEF Seeks, UnderWay, s

\* No more entries are pushed than there are arcs, but the first: the rounds are
\* enough to arrive or to empty the heap.
LEMMA ExploredSeeks ==
  ASSUME NEW closed, NEW start \in Node, NEW goal \in Node
  PROVE  LET s == Explored(closed, start, goal)
         IN  Seeks(s, closed, start, goal) /\ (s.reached \/ s.open = {})
<1> DEFINE first == First(start, goal)
           M == 2 * Cardinality(Road) + 1
           q == [i \in 1..M |-> i]
           S == {t \in SearchTyped : Seeks(t, closed, start, goal)}
           F == [x \in S \X (1..M) |-> Pop(closed, x[1], goal)]
           acc == CHOOSE g : g = [i \in 0..Len(q) |->
                    IF i = 0 THEN first ELSE Pop(closed, g[i-1], goal)]
           Fits(t, i) == /\ Seeks(t, closed, start, goal)
                         /\ t.reached \/ t.open = {} \/ Pops(t) = i
           mark == [i \in 0..M |-> IF Fits(acc[i], i) THEN 0 ELSE 1]
           Zero == {0}
<1>1. M \in Nat
  BY ArcsBounded, FS_CardinalityType
<1> HIDE DEF M
<1>2. q \in Seq(1..M) /\ Len(q) = M /\ \A i \in 1..M : q[i] = i
  BY <1>1
<1>3. \A t : Seeks(t, closed, start, goal) => t \in SearchTyped
  BY DEF Seeks, UnderWay, Searching, Arrived
<1>4. ASSUME NEW t \in S, NEW i \in 1..M
      PROVE  F[<<t, i>>] = Pop(closed, t, goal) /\ Pop(closed, t, goal) \in S
  <2>1. F[<<t, i>>] = Pop(closed, t, goal)
    <3> HIDE DEF S
    <3> QED OBVIOUS
  <2>2. Seeks(Pop(closed, t, goal), closed, start, goal)
    BY PopSeeks
  <2> QED BY <1>3, <2>1, <2>2
<1>5. first \in S /\ Fits(first, 0)
  BY <1>3, FirstSeeks
<1>6. PICK h : /\ h \in [0..M -> S]
               /\ h[0] = first
               /\ \A i \in 1..M : h[i] = F[<<h[i-1], q[i]>>]
  <2>1. \A t \in S, i \in 1..M : F[<<t, i>>] \in S
    BY <1>4
  <2> HIDE DEF S, q, F, first
  <2> DEFINE Q == 1..M
  <2>2. \A t \in S, i \in Q : F[<<t, i>>] \in S
    BY <2>1
  <2>3. q \in Seq(Q)
    BY <1>2
  <2> HIDE DEF Q
  <2>4. \E h : IsTypedRun(h, S, F, first, q)
    BY <1>5, <2>2, <2>3, TypedRun
  <2> QED BY <1>2, <2>4 DEF IsTypedRun
<1>7. h = [i \in 0..M |-> IF i = 0 THEN first ELSE Pop(closed, h[i-1], goal)]
  <2>1. ASSUME NEW i \in 0..M
        PROVE  h[i] = IF i = 0 THEN first ELSE Pop(closed, h[i-1], goal)
    <3>1. CASE i = 0
      BY <1>6, <3>1
    <3>2. CASE i # 0
      <4>1. i \in 1..M /\ i-1 \in 0..M
        BY <1>1, <3>2
      <4>2. h[i-1] \in S
        BY <1>6, <4>1
      <4>3. F[<<h[i-1], i>>] = Pop(closed, h[i-1], goal)
        <5> HIDE DEF S, F
        <5> QED BY <1>4, <4>1, <4>2
      <4> HIDE DEF F, q
      <4> QED BY <1>2, <1>6, <3>2, <4>1, <4>3
    <3> QED BY <3>1, <3>2
  <2> HIDE DEF first, S
  <2> QED BY <1>6, <2>1
<1>8. acc = [i \in 0..M |-> IF i = 0 THEN first ELSE Pop(closed, acc[i-1], goal)]
  <2> HIDE DEF q, first
  <2> QED BY <1>2, <1>7
<1>9. Explored(closed, start, goal) = acc[M]
  <2>1. Explored(closed, start, goal) = acc[Len(q)]
    BY DEF Explored, Iterate, M
  <2> QED BY <1>2, <2>1
<1> HIDE DEF acc, first
<1>10. mark[0] \in Zero
  <2>1. acc[0] = first
    BY <1>1, <1>8
  <2> HIDE DEF Fits
  <2> QED BY <1>1, <1>5, <2>1
<1>11. ASSUME NEW i \in 1..M, mark[i-1] \in Zero PROVE mark[i] \in Zero
  <2>1. i-1 \in 0..M /\ i \in 0..M /\ i # 0
    BY <1>1
  <2>2. Fits(acc[i-1], i-1)
    <3> HIDE DEF Fits
    <3> QED BY <1>11, <2>1
  <2>3. PICK t, u : t = acc[i-1] /\ u = acc[i] /\ u = Pop(closed, t, goal)
    BY <1>8, <2>1
  <2>4. Fits(u, i)
    <3>1. Seeks(t, closed, start, goal) /\ (t.reached \/ t.open = {} \/ Pops(t) = i-1)
      BY <2>2, <2>3
    <3>2. /\ Seeks(u, closed, start, goal)
          /\ u.reached \/ u.open = {} \/ (Pops(u) = Pops(t) + 1 /\ ~t.reached /\ t.open # {})
      BY <2>3, <3>1, PopSeeks
    <3>3. (i-1) + 1 = i
      OBVIOUS
    <3> QED BY <3>1, <3>2, <3>3
  <2> HIDE DEF Fits
  <2> QED BY <2>1, <2>3, <2>4
<1>12. \A i \in 0..M : mark[i] \in Zero
  <2> HIDE DEF mark, Zero
  <2> QED BY <1>1, <1>10, <1>11, LoopInvariant
<1>13. PICK s : s = Explored(closed, start, goal) /\ Fits(s, M)
  <2>1. M \in 0..M
    BY <1>1
  <2> HIDE DEF Fits
  <2> QED BY <1>9, <1>12, <2>1
<1>14. CASE ~s.reached /\ s.open # {}
  <2>1. Pops(s) = M /\ Searching(s, closed, start, goal, OpenArcs(closed, s.visited))
    BY <1>13, <1>14 DEF Seeks, UnderWay, Arrived
  <2>2. /\ s \in SearchTyped /\ IsFiniteSet(s.open) /\ IsFiniteSet(OpenArcs(closed, s.visited))
        /\ s.seq <= 1 + Cardinality(OpenArcs(closed, s.visited))
    BY <2>1 DEF Searching, PushesCounted
  <2>3. Cardinality(OpenArcs(closed, s.visited)) <= Cardinality(Arc)
    <3>1. OpenArcs(closed, s.visited) \subseteq Arc
      BY DEF OpenArcs
    <3> QED BY <3>1, ArcsBounded, FS_Subset
  <2>4. Cardinality(s.open) \in Nat /\ Cardinality(s.open) # 0
    BY <1>14, <2>2, FS_CardinalityType, FS_EmptySet
  <2>5. /\ Cardinality(OpenArcs(closed, s.visited)) \in Nat /\ Cardinality(Arc) \in Nat
        /\ Cardinality(Road) \in Nat /\ s.seq \in Nat
    BY <2>2, ArcsBounded, FS_CardinalityType, SearchFields
  <2> QED BY <2>1, <2>2, <2>3, <2>4, <2>5, ArcsBounded DEF Pops, M
<1> QED BY <1>13, <1>14

\* A way to the goal over open roads, along which the scores add up.
Trail(path, s, closed, goal) ==
  /\ path \in Seq(Node) /\ Len(path) # 0 /\ path[Len(path)] = goal
  /\ \A i \in 1..Len(path) : path[i] \in DOMAIN s.gScore
  /\ \A i \in 1..Len(path)-1 :
       /\ {path[i], path[i+1]} \in Road \ closed
       /\ s.gScore[path[i+1]] = s.gScore[path[i]] + Weight[{path[i], path[i+1]}]

\* Back to where the first node of a trail was reached from.
LEMMA TrailBack ==
  ASSUME NEW s \in SearchTyped, NEW closed, NEW start, NEW goal, Backed(s, closed, start),
         NEW path, Trail(path, s, closed, goal), path[1] # start
  PROVE  LET way == <<s.cameFrom[path[1]]>> \o path
         IN  Trail(way, s, closed, goal) /\ Len(way) = Len(path) + 1
<1>1. PICK n \in Nat \ {0} : n = Len(path)
  BY DEF Trail
<1>2. path \in Seq(Node) /\ path[n] = goal /\ \A i \in 1..n : path[i] \in Node
  BY <1>1 DEF Trail
<1>3. PICK x : x = s.cameFrom[path[1]]
  OBVIOUS
<1>4. /\ x \in Node /\ x \in DOMAIN s.gScore /\ {x, path[1]} \in Road \ closed
      /\ s.gScore[path[1]] = s.gScore[x] + Weight[{x, path[1]}]
  <2>1. path[1] \in DOMAIN s.gScore
    BY <1>1 DEF Trail
  <2>2. path[1] \in DOMAIN s.cameFrom
    BY <2>1 DEF Backed
  <2>3. x \in s.visited /\ s.visited \subseteq DOMAIN s.gScore /\ s.visited \subseteq Node
    BY <1>3, <2>2, SearchFields DEF Backed
  <2> QED BY <1>3, <2>2, <2>3 DEF Backed
<1> DEFINE way == <<x>> \o path
<1>5. /\ way \in Seq(Node) /\ Len(way) = n + 1 /\ way[1] = x
      /\ \A i \in 1..n : way[i+1] = path[i]
  <2>1. <<x>> \in Seq(Node) /\ Len(<<x>>) = 1 /\ <<x>>[1] = x
    BY <1>4
  <2>2. way \in Seq(Node)
    BY <1>2, <2>1
  <2>3. Len(way) = n + 1 /\ way[1] = x /\ \A i \in 1..n : way[i+1] = path[i]
    BY <1>1, <1>2, <2>1
  <2> QED BY <2>2, <2>3
<1> HIDE DEF way
<1>6. way[Len(way)] = goal
  <2>1. n \in 1..n /\ Len(way) = n + 1
    BY <1>1, <1>5
  <2> QED BY <1>2, <1>5, <2>1
<1>7. \A i \in 1..Len(way) : way[i] \in DOMAIN s.gScore
  <2> SUFFICES ASSUME NEW i \in 1..n+1 PROVE way[i] \in DOMAIN s.gScore
    BY <1>5
  <2>1. CASE i = 1
    BY <1>4, <1>5, <2>1
  <2>2. CASE i # 1
    <3>1. PICK j \in 1..n : i = j + 1
      <4>1. i-1 \in 1..n /\ i = (i-1) + 1
        BY <2>2
      <4> QED BY <4>1
    <3>2. way[i] = path[j]
      BY <1>5, <3>1
    <3> QED BY <1>1, <3>2 DEF Trail
  <2> QED BY <2>1, <2>2
<1>8. ASSUME NEW i \in 1..Len(way)-1
      PROVE  /\ {way[i], way[i+1]} \in Road \ closed
             /\ s.gScore[way[i+1]] = s.gScore[way[i]] + Weight[{way[i], way[i+1]}]
  <2>1. i \in 1..n /\ way[i+1] = path[i]
    BY <1>1, <1>5
  <2>2. CASE i = 1
    BY <1>4, <1>5, <2>1, <2>2
  <2>3. CASE i # 1
    <3>1. PICK j \in 1..n-1 : i = j + 1
      <4>1. i-1 \in 1..n-1 /\ i = (i-1) + 1
        BY <2>1, <2>3
      <4> QED BY <4>1
    <3>2. way[i] = path[j] /\ way[i+1] = path[j+1]
      BY <1>5, <2>1, <3>1
    <3>3. /\ {path[j], path[j+1]} \in Road \ closed
          /\ s.gScore[path[j+1]] = s.gScore[path[j]] + Weight[{path[j], path[j+1]}]
      BY <1>1, <3>1 DEF Trail
    <3> QED BY <3>2, <3>3
  <2> QED BY <2>2, <2>3
<1>9. Len(way) # 0
  BY <1>1, <1>5
<1> QED BY <1>1, <1>3, <1>5, <1>6, <1>7, <1>8, <1>9 DEF Trail, way

\* The scores grow along a trail, so it visits no node twice.
LEMMA TrailGrows ==
  ASSUME NEW s \in SearchTyped, NEW closed, NEW goal, NEW path, Trail(path, s, closed, goal),
         NEW i \in 1..Len(path), NEW j \in 1..Len(path), i < j
  PROVE  s.gScore[path[i]] < s.gScore[path[j]]
<1> DEFINE g(k) == s.gScore[path[k]]
           acc == [d \in 0..j-i-1 |-> g(i+1+d)]
           S == {x \in Nat : g(i) < x}
<1>1. PICK n \in Nat \ {0} : n = Len(path)
  BY DEF Trail
<1>2. \A k \in 1..n : g(k) \in Nat
  BY <1>1, SearchFields DEF Trail
<1>3. ASSUME NEW k \in 1..n-1 PROVE g(k) < g(k+1)
  <2>1. k \in 1..n /\ k+1 \in 1..n
    BY <1>1
  <2>2. {path[k], path[k+1]} \in Road /\ g(k+1) = g(k) + Weight[{path[k], path[k+1]}]
    BY <1>1 DEF Trail
  <2>3. PICK w \in Nat \ {0} : w = Weight[{path[k], path[k+1]}]
    BY <2>2, RoutingAssumption
  <2>4. g(k) \in Nat /\ g(k+1) \in Nat
    BY <1>2, <2>1
  <2> HIDE DEF g
  <2> QED BY <2>2, <2>3, <2>4
<1>4. i \in 1..n /\ j \in 1..n /\ j-i-1 \in Nat /\ i \in 1..n-1
  BY <1>1
<1> HIDE DEF g
<1>5. acc[0] \in S
  <2>1. acc[0] = g(i+1)
    BY <1>4
  <2>2. i+1 \in 1..n
    BY <1>4
  <2> QED BY <1>2, <1>3, <1>4, <2>1, <2>2
<1>6. ASSUME NEW d \in 1..j-i-1, acc[d-1] \in S PROVE acc[d] \in S
  <2>1. PICK k \in 1..n-1 : k = i + d
    <3>1. i + d \in 1..n-1
      BY <1>4
    <3> QED BY <3>1
  <2>2. acc[d-1] = g(k) /\ acc[d] = g(k+1)
    <3>1. d-1 \in 0..j-i-1 /\ d \in 0..j-i-1 /\ i+1+(d-1) = k /\ i+1+d = k+1
      BY <1>4, <2>1
    <3> QED BY <3>1
  <2>3. g(k) < g(k+1) /\ k \in 1..n /\ k+1 \in 1..n
    BY <1>3
  <2>4. g(k) \in Nat /\ g(k+1) \in Nat /\ g(i) \in Nat /\ g(i) < g(k)
    BY <1>2, <1>4, <1>6, <2>2, <2>3
  <2> QED BY <2>2, <2>3, <2>4
<1>7. \A d \in 0..j-i-1 : acc[d] \in S
  <2>1. PICK m \in Nat : m = j-i-1
    BY <1>4
  <2> HIDE DEF acc, S
  <2>2. \A d \in 1..m : acc[d-1] \in S => acc[d] \in S
    BY <1>6, <2>1
  <2>3. \A d \in 0..m : acc[d] \in S
    BY <1>5, <2>2, LoopInvariant
  <2> QED BY <2>1, <2>3
<1>8. acc[j-i-1] = g(j) /\ j-i-1 \in 0..j-i-1
  <2>1. j-i-1 \in 0..j-i-1 /\ i+1+(j-i-1) = j
    BY <1>4
  <2> QED BY <2>1
<1>9. g(j) \in S
  <2> HIDE DEF acc, S
  <2> QED BY <1>7, <1>8
<1> QED BY <1>9 DEF g

\* A trail has as many nodes as there are, at most.
LEMMA TrailShort ==
  ASSUME NEW s \in SearchTyped, NEW closed, NEW goal, NEW path, Trail(path, s, closed, goal)
  PROVE  /\ Len(path) \in 1..Cardinality(Node)
         /\ \A i, j \in 1..Len(path) : path[i] = path[j] => i = j
<1>1. PICK n \in Nat \ {0} : n = Len(path)
  BY DEF Trail
<1>2. path \in Seq(Node)
  BY DEF Trail
<1>3. ASSUME NEW i \in 1..n, NEW j \in 1..n, path[i] = path[j] PROVE i = j
  <2>1. ASSUME NEW a \in 1..n, NEW b \in 1..n, a < b PROVE path[a] # path[b]
    <3>1. s.gScore[path[a]] < s.gScore[path[b]]
      BY <1>1, <2>1, TrailGrows
    <3>2. s.gScore[path[a]] \in Nat
      BY <1>1, SearchFields DEF Trail
    <3> QED BY <3>1, <3>2
  <2>2. ~(i < j) /\ ~(j < i)
    BY <1>3, <2>1
  <2> QED BY <2>2
<1>4. path \in [1..n -> Node]
  BY <1>1, <1>2
<1>5. path \in Injection(1..n, Node)
  BY <1>3, <1>4 DEF Injection, IsInjective
<1>6. Cardinality(1..n) <= Cardinality(Node) /\ Cardinality(1..n) = n /\ Cardinality(Node) \in Nat
  <2>1. IsFiniteSet(Node)
    BY RoutingAssumption
  <2>2. Cardinality(1..n) = n
    BY FS_Interval
  <2> QED BY <1>5, <2>1, <2>2, FS_Injection, FS_CardinalityType
<1> QED BY <1>1, <1>3, <1>6

\* A trail from the start is an open path, as long as the score of the goal.
LEMMA TrailIsPath ==
  ASSUME NEW s \in SearchTyped, NEW closed, NEW start, NEW goal, Backed(s, closed, start),
         NEW path, Trail(path, s, closed, goal), path[1] = start
  PROVE  path \in OpenPaths(closed, start, goal) /\ Distance(path) = s.gScore[goal]
<1>1. PICK n \in 1..Cardinality(Node) : n = Len(path)
  BY TrailShort
<1>2. /\ path \in Seq(Node) /\ path[n] = goal /\ Cardinality(Node) \in Nat
      /\ \A i \in 1..n-1 : /\ {path[i], path[i+1]} \in Road \ closed
                           /\ s.gScore[path[i+1]] = s.gScore[path[i]] + Weight[{path[i], path[i+1]}]
  <2>1. Cardinality(Node) \in Nat
    BY RoutingAssumption, FS_CardinalityType
  <2> QED BY <1>1, <2>1 DEF Trail
<1>3. path \in SimplePath
  <2>1. path \in [1..n -> Node]
    BY <1>1, <1>2
  <2>2. path \in UNION {[1..k -> Node] : k \in 1..Cardinality(Node)}
    BY <2>1
  <2>3. \A i, j \in DOMAIN path : path[i] = path[j] => i = j
    <3>1. DOMAIN path = 1..Len(path)
      BY <1>1, <2>1
    <3> QED BY <3>1, TrailShort
  <2>4. \A i \in 1..Len(path)-1 : HopRoad(path, i) \in Road
    BY <1>1, <1>2 DEF HopRoad
  <2> QED BY <2>2, <2>3, <2>4 DEF SimplePath
<1>4. path \in OpenPaths(closed, start, goal)
  BY <1>1, <1>2, <1>3 DEF OpenPaths, HopRoad
<1>5. PICK h : RunningLengths(h, path) /\ Distance(path) = h[n-1]
  BY <1>1, <1>3, PathLengths
<1> DEFINE g(k) == s.gScore[path[k+1]]
           mark == [k \in 0..n-1 |-> IF g(k) = h[k] THEN 0 ELSE 1]
           Zero == {0}
<1>6. n-1 \in Nat /\ n = (n-1) + 1
  BY <1>2
<1>7. mark[0] \in Zero
  <2>1. g(0) = 0 /\ h[0] = 0
    BY <1>5 DEF Backed, RunningLengths
  <2> QED BY <1>6, <2>1
<1>8. ASSUME NEW k \in 1..n-1, mark[k-1] \in Zero PROVE mark[k] \in Zero
  <2>1. k-1 \in 0..n-1 /\ k \in 0..n-1 /\ (k-1)+1 = k
    BY <1>6
  <2>2. g(k-1) = h[k-1]
    BY <1>8, <2>1
  <2>3. s.gScore[path[k+1]] = s.gScore[path[k]] + Weight[{path[k], path[k+1]}]
    BY <1>2
  <2>4. h[k] = h[k-1] + Weight[{path[k], path[k+1]}]
    BY <1>1, <1>5 DEF RunningLengths, HopRoad
  <2>5. g(k-1) = s.gScore[path[k]] /\ g(k) = s.gScore[path[k+1]]
    BY <2>1
  <2>6. g(k) = h[k]
    <3> HIDE DEF g
    <3> QED BY <2>2, <2>3, <2>4, <2>5
  <2> QED BY <2>1, <2>6
<1>9. \A k \in 0..n-1 : mark[k] \in Zero
  <2>1. PICK m \in Nat : m = n-1
    BY <1>6
  <2> HIDE DEF mark, Zero
  <2>2. \A k \in 1..m : mark[k-1] \in Zero => mark[k] \in Zero
    BY <1>8, <2>1
  <2>3. \A k \in 0..m : mark[k] \in Zero
    BY <1>7, <2>2, LoopInvariant
  <2> QED BY <2>1, <2>3
<1>10. g(n-1) = h[n-1]
  <2>1. n-1 \in 0..n-1
    BY <1>6
  <2> HIDE DEF g
  <2> QED BY <1>9, <2>1
<1>11. s.gScore[goal] = h[n-1]
  BY <1>2, <1>6, <1>10
<1> QED BY <1>4, <1>5, <1>11

-----------------------------------------------------------------------------
\* Reconstruct: enough rounds to be back at the start.
LEMMA Reconstructed ==
  ASSUME NEW s \in SearchTyped, NEW closed, NEW start, NEW goal \in Node,
         Backed(s, closed, start), goal \in DOMAIN s.gScore
  PROVE  LET path == Reconstruct(s, start, goal)
         IN  path \in OpenPaths(closed, start, goal) /\ Distance(path) = s.gScore[goal]
<1> DEFINE q == SetToSeq(Node)
           N == Cardinality(Node)
           Back(path) == IF path[1] = start THEN path ELSE <<s.cameFrom[path[1]]>> \o path
           S == {p \in Seq(Node) : Trail(p, s, closed, goal)}
           F == [x \in S \X Node |-> Back(x[1])]
           acc == CHOOSE g : g = [i \in 0..Len(q) |-> IF i = 0 THEN <<goal>> ELSE Back(g[i-1])]
           Fits(p, i) == Trail(p, s, closed, goal) /\ (p[1] = start \/ Len(p) = i + 1)
           mark == [i \in 0..N |-> IF Fits(acc[i], i) THEN 0 ELSE 1]
           Zero == {0}
<1>1. q \in Seq(Node) /\ Len(q) = N /\ N \in Nat /\ \A i \in 1..N : q[i] \in Node
  <2>1. IsFiniteSet(Node)
    BY RoutingAssumption
  <2> HIDE DEF q, N
  <2>2. q \in Seq(Node) /\ Len(q) = N /\ N \in Nat
    BY <2>1, Sequenced, FS_CardinalityType DEF q, N
  <2> QED BY <2>2
<1>2. ASSUME NEW p, Trail(p, s, closed, goal)
      PROVE  /\ Trail(Back(p), s, closed, goal) /\ Back(p) \in S
             /\ p[1] = start => Back(p) = p
             /\ p[1] # start => Len(Back(p)) = Len(p) + 1
  <2>1. /\ Trail(Back(p), s, closed, goal)
        /\ p[1] = start => Back(p) = p
        /\ p[1] # start => Len(Back(p)) = Len(p) + 1
    BY <1>2, TrailBack
  <2> HIDE DEF Back
  <2> QED BY <2>1 DEF Trail
<1> HIDE DEF Back
<1>3. ASSUME NEW p \in S, NEW n \in Node
      PROVE  F[<<p, n>>] = Back(p) /\ Back(p) \in S
  <2>1. F[<<p, n>>] = Back(p)
    <3> HIDE DEF S
    <3> QED OBVIOUS
  <2> QED BY <1>2, <2>1
<1>4. Fits(<<goal>>, 0) /\ <<goal>> \in S
  BY DEF Trail
<1>5. PICK h : /\ h \in [0..N -> S]
               /\ h[0] = <<goal>>
               /\ \A i \in 1..N : h[i] = F[<<h[i-1], q[i]>>]
  <2>1. \A p \in S, n \in Node : F[<<p, n>>] \in S
    BY <1>3
  <2> HIDE DEF S, q, F, N
  <2>2. <<goal>> \in S /\ q \in Seq(Node)
    BY <1>1, <1>4
  <2>3. \E h : IsTypedRun(h, S, F, <<goal>>, q)
    BY <2>1, <2>2, TypedRun
  <2> QED BY <1>1, <2>3 DEF IsTypedRun
<1>6. h = [i \in 0..N |-> IF i = 0 THEN <<goal>> ELSE Back(h[i-1])]
  <2>1. ASSUME NEW i \in 0..N
        PROVE  h[i] = IF i = 0 THEN <<goal>> ELSE Back(h[i-1])
    <3>1. CASE i = 0
      BY <1>5, <3>1
    <3>2. CASE i # 0
      <4>1. i \in 1..N /\ i-1 \in 0..N
        BY <1>1, <3>2
      <4>2. h[i-1] \in S /\ q[i] \in Node
        BY <1>1, <1>5, <4>1
      <4>3. F[<<h[i-1], q[i]>>] = Back(h[i-1])
        <5> HIDE DEF S, F, q
        <5> QED BY <1>3, <4>2
      <4> HIDE DEF F, q, N
      <4> QED BY <1>5, <3>2, <4>1, <4>3
    <3> QED BY <3>1, <3>2
  <2> HIDE DEF S, N
  <2> QED BY <1>5, <2>1
<1>7. acc = [i \in 0..N |-> IF i = 0 THEN <<goal>> ELSE Back(acc[i-1])]
  <2> HIDE DEF q, N
  <2> QED BY <1>1, <1>6
<1>8. Reconstruct(s, start, goal) = acc[N]
  <2>1. Reconstruct(s, start, goal) = acc[Len(q)]
    BY DEF Reconstruct, Iterate, Back
  <2> QED BY <1>1, <2>1
<1> HIDE DEF acc
<1>9. mark[0] \in Zero
  <2>1. acc[0] = <<goal>>
    BY <1>1, <1>7
  <2> HIDE DEF Fits
  <2> QED BY <1>1, <1>4, <2>1
<1>10. ASSUME NEW i \in 1..N, mark[i-1] \in Zero PROVE mark[i] \in Zero
  <2>1. i-1 \in 0..N /\ i \in 0..N /\ i # 0
    BY <1>1
  <2>2. Fits(acc[i-1], i-1)
    <3> HIDE DEF Fits
    <3> QED BY <1>10, <2>1
  <2>3. PICK p : p = acc[i-1] /\ acc[i] = Back(p)
    BY <1>7, <2>1
  <2>4. Fits(Back(p), i)
    <3>1. Trail(p, s, closed, goal) /\ (p[1] = start \/ Len(p) = i)
      BY <2>2, <2>3
    <3> QED BY <1>2, <3>1
  <2> HIDE DEF Fits
  <2> QED BY <2>1, <2>3, <2>4
<1>11. \A i \in 0..N : mark[i] \in Zero
  <2> HIDE DEF mark, Zero, N
  <2> QED BY <1>1, <1>9, <1>10, LoopInvariant
<1>12. PICK path : path = Reconstruct(s, start, goal) /\ Fits(path, N)
  <2>1. N \in 0..N
    BY <1>1
  <2>2. mark[N] = 0
    <3> HIDE DEF mark, N
    <3> QED BY <1>11, <2>1
  <2> HIDE DEF Fits, N
  <2> QED BY <1>8, <2>1, <2>2
<1>13. path[1] = start
  <2>1. Len(path) <= N
    BY <1>12, TrailShort
  <2> QED BY <1>1, <1>12, <2>1
<1>14. Trail(path, s, closed, goal) /\ path = Reconstruct(s, start, goal)
  BY <1>12
<1> HIDE DEF Fits, F, S, mark
<1>15. path \in OpenPaths(closed, start, goal) /\ Distance(path) = s.gScore[goal]
  BY <1>13, <1>14, TrailIsPath
<1> QED BY <1>14, <1>15

-----------------------------------------------------------------------------
\* The A* search of routing/astar.go finds a shortest route, or none only if
\* there is none, whatever roads are closed.
THEOREM SearchCorrect ==
  ASSUME NEW closed
  PROVE  IsShortestSearch(closed)
<1> SUFFICES ASSUME NEW a \in Node, NEW b \in Node
             PROVE  LET found == Search(closed, a, b)
                    IN  IF Reachable(closed, a, b)
                        THEN /\ found \in OpenPaths(closed, a, b)
                             /\ Distance(found) = Distance(FindRoute(closed, a, b))
                        ELSE found = NoRoute
  BY DEF IsShortestSearch
<1> DEFINE found == Search(closed, a, b)
           best == FindRoute(closed, a, b)
           Open == OpenPaths(closed, a, b)
<1>1. Reachable(closed, a, b) => best \in Open /\ \A r \in Open : Distance(best) <= Distance(r)
  BY FindRouteCorrect
<1>2. \A r \in Open : Distance(r) \in Nat
  BY DistanceType DEF OpenPaths
<1>3. ASSUME found \in Open, \A r \in Open : Distance(found) <= Distance(r)
      PROVE  Reachable(closed, a, b) /\ Distance(found) = Distance(best)
  <2>1. Reachable(closed, a, b)
    BY <1>3 DEF Reachable
  <2>2. best \in Open /\ Distance(best) <= Distance(found) /\ Distance(found) <= Distance(best)
    BY <1>1, <1>3, <2>1
  <2> HIDE DEF found, best, Open
  <2> QED BY <1>2, <1>3, <2>1, <2>2
<1>4. CASE a = b
  <2>1. found = <<a>>
    BY <1>4, SearchIs
  <2>2. PICK p : p = <<a>> /\ p \in SimplePath /\ p \in Open
    <3>1. Cardinality(Node) \in Nat \ {0}
      BY RoutingAssumption, FS_CardinalityType, FS_EmptySet
    <3>2. PICK p : p = <<a>> /\ p \in [1..1 -> Node] /\ Len(p) = 1 /\ DOMAIN p = {1} /\ p[1] = a
      <4>1. <<a>> \in Seq(Node) /\ Len(<<a>>) = 1 /\ <<a>>[1] = a
        OBVIOUS
      <4>2. DOMAIN <<a>> = 1..1 /\ 1..1 = {1}
        BY <4>1, LenProperties
      <4>3. <<a>> \in [1..1 -> Node]
        BY <4>1, <4>2, LenProperties
      <4> QED BY <4>1, <4>2, <4>3
    <3>3. p \in UNION {[1..n -> Node] : n \in 1..Cardinality(Node)}
      BY <3>1, <3>2
    <3>4. p \in SimplePath
      BY <3>2, <3>3 DEF SimplePath
    <3>5. p \in Open
      BY <1>4, <3>2, <3>4 DEF OpenPaths
    <3> QED BY <3>2, <3>4, <3>5
  <2>3. Distance(p) = 0
    <3>1. PICK h : RunningLengths(h, p) /\ Distance(p) = h[Len(p)-1]
      BY <2>2, PathLengths
    <3>2. Len(p) - 1 = 0
      BY <2>2
    <3> QED BY <3>1, <3>2 DEF RunningLengths
  <2>4. \A r \in Open : Distance(p) <= Distance(r)
    BY <1>2, <2>3
  <2> QED BY <1>3, <2>1, <2>2, <2>4
<1>5. CASE a # b
  <2>1. PICK s : /\ s = Explored(closed, a, b) /\ Seeks(s, closed, a, b)
                 /\ s.reached \/ s.open = {}
    BY ExploredSeeks
  <2>2. found = IF s.reached THEN Reconstruct(s, a, b) ELSE NoRoute
    BY <1>5, <2>1, SearchIs
  <2> HIDE DEF found
  <2>3. CASE s.reached
    <3>1. Arrived(s, closed, a, b)
      BY <2>1, <2>3 DEF Seeks, UnderWay, Searching
    <3>2. found \in Open /\ Distance(found) = s.gScore[b]
      BY <2>2, <2>3, <3>1, Reconstructed DEF Arrived
    <3>3. \A r \in Open : Distance(found) <= Distance(r)
      BY <3>1, <3>2 DEF Arrived
    <3> QED BY <1>3, <3>2, <3>3 DEF found
  <2>4. CASE ~s.reached
    <3>1. Searching(s, closed, a, b, OpenArcs(closed, s.visited)) /\ s.open = {}
      BY <2>1, <2>4 DEF Seeks, UnderWay, Arrived
    <3>2. Open = {}
      BY <3>1, NothingLeft
    <3> QED BY <2>2, <2>4, <3>2 DEF Reachable, found
  <2> QED BY <2>3, <2>4
<1> QED BY <1>4, <1>5

-----------------------------------------------------------------------------

\* SearchFindsShortest in every state of the simulation, for every city, every
\* weighting of its roads no shorter than the straight line, and every closure:
\* FindRoute's A* (routing/astar.go:21-92) may stand for a shortest path.
THEOREM SearchAlwaysShortest == Spec => []SearchFindsShortest
<1>1. SearchFindsShortest
  BY SearchCorrect DEF SearchFindsShortest
<1> QED BY <1>1, PTL

-----------------------------------------------------------------------------
\* The worlds with n orders that have their types and their pairing.
Typed(n) == [drivers : [Driver -> DriverRecord],
             orders  : [1..n -> OrderRecord],
             queue   : Seq(1..n)]

Good(n) == {w \in Typed(n) : Paired(w.drivers, w.orders)}

Inv == TypeOK /\ Pairing

\* A route is a sequence of nodes; one that exists starts where it should.
LEMMA RouteType ==
  ASSUME NEW closed, NEW a \in Node, NEW b \in Node
  PROVE  /\ FindRoute(closed, a, b) \in Seq(Node)
         /\ Reachable(closed, a, b) =>
              /\ FindRoute(closed, a, b) # NoRoute
              /\ Distance(FindRoute(closed, a, b)) \in Nat
<1> DEFINE r == FindRoute(closed, a, b)
<1>1. CASE Reachable(closed, a, b)
  <2>1. r \in SimplePath
    BY <1>1, FindRouteCorrect DEF OpenPaths
  <2> HIDE DEF r
  <2>2. r \in Seq(Node) /\ Len(r) # 0 /\ Distance(r) \in Nat
    BY <2>1, SimplePathType, DistanceType
  <2>3. r # NoRoute
    BY <2>2 DEF NoRoute
  <2> QED BY <2>2, <2>3 DEF r
<1>2. CASE ~Reachable(closed, a, b)
  <2>1. r = NoRoute
    BY <1>2, FindRouteCorrect
  <2> QED BY <1>2, <2>1 DEF NoRoute
<1> QED
  BY <1>1, <1>2

\* What TypeOK and Pairing say of the world the handlers start from.
LEMMA WorldGood ==
  ASSUME Inv
  PROVE  /\ Len(orders) \in 0..MaxOrders
         /\ World \in Good(Len(orders))
<1>1. Len(orders) \in 0..MaxOrders
  BY SimulationAssumption DEF Inv, TypeOK
<1>2. orders \in [1..Len(orders) -> OrderRecord] /\ DOMAIN orders = 1..Len(orders)
  BY DEF Inv, TypeOK
<1>3. World \in Typed(Len(orders))
  BY <1>2 DEF Inv, TypeOK, World, Typed
<1>4. Paired(World.drivers, World.orders)
  BY DEF Inv, Pairing, World
<1> QED
  BY <1>1, <1>3, <1>4 DEF Good

\* Committing a good world keeps the types and the pairing.
LEMMA CommitGood ==
  ASSUME NEW n \in 0..MaxOrders, NEW w \in Good(n), Commit(w),
         shut' \subseteq Road, paused' \in BOOLEAN
  PROVE  Inv'
<1>1. n \in Nat
  BY SimulationAssumption
<1>2. /\ drivers' \in [Driver -> DriverRecord]
      /\ orders' \in [1..n -> OrderRecord]
      /\ queue' \in Seq(1..n)
      /\ Paired(drivers', orders')
  BY DEF Good, Typed, Commit
<1>3. /\ orders' \in Seq(OrderRecord)
      /\ Len(orders') = n
      /\ DOMAIN orders' = 1..n
  BY <1>1, <1>2
<1>4. TypeOK'
  BY <1>1, <1>2, <1>3 DEF TypeOK
<1>5. Pairing'
  BY <1>2 DEF Pairing
<1> QED
  BY <1>4, <1>5 DEF Inv

-----------------------------------------------------------------------------
\* Baseline finds a nearest driver among the candidates when there are any.
LEMMA NearestType ==
  ASSUME NEW n \in 0..MaxOrders, NEW w \in Good(n), NEW node \in Node,
         Candidates(w, node) # {}
  PROVE  Nearest(w, node) \in Candidates(w, node)
<1> DEFINE C == Candidates(w, node)
           far(d) == Distance(FindRoute(shut, w.drivers[d].pos, node))
           Lengths == {far(d) : d \in C}
<1>1. \A d \in C : d \in Driver /\ w.drivers[d].pos \in Node /\ Reachable(shut, w.drivers[d].pos, node)
  BY DEF Candidates, IdleDrivers, Good, Typed, DriverRecord
<1>2. \A d \in C : d \in Nat /\ far(d) \in Nat
  <2>1. ASSUME NEW d \in C PROVE far(d) \in Nat
    BY <1>1, RouteType
  <2> QED BY <1>1, <2>1, SimulationAssumption DEF Driver
<1>3. Lengths \in SUBSET Nat /\ Lengths # {}
  BY <1>2
<1>4. PICK least \in Lengths : \A k \in Lengths : least <= k
  <2> HIDE DEF Lengths
  <2> QED BY <1>3, LeastNatural
<1> DEFINE Closest == {d \in C : far(d) = least}
<1>5. Closest \in SUBSET Nat /\ Closest # {}
  BY <1>2, <1>4
<1>6. PICK first \in Closest : \A d \in Closest : first <= d
  <2> HIDE DEF Closest
  <2> QED BY <1>5, LeastNatural
<1>7. \E d \in C : \A e \in C : far(d) < far(e) \/ (far(d) = far(e) /\ d <= e)
  <2>1. first \in C /\ far(first) = least
    BY <1>6
  <2>2. ASSUME NEW e \in C
        PROVE  far(first) < far(e) \/ (far(first) = far(e) /\ first <= e)
    <3>1. least <= far(e) /\ least \in Nat /\ far(e) \in Nat
      BY <1>2, <1>4
    <3>2. CASE far(e) = least
      <4>1. e \in Closest
        BY <3>2
      <4>2. first <= e
        BY <4>1, <1>6
      <4> QED BY <2>1, <3>2, <4>2
    <3>3. CASE far(e) # least
      <4> HIDE DEF far
      <4> QED BY <2>1, <3>1, <3>3
    <3> QED BY <3>2, <3>3
  <2> QED BY <2>1, <2>2
<1>8. Nearest(w, node) \in C
  BY <1>7, Zenon DEF Nearest
<1> QED
  BY <1>8

-----------------------------------------------------------------------------
\* What a good world is made of, in the form the lemmas below use.
LEMMA GoodWorld ==
  ASSUME NEW n, NEW w \in Good(n)
  PROVE  /\ w \in Typed(n)
         /\ w.drivers \in [Driver -> DriverRecord]
         /\ w.orders \in [1..n -> OrderRecord]
         /\ w.queue \in Seq(1..n)
         /\ Paired(w.drivers, w.orders)
         /\ DOMAIN w.orders = 1..n
         /\ \A d \in Driver : w.drivers[d].status # "idle" =>
              LET o == w.drivers[d].order
              IN  /\ o \in 1..n
                  /\ w.orders[o].driver = d
                  /\ w.orders[o].status = OrderStatusOf[w.drivers[d].status]
                  /\ w.orders[o].status \in {"assigned", "en_route"}
         /\ \A o \in 1..n : w.orders[o].status \in {"assigned", "en_route"} =>
              LET d == w.orders[o].driver
              IN  /\ d \in Driver
                  /\ w.drivers[d].status # "idle"
                  /\ w.drivers[d].order = o
<1>1. /\ w \in Typed(n)
      /\ w.drivers \in [Driver -> DriverRecord]
      /\ w.orders \in [1..n -> OrderRecord]
      /\ w.queue \in Seq(1..n)
      /\ Paired(w.drivers, w.orders)
  BY DEF Good, Typed
<1>2. DOMAIN w.orders = 1..n
  BY <1>1
<1>3. ASSUME NEW d \in Driver, w.drivers[d].status # "idle"
      PROVE  LET o == w.drivers[d].order
             IN  /\ o \in 1..n
                 /\ w.orders[o].driver = d
                 /\ w.orders[o].status = OrderStatusOf[w.drivers[d].status]
                 /\ w.orders[o].status \in {"assigned", "en_route"}
  <2>1. w.drivers[d].status \in {"en_route_to_pickup", "delivering"}
    BY <1>1, <1>3 DEF DriverRecord, DriverStatus
  <2>2. /\ w.drivers[d].order \in 1..n
        /\ w.orders[w.drivers[d].order].driver = d
        /\ w.orders[w.drivers[d].order].status = OrderStatusOf[w.drivers[d].status]
    BY <1>1, <1>2, <1>3 DEF Paired
  <2> QED BY <2>1, <2>2 DEF OrderStatusOf
<1>4. ASSUME NEW o \in 1..n, w.orders[o].status \in {"assigned", "en_route"}
      PROVE  LET d == w.orders[o].driver
             IN  /\ d \in Driver
                 /\ w.drivers[d].status # "idle"
                 /\ w.drivers[d].order = o
  BY <1>1, <1>2, <1>4 DEF Paired
<1> QED
  BY <1>1, <1>2, <1>3, <1>4

\* A busy driver of a good world and its order.
LEMMA BusyDriver ==
  ASSUME NEW n, NEW w \in Good(n), NEW d \in Driver, w.drivers[d].status # "idle"
  PROVE  /\ w.drivers[d].order \in 1..n
         /\ w.orders[w.drivers[d].order].driver = d
         /\ w.orders[w.drivers[d].order].status = OrderStatusOf[w.drivers[d].status]
         /\ w.orders[w.drivers[d].order].status \in {"assigned", "en_route"}
BY GoodWorld

\* An order in progress in a good world and its driver.
LEMMA CarriedOrder ==
  ASSUME NEW n, NEW w \in Good(n), NEW o \in 1..n,
         w.orders[o].status \in {"assigned", "en_route"}
  PROVE  /\ w.orders[o].driver \in Driver
         /\ w.drivers[w.orders[o].driver].status # "idle"
         /\ w.drivers[w.orders[o].driver].order = o
<1>1. DOMAIN w.orders = 1..n /\ Paired(w.drivers, w.orders)
  BY GoodWorld
<1> QED
  BY <1>1 DEF Paired

\* Turning a pending order away keeps the world good.
LEMMA RejectGood ==
  ASSUME NEW n \in 0..MaxOrders, NEW w \in Good(n), NEW o \in 1..n,
         w.orders[o].status = "pending"
  PROVE  Reject(w, o) \in Good(n)
<1> DEFINE v == Reject(w, o)
<1>1. /\ w.drivers \in [Driver -> DriverRecord]
      /\ w.orders \in [1..n -> OrderRecord]
      /\ w.queue \in Seq(1..n)
      /\ Paired(w.drivers, w.orders)
  BY GoodWorld
<1>2. /\ v.drivers = w.drivers
      /\ v.orders = [w.orders EXCEPT ![o].status = "unassignable"]
      /\ v.queue = w.queue
  BY DEF Reject, Good, Typed
<1>3. v.orders \in [1..n -> OrderRecord]
  <2>1. [w.orders[o] EXCEPT !.status = "unassignable"] \in OrderRecord
    BY <1>1 DEF OrderRecord, OrderStatus
  <2> QED BY <1>1, <1>2, <2>1
<1>4. v \in Typed(n)
  BY <1>1, <1>3 DEF Reject, Good, Typed
<1>5. Paired(v.drivers, v.orders)
  <2>1. \A p \in 1..n : p # o => v.orders[p] = w.orders[p]
    BY <1>1, <1>2
  <2>2. v.orders[o].status = "unassignable"
    BY <1>1, <1>2 DEF OrderRecord
  <2>3. ASSUME NEW d \in Driver, w.drivers[d].status # "idle"
        PROVE  w.drivers[d].order # o
    <3>1. w.orders[w.drivers[d].order].status \in {"assigned", "en_route"}
      BY <2>3, BusyDriver
    <3> QED BY <3>1
  <2> HIDE DEF v
  <2>4. DOMAIN v.orders = 1..n /\ DOMAIN w.orders = 1..n
    BY <1>1, <1>3
  <2>5. v.drivers = w.drivers
    BY <1>2 DEF v
  <2>6. ASSUME NEW d \in Driver
        PROVE  IF v.drivers[d].status = "idle"
               THEN v.drivers[d].order = NoOrder /\ v.drivers[d].route = NoRoute /\ v.drivers[d].index = 1
               ELSE /\ v.drivers[d].order \in DOMAIN v.orders
                    /\ v.orders[v.drivers[d].order].driver = d
                    /\ v.orders[v.drivers[d].order].status = OrderStatusOf[v.drivers[d].status]
    <3>1. CASE w.drivers[d].status = "idle"
      BY <3>1, <1>1, <2>5 DEF Paired
    <3>2. CASE w.drivers[d].status # "idle"
      <4>1. /\ w.drivers[d].order \in 1..n
            /\ w.orders[w.drivers[d].order].driver = d
            /\ w.orders[w.drivers[d].order].status = OrderStatusOf[w.drivers[d].status]
        BY <3>2, BusyDriver
      <4> QED BY <3>2, <4>1, <2>1, <2>3, <2>4, <2>5
    <3> QED BY <3>1, <3>2
  <2>7. ASSUME NEW p \in 1..n, v.orders[p].status \in {"assigned", "en_route"}
        PROVE  /\ v.orders[p].driver \in Driver
               /\ v.drivers[v.orders[p].driver].status # "idle"
               /\ v.drivers[v.orders[p].driver].order = p
    <3>1. p # o /\ v.orders[p] = w.orders[p]
      BY <2>1, <2>2, <2>7
    <3>2. /\ w.orders[p].driver \in Driver
          /\ w.drivers[w.orders[p].driver].status # "idle"
          /\ w.drivers[w.orders[p].driver].order = p
      BY <3>1, <2>7, CarriedOrder
    <3> QED BY <3>1, <3>2, <2>5
  <2> QED BY <2>4, <2>6, <2>7 DEF Paired
<1> QED
  BY <1>4, <1>5 DEF Good

\* The route of a new assignment is a sequence of nodes.
LEMMA JoinType ==
  ASSUME NEW p \in Seq(Node), NEW q \in Seq(Node), q # NoRoute
  PROVE  p \o Tail(q) \in Seq(Node)
<1>1. Tail(q) \in Seq(Node)
  BY HeadTailProperties DEF NoRoute
<1> QED
  BY <1>1, ConcatProperties

\* Giving a pending order to an idle driver keeps the world good.
LEMMA ApplyGood ==
  ASSUME NEW n \in 0..MaxOrders, NEW w \in Good(n), NEW o \in 1..n,
         w.orders[o].status = "pending",
         NEW d \in Driver, w.drivers[d].status = "idle"
  PROVE  ApplyAssignment(w, o, d) \in Good(n)
<1> DEFINE pickup   == w.orders[o].pickup
           toDest   == FindRoute(shut, pickup, w.orders[o].dest)
           toPickup == FindRoute(shut, w.drivers[d].pos, pickup)
           v        == ApplyAssignment(w, o, d)
           carrying == [status   |-> IF w.drivers[d].pos = pickup
                                     THEN "delivering" ELSE "en_route_to_pickup",
                        pos      |-> w.drivers[d].pos,
                        route    |-> toPickup \o Tail(toDest),
                        index    |-> 1,
                        progress |-> w.drivers[d].progress,
                        order    |-> o]
           carried  == [w.orders[o] EXCEPT
                          !.driver = d,
                          !.status = IF w.drivers[d].pos = pickup THEN "en_route" ELSE "assigned"]
<1>1. CASE toDest = NoRoute
  BY <1>1, RejectGood DEF ApplyAssignment
<1>2. CASE toDest # NoRoute
  <2>1. /\ w.drivers \in [Driver -> DriverRecord]
        /\ w.orders \in [1..n -> OrderRecord]
        /\ w.queue \in Seq(1..n)
        /\ Paired(w.drivers, w.orders)
    BY DEF Good, Typed
  <2>2. /\ pickup \in Node /\ w.orders[o].dest \in Node
        /\ w.drivers[d].pos \in Node /\ w.drivers[d].progress \in Nat
    BY <2>1 DEF OrderRecord, DriverRecord
  <2>3. toPickup \o Tail(toDest) \in Seq(Node)
    BY <1>2, <2>2, RouteType, JoinType
  <2>4. v = [drivers |-> [w.drivers EXCEPT ![d] = carrying],
             orders  |-> [w.orders EXCEPT ![o] = carried],
             queue   |-> w.queue]
    BY <1>2 DEF ApplyAssignment
  <2> HIDE DEF toDest, toPickup, v
  <2>5. carrying \in DriverRecord
    BY <2>2, <2>3, SimulationAssumption DEF DriverRecord, DriverStatus
  <2>6. carried \in OrderRecord
    BY <2>1 DEF OrderRecord, OrderStatus
  <2>7. v \in Typed(n)
    BY <2>1, <2>4, <2>5, <2>6 DEF Typed
  <2>8. /\ carrying.status # "idle" /\ carrying.order = o
        /\ carried.driver = d
        /\ carried.status = OrderStatusOf[carrying.status]
    BY <2>1 DEF OrderStatusOf, OrderRecord
  <2>9. Paired(v.drivers, v.orders)
    <3> HIDE DEF carrying, carried
    <3>1. /\ v.drivers[d] = carrying
          /\ \A e \in Driver : e # d => v.drivers[e] = w.drivers[e]
          /\ v.orders[o] = carried
          /\ \A p \in 1..n : p # o => v.orders[p] = w.orders[p]
          /\ DOMAIN v.orders = 1..n /\ DOMAIN w.orders = 1..n
      BY <2>1, <2>4
    <3>2. ASSUME NEW e \in Driver, w.drivers[e].status # "idle"
          PROVE  w.drivers[e].order # o
      <4>1. w.orders[w.drivers[e].order].status \in {"assigned", "en_route"}
        BY <3>2, BusyDriver
      <4> QED BY <4>1
    <3>3. ASSUME NEW p \in 1..n, w.orders[p].status \in {"assigned", "en_route"}
          PROVE  w.orders[p].driver # d
      <4>1. w.drivers[w.orders[p].driver].status # "idle"
        BY <3>3, CarriedOrder
      <4> QED BY <4>1
    <3>4. ASSUME NEW e \in Driver
          PROVE  IF v.drivers[e].status = "idle"
                 THEN v.drivers[e].order = NoOrder /\ v.drivers[e].route = NoRoute /\ v.drivers[e].index = 1
                 ELSE /\ v.drivers[e].order \in DOMAIN v.orders
                      /\ v.orders[v.drivers[e].order].driver = e
                      /\ v.orders[v.drivers[e].order].status = OrderStatusOf[v.drivers[e].status]
      <4>1. CASE e = d
        BY <4>1, <2>8, <3>1
      <4>2. CASE e # d /\ w.drivers[e].status = "idle"
        BY <4>2, <3>1, <2>1 DEF Paired
      <4>3. CASE e # d /\ w.drivers[e].status # "idle"
        <5>1. /\ w.drivers[e].order \in 1..n
              /\ w.orders[w.drivers[e].order].driver = e
              /\ w.orders[w.drivers[e].order].status = OrderStatusOf[w.drivers[e].status]
          BY <4>3, BusyDriver
        <5> QED BY <4>3, <5>1, <3>1, <3>2
      <4> QED BY <4>1, <4>2, <4>3
    <3>5. ASSUME NEW p \in 1..n, v.orders[p].status \in {"assigned", "en_route"}
          PROVE  /\ v.orders[p].driver \in Driver
                 /\ v.drivers[v.orders[p].driver].status # "idle"
                 /\ v.drivers[v.orders[p].driver].order = p
      <4>1. CASE p = o
        BY <4>1, <2>8, <3>1
      <4>2. CASE p # o
        <5>1. v.orders[p] = w.orders[p]
          BY <4>2, <3>1
        <5>2. /\ w.orders[p].driver \in Driver
              /\ w.drivers[w.orders[p].driver].status # "idle"
              /\ w.drivers[w.orders[p].driver].order = p
          BY <5>1, <3>5, CarriedOrder
        <5>3. w.orders[p].driver # d
          BY <5>1, <3>3, <3>5
        <5> QED BY <5>1, <5>2, <5>3, <3>1
      <4> QED BY <4>1, <4>2
    <3> QED BY <3>1, <3>4, <3>5 DEF Paired
  <2> QED BY <2>7, <2>9 DEF Good, v
<1> QED
  BY <1>1, <1>2

\* assignBaseline keeps the world good: it assigns, rejects or queues.
LEMMA AssignGood ==
  ASSUME NEW n \in 0..MaxOrders, NEW w \in Good(n), NEW o \in 1..n,
         w.orders[o].status = "pending"
  PROVE  AssignBaseline(w, o) \in Good(n)
<1> DEFINE pickup == w.orders[o].pickup
<1>1. pickup \in Node
  BY DEF Good, Typed, OrderRecord
<1>2. CASE Candidates(w, pickup) # {}
  <2>1. Nearest(w, pickup) \in Candidates(w, pickup)
    BY <1>1, <1>2, NearestType
  <2>2. Nearest(w, pickup) \in Driver /\ w.drivers[Nearest(w, pickup)].status = "idle"
    BY <2>1 DEF Candidates, IdleDrivers
  <2> QED BY <1>2, <2>2, ApplyGood DEF AssignBaseline
<1>3. CASE Candidates(w, pickup) = {} /\ IdleDrivers(w) # {}
  BY <1>3, RejectGood DEF AssignBaseline
<1>4. CASE Candidates(w, pickup) = {} /\ IdleDrivers(w) = {}
  <2>1. AssignBaseline(w, o) = [w EXCEPT !.queue = Append(@, o)]
    BY <1>4 DEF AssignBaseline
  <2>2. Append(w.queue, o) \in Seq(1..n)
    BY AppendProperties DEF Good, Typed
  <2> QED BY <2>1, <2>2 DEF Good, Typed
<1> QED
  BY <1>2, <1>3, <1>4

\* A good world with its queue emptied is good.
LEMMA EmptiedGood ==
  ASSUME NEW n \in 0..MaxOrders, NEW w \in Good(n)
  PROVE  [w EXCEPT !.queue = <<>>] \in Good(n)
<1>1. [w EXCEPT !.queue = <<>>] = [drivers |-> w.drivers, orders |-> w.orders, queue |-> <<>>]
  BY GoodWorld DEF Typed
<1>2. <<>> \in Seq(1..n)
  OBVIOUS
<1> QED
  BY <1>1, <1>2, GoodWorld DEF Good, Typed

\* A round of retryPendingBaseline's loop.
Offered(v, o) == IF v.orders[o].status = "pending" THEN AssignBaseline(v, o) ELSE v

\* acc holds the worlds the loop goes through, from world w with its queue emptied.
IsRetry(acc, n, w) ==
  /\ acc \in [0..Len(w.queue) -> Good(n)]
  /\ acc[0] = [w EXCEPT !.queue = <<>>]
  /\ \A i \in 1..Len(w.queue) : acc[i] = Offered(acc[i-1], w.queue[i])

\* A retry that does not return early goes through the worlds of its loop.
LEMMA RetryRun ==
  ASSUME NEW n \in 0..MaxOrders, NEW w \in Good(n),
         ~(w.queue = <<>> \/ IdleDrivers(w) = {})
  PROVE  \E acc : IsRetry(acc, n, w) /\ RetryPending(w) = acc[Len(w.queue)]
<1> DEFINE Offer(v, o) == IF v.orders[o].status = "pending" THEN AssignBaseline(v, o) ELSE v
           S    == Good(n)
           Q    == 1..n
           F    == [x \in S \X Q |-> Offer(x[1], x[2])]
           init == [w EXCEPT !.queue = <<>>]
           q    == w.queue
           acc  == CHOOSE g : g = [i \in 0..Len(q) |-> IF i = 0 THEN init ELSE Offer(g[i-1], q[i])]
<1>1. init \in S /\ q \in Seq(Q)
  BY EmptiedGood, GoodWorld
<1>2. ASSUME NEW v \in S, NEW o \in Q
      PROVE  Offer(v, o) \in S
  BY AssignGood
<1>3. ASSUME NEW v \in S, NEW o \in Q
      PROVE  F[<<v, o>>] = Offer(v, o)
  <2> HIDE DEF S, Q, Offer
  <2> QED OBVIOUS
<1>4. RetryPending(w) = acc[Len(q)]
  BY DEF RetryPending, Iterate
<1>5. \A v, o : Offer(v, o) = Offered(v, o)
  BY DEF Offered
<1> HIDE DEF S, Q, Offer, init, q
<1>6. \A v \in S, o \in Q : F[<<v, o>>] \in S
  BY <1>2, <1>3
<1>7. Len(q) \in Nat /\ \A i \in 1..Len(q) : q[i] \in Q
  BY <1>1, LenProperties, ElementOfSeq
<1> HIDE DEF F
<1>8. PICK h : IsTypedRun(h, S, F, init, q)
  BY <1>1, <1>6, TypedRun
<1>9. /\ h \in [0..Len(q) -> S]
      /\ \A i \in 0..Len(q) : h[i] = IF i = 0 THEN init ELSE Offer(h[i-1], q[i])
  <2>1. ASSUME NEW i \in 0..Len(q)
        PROVE  h[i] = IF i = 0 THEN init ELSE Offer(h[i-1], q[i])
    <3>1. CASE i = 0
      BY <1>8, <3>1 DEF IsTypedRun
    <3>2. CASE i # 0
      <4>1. i \in 1..Len(q) /\ i-1 \in 0..Len(q) /\ q[i] \in Q
        BY <1>7, <3>2
      <4>2. h[i-1] \in S /\ h[i] = F[<<h[i-1], q[i]>>]
        BY <4>1, <1>8 DEF IsTypedRun
      <4> QED BY <3>2, <4>1, <4>2, <1>3
    <3> QED BY <3>1, <3>2
  <2> QED BY <1>8, <2>1 DEF IsTypedRun
<1>10. h = [i \in 0..Len(q) |-> IF i = 0 THEN init ELSE Offer(h[i-1], q[i])]
  BY <1>9
<1>11. acc = [i \in 0..Len(q) |-> IF i = 0 THEN init ELSE Offer(acc[i-1], q[i])]
  BY <1>10
<1> HIDE DEF acc
<1>12. ASSUME NEW i \in 0..Len(q)
       PROVE  acc[i] = IF i = 0 THEN init ELSE Offer(acc[i-1], q[i])
  BY <1>11
<1>13. acc[0] = init
  <2>1. 0 \in 0..Len(q)
    BY <1>7
  <2> QED BY <1>12, <2>1
<1>14. ASSUME NEW i \in 1..Len(q)
       PROVE  acc[i] = Offer(acc[i-1], q[i])
  <2>1. i \in 0..Len(q) /\ i # 0
    BY <1>7
  <2> QED BY <1>12, <2>1
<1>15. \A i \in 0..Len(q) : acc[i] \in S
  <2>1. ASSUME NEW i \in 1..Len(q), acc[i-1] \in S
        PROVE  acc[i] \in S
    BY <1>2, <1>7, <1>14, <2>1
  <2> QED BY <1>1, <1>7, <1>13, <2>1, LoopInvariant
<1>16. acc \in [0..Len(q) -> S]
  BY <1>11, <1>15
<1>17. IsRetry(acc, n, w)
  BY <1>5, <1>13, <1>14, <1>16 DEF IsRetry, S, init, q
<1> QED
  BY <1>4, <1>17 DEF q

\* retryPendingBaseline keeps the world good: every round of its loop does.
LEMMA RetryGood ==
  ASSUME NEW n \in 0..MaxOrders, NEW w \in Good(n)
  PROVE  RetryPending(w) \in Good(n)
<1>1. CASE w.queue = <<>> \/ IdleDrivers(w) = {}
  BY <1>1 DEF RetryPending
<1>2. CASE ~(w.queue = <<>> \/ IdleDrivers(w) = {})
  <2>1. PICK acc : IsRetry(acc, n, w) /\ RetryPending(w) = acc[Len(w.queue)]
    BY <1>2, RetryRun
  <2>2. Len(w.queue) \in 0..Len(w.queue)
    BY GoodWorld, LenProperties
  <2> QED BY <2>1, <2>2 DEF IsRetry
<1> QED
  BY <1>1, <1>2

-----------------------------------------------------------------------------
\* What moveDriver keeps true of a leg it drives for order o: the record it
\* leaves is typed, and the driver still works on o, at the stage the order is
\* at, or has delivered it.
Leg(o) ==
  {m \in [driver : DriverRecord, status : OrderStatus, budget : Nat] :
     IF m.driver.status = "idle"
     THEN /\ m.status = "delivered"
          /\ m.driver.order = NoOrder /\ m.driver.route = NoRoute /\ m.driver.index = 1
     ELSE /\ m.driver.order = o
          /\ m.status = OrderStatusOf[m.driver.status]}

\* handleDriverAtNode keeps the leg.
LEMMA ArriveLeg ==
  ASSUME NEW o \in 0..MaxOrders, NEW m \in Leg(o), NEW pickup, m.driver.status # "idle"
  PROVE  Arrive(m, pickup) \in Leg(o)
<1> DEFINE d       == m.driver
           collect == d.status = "en_route_to_pickup" /\ d.pos = pickup
           finish  == d.index = Len(d.route)
           v       == Arrive(m, pickup)
<1>1. /\ m \in [driver : DriverRecord, status : OrderStatus, budget : Nat]
      /\ d \in DriverRecord
      /\ d.order = o
      /\ m.status = OrderStatusOf[d.status]
  BY DEF Leg
<1>2. v = [driver |-> IF finish THEN IdleAt(d.pos)
                      ELSE IF collect THEN [d EXCEPT !.status = "delivering"] ELSE d,
           status |-> IF finish THEN "delivered" ELSE IF collect THEN "en_route" ELSE m.status,
           budget |-> m.budget]
  BY DEF Arrive
<1>3. CASE finish
  <2>1. IdleAt(d.pos) \in DriverRecord
    BY <1>1, SimulationAssumption DEF DriverRecord, DriverStatus, IdleAt, NoRoute, NoOrder
  <2>2. v = [driver |-> IdleAt(d.pos), status |-> "delivered", budget |-> m.budget]
    BY <1>2, <1>3
  <2> QED BY <1>1, <2>1, <2>2 DEF Leg, IdleAt, OrderStatus
<1>4. CASE ~finish /\ collect
  <2> DEFINE e == [d EXCEPT !.status = "delivering"]
  <2>1. e \in DriverRecord
    BY <1>1 DEF DriverRecord, DriverStatus
  <2>2. v = [driver |-> e, status |-> "en_route", budget |-> m.budget]
    BY <1>2, <1>4
  <2>3. e.status = "delivering" /\ e.order = o
    BY <1>1 DEF DriverRecord
  <2> HIDE DEF e, v
  <2>4. OrderStatusOf["delivering"] = "en_route"
    BY DEF OrderStatusOf
  <2>5. v \in Leg(o)
    BY <1>1, <2>1, <2>2, <2>3, <2>4 DEF Leg, OrderStatus
  <2> QED BY <2>5 DEF v
<1>5. CASE ~finish /\ ~collect
  <2>1. v = [driver |-> d, status |-> m.status, budget |-> m.budget]
    BY <1>2, <1>5
  <2> QED BY <1>1, <2>1 DEF Leg
<1> QED
  BY <1>3, <1>4, <1>5

\* A round of moveDriver's loop keeps the leg.
LEMMA HopLeg ==
  ASSUME NEW o \in 0..MaxOrders, NEW m \in Leg(o), NEW pickup
  PROVE  Hop(m, pickup) \in Leg(o)
<1> DEFINE d         == m.driver
           road      == HopRoad(d.route, d.index)
           remaining == Weight[road] - d.progress
           next      == [driver |-> [d EXCEPT !.progress = 0,
                                             !.index = @ + 1,
                                             !.pos = d.route[d.index + 1]],
                         status |-> m.status,
                         budget |-> m.budget - remaining]
<1>1. /\ m \in [driver : DriverRecord, status : OrderStatus, budget : Nat]
      /\ d \in DriverRecord /\ m.budget \in Nat /\ m.status \in OrderStatus
      /\ d.route \in Seq(Node) /\ d.index \in Nat \ {0} /\ d.progress \in Nat
  BY DEF Leg, DriverRecord
<1>2. CASE m.budget <= 0 \/ d.index >= Len(d.route) \/ road \notin Road \ shut
  BY <1>2 DEF Hop
<1>3. CASE ~(m.budget <= 0 \/ d.index >= Len(d.route) \/ road \notin Road \ shut)
  <2>1. /\ d.index + 1 \in 1..Len(d.route)
        /\ Weight[road] \in Nat
        /\ d.status # "idle"
    <3>1. Len(d.route) \in Nat /\ (d.route = NoRoute => Len(d.route) = 0)
      BY <1>1, LenProperties DEF NoRoute
    <3>2. d.index + 1 \in 1..Len(d.route) /\ road \in Road
      BY <1>1, <1>3, <3>1
    <3>3. d.status # "idle"
      BY <1>1, <3>1, <3>2 DEF Leg
    <3> QED BY <3>2, <3>3, RoutingAssumption
  <2>2. d.route[d.index + 1] \in Node
    BY <1>1, <2>1, ElementOfSeq
  <2>3. d.order = o /\ m.status = OrderStatusOf[d.status]
    BY <2>1 DEF Leg
  <2>4. CASE m.budget >= remaining
    <3>1. Hop(m, pickup) = Arrive(next, pickup)
      BY <1>3, <2>4 DEF Hop
    <3>2. m.budget - remaining \in Nat
      BY <1>1, <2>1, <2>4
    <3>3. next.driver = [status |-> d.status, pos |-> d.route[d.index + 1],
                         route |-> d.route, index |-> d.index + 1,
                         progress |-> 0, order |-> o]
      BY <1>1, <2>3 DEF DriverRecord
    <3>4. /\ next.status = m.status
          /\ next.budget = m.budget - remaining
          /\ next \in [driver : DriverRecord, status : OrderStatus, budget : Nat]
      <4>1. next.driver \in DriverRecord
        BY <1>1, <2>2, <3>3 DEF DriverRecord
      <4> QED BY <4>1, <3>2, <1>1
    <3> HIDE DEF next
    <3>5. Arrive(next, pickup) \in Leg(o)
      <4>1. next \in Leg(o) /\ next.driver.status # "idle"
        BY <2>1, <2>3, <3>3, <3>4 DEF Leg
      <4> QED BY <4>1, ArriveLeg
    <3> QED BY <3>1, <3>5
  <2>5. CASE ~(m.budget >= remaining)
    <3>1. Hop(m, pickup) = [driver |-> [d EXCEPT !.progress = @ + m.budget],
                            status |-> m.status, budget |-> 0]
      BY <1>3, <2>5 DEF Hop
    <3>2. [d EXCEPT !.progress = @ + m.budget] \in DriverRecord
      <4>1. d.progress + m.budget \in Nat
        BY <1>1, <2>3 DEF DriverRecord
      <4> QED BY <1>1, <4>1 DEF DriverRecord
    <3> QED BY <1>1, <2>1, <2>3, <3>1, <3>2 DEF Leg, DriverRecord
  <2> QED BY <2>4, <2>5
<1> QED
  BY <1>2, <1>3

\* moveDriver stays within a set of legs S when each round of its loop does.
LEMMA MovedLoop ==
  ASSUME NEW S, NEW d \in Driver,
         drivers[d].route \in Seq(Node),
         [driver |-> drivers[d], status |-> orders[drivers[d].order].status, budget |-> Speed] \in S,
         \A m \in S : Hop(m, orders[drivers[d].order].pickup) \in S
  PROVE  Moved(d) \in S
<1> DEFINE o           == drivers[d].order
           Round(m, i) == Hop(m, orders[o].pickup)
           F           == [x \in S \X Node |-> Round(x[1], x[2])]
           init        == [driver |-> drivers[d], status |-> orders[o].status, budget |-> Speed]
           q           == drivers[d].route
           acc         == CHOOSE g : g = [i \in 0..Len(q) |-> IF i = 0 THEN init ELSE Round(g[i-1], q[i])]
<1>1. init \in S
  OBVIOUS
<1>2. q \in Seq(Node)
  OBVIOUS
<1>3. ASSUME NEW m \in S, NEW i
      PROVE  Round(m, i) \in S
  OBVIOUS
<1>4. ASSUME NEW m \in S, NEW i \in Node
      PROVE  F[<<m, i>>] = Round(m, i)
  <2> HIDE DEF Round
  <2> QED OBVIOUS
<1>5. Moved(d) = acc[Len(q)]
  BY DEF Moved, Iterate
<1> HIDE DEF Round, init, q
<1>6. \A m \in S, i \in Node : F[<<m, i>>] \in S
  BY <1>3, <1>4
<1>7. Len(q) \in Nat /\ \A i \in 1..Len(q) : q[i] \in Node
  BY <1>2, LenProperties, ElementOfSeq
<1> HIDE DEF F
<1>8. PICK h : IsTypedRun(h, S, F, init, q)
  BY <1>1, <1>2, <1>6, TypedRun
<1>9. h = [i \in 0..Len(q) |-> IF i = 0 THEN init ELSE Round(h[i-1], q[i])]
  <2>1. ASSUME NEW i \in 0..Len(q)
        PROVE  h[i] = IF i = 0 THEN init ELSE Round(h[i-1], q[i])
    <3>1. CASE i = 0
      BY <1>8, <3>1 DEF IsTypedRun
    <3>2. CASE i # 0
      <4>1. i \in 1..Len(q) /\ i-1 \in 0..Len(q) /\ q[i] \in Node
        BY <1>7, <3>2
      <4>2. h[i-1] \in S /\ h[i] = F[<<h[i-1], q[i]>>]
        BY <4>1, <1>8 DEF IsTypedRun
      <4> QED BY <3>2, <4>1, <4>2, <1>4
    <3> QED BY <3>1, <3>2
  <2> QED BY <1>8, <2>1 DEF IsTypedRun
<1>10. acc = [i \in 0..Len(q) |-> IF i = 0 THEN init ELSE Round(acc[i-1], q[i])]
  BY <1>9
<1> HIDE DEF acc
<1>11. acc[0] \in S
  <2>1. 0 \in 0..Len(q)
    BY <1>7
  <2> QED BY <2>1, <1>1, <1>10
<1>12. ASSUME NEW i \in 1..Len(q), acc[i-1] \in S
       PROVE  acc[i] \in S
  <2>1. i \in 0..Len(q) /\ i # 0
    BY <1>7
  <2>2. acc[i] = Round(acc[i-1], q[i])
    BY <2>1, <1>10
  <2> QED BY <2>2, <1>12, <1>3
<1>13. \A i \in 0..Len(q) : acc[i] \in S
  BY <1>7, <1>11, <1>12, LoopInvariant
<1> QED
  BY <1>5, <1>7, <1>13

\* moveDriver keeps the leg of a driver on the move.
LEMMA MovedLeg ==
  ASSUME NEW o \in 0..MaxOrders, NEW d \in Driver,
         drivers[d].order = o,
         drivers[d].route \in Seq(Node),
         [driver |-> drivers[d], status |-> orders[o].status, budget |-> Speed] \in Leg(o)
  PROVE  Moved(d) \in Leg(o)
BY HopLeg, MovedLoop

\* A driver on the move is busy and keeps its leg.
LEMMA MovedOnLeg ==
  ASSUME Inv, NEW d \in Driver, OnTheMove(d)
  PROVE  /\ drivers[d].status # "idle"
         /\ Moved(d) \in Leg(drivers[d].order)
<1> DEFINE n == Len(orders)
           o == drivers[d].order
<1>1. World \in Good(n) /\ World.drivers = drivers /\ World.orders = orders /\ n \in 0..MaxOrders
  BY WorldGood DEF World
<1> HIDE DEF n
<1>2. /\ drivers[d] \in DriverRecord /\ drivers[d].route \in Seq(Node)
      /\ drivers[d].index \in Nat \ {0} /\ drivers[d].status \in DriverStatus
      /\ orders \in [1..n -> OrderRecord]
  <2>1. drivers \in [Driver -> DriverRecord] /\ orders \in [1..n -> OrderRecord]
    BY <1>1, GoodWorld
  <2> QED BY <2>1 DEF DriverRecord
<1>3. drivers[d].route # NoRoute
  <2>1. Len(drivers[d].route) # 0
    BY <1>2, LenProperties DEF OnTheMove
  <2> QED BY <2>1 DEF NoRoute
<1>4. drivers[d].status # "idle"
  BY <1>3 DEF Inv, Pairing, Paired
<1>5. o \in 1..n /\ orders[o].status = OrderStatusOf[drivers[d].status]
  BY <1>1, <1>4, BusyDriver
<1>6. o \in 0..MaxOrders /\ orders[o].status \in OrderStatus /\ Speed \in Nat
  BY <1>1, <1>2, <1>5, SimulationAssumption DEF OrderRecord
<1>7. [driver |-> drivers[d], status |-> orders[o].status, budget |-> Speed] \in Leg(o)
  BY <1>2, <1>4, <1>5, <1>6 DEF Leg
<1> HIDE DEF o
<1>8. Moved(d) \in Leg(o)
  BY <1>2, <1>6, <1>7, MovedLeg DEF o
<1> QED
  BY <1>4, <1>8 DEF o

\* The movement half of a tick: a driver on the move has a leg and keeps it,
\* and its order follows.
LEMMA AfterMovesGood ==
  ASSUME Inv
  PROVE  AfterMoves \in Good(Len(orders))
<1> DEFINE n == Len(orders)
           w == AfterMoves
<1>1. /\ n \in 0..MaxOrders
      /\ drivers \in [Driver -> DriverRecord]
      /\ orders \in [1..n -> OrderRecord]
      /\ queue \in Seq(1..n)
      /\ DOMAIN orders = 1..n
      /\ NoDriver \notin Driver
  <2>1. World \in Good(n) /\ n \in 0..MaxOrders
    BY WorldGood
  <2>2. World.drivers = drivers /\ World.orders = orders /\ World.queue = queue
    BY DEF World
  <2>3. NoDriver \notin Driver
    BY SimulationAssumption DEF NoDriver, Driver
  <2> HIDE DEF n
  <2> QED BY <2>1, <2>2, <2>3, GoodWorld
<1>2. ASSUME NEW d \in Driver, drivers[d].status # "idle"
      PROVE  /\ drivers[d].order \in 1..n
             /\ orders[drivers[d].order].driver = d
             /\ orders[drivers[d].order].status = OrderStatusOf[drivers[d].status]
             /\ orders[drivers[d].order].status \in {"assigned", "en_route"}
  <2>1. World \in Good(n) /\ World.drivers = drivers /\ World.orders = orders
    BY WorldGood DEF World
  <2> HIDE DEF n
  <2> QED BY <1>2, <2>1, GoodWorld
<1>3. ASSUME NEW o \in 1..n, orders[o].status \in {"assigned", "en_route"}
      PROVE  /\ orders[o].driver \in Driver
             /\ drivers[orders[o].driver].status # "idle"
             /\ drivers[orders[o].driver].order = o
  <2>1. World \in Good(n) /\ World.drivers = drivers /\ World.orders = orders
    BY WorldGood DEF World
  <2> HIDE DEF n
  <2> QED BY <1>3, <2>1, GoodWorld
<1>4. ASSUME NEW d \in Driver, OnTheMove(d)
      PROVE  /\ drivers[d].status # "idle"
             /\ Moved(d) \in Leg(drivers[d].order)
  BY <1>4, MovedOnLeg
<1>5. /\ w.queue = queue
      /\ w.drivers = [d \in Driver |-> IF OnTheMove(d) THEN Moved(d).driver ELSE drivers[d]]
      /\ w.orders = [o \in 1..n |->
                       IF orders[o].driver # NoDriver /\ OnTheMove(orders[o].driver)
                            /\ drivers[orders[o].driver].order = o
                       THEN [orders[o] EXCEPT !.status = Moved(orders[o].driver).status]
                       ELSE orders[o]]
  BY <1>1 DEF AfterMoves
<1>6. w = [drivers |-> w.drivers, orders |-> w.orders, queue |-> w.queue]
  BY DEF AfterMoves
<1> HIDE DEF w, n
<1>7. ASSUME NEW d \in Driver
      PROVE  /\ w.drivers[d] \in DriverRecord
             /\ OnTheMove(d) =>
                  /\ w.drivers[d] = Moved(d).driver
                  /\ drivers[d].order \in 1..n
                  /\ w.orders[drivers[d].order].driver = d
                  /\ w.orders[drivers[d].order].status = Moved(d).status
             /\ ~OnTheMove(d) => w.drivers[d] = drivers[d]
  <2>1. CASE OnTheMove(d)
    <3>1. Moved(d).driver \in DriverRecord
      BY <1>4, <2>1 DEF Leg
    <3>2. drivers[d].order \in 1..n /\ orders[drivers[d].order].driver = d
      BY <1>2, <1>4, <2>1
    <3>3. w.orders[drivers[d].order] = [orders[drivers[d].order] EXCEPT !.status = Moved(d).status]
      <4> DEFINE o == drivers[d].order
      <4>1. orders[o].driver # NoDriver /\ OnTheMove(orders[o].driver) /\ drivers[orders[o].driver].order = o
        BY <1>1, <2>1, <3>2
      <4>2. o \in 1..n
        BY <3>2
      <4> HIDE DEF o
      <4>3. w.orders[o] = [orders[o] EXCEPT !.status = Moved(orders[o].driver).status]
        BY <1>5, <4>1, <4>2
      <4> QED BY <3>2, <4>3 DEF o
    <3>4. orders[drivers[d].order] \in OrderRecord
      BY <1>1, <3>2
    <3> QED BY <1>5, <2>1, <3>1, <3>2, <3>3, <3>4 DEF OrderRecord
  <2>2. CASE ~OnTheMove(d)
    BY <1>1, <1>5, <2>2
  <2> QED BY <2>1, <2>2
<1>8. ASSUME NEW o \in 1..n
      PROVE  /\ w.orders[o] \in OrderRecord
             /\ \/ w.orders[o] = orders[o]
                \/ /\ orders[o].driver \in Driver
                   /\ OnTheMove(orders[o].driver)
                   /\ drivers[orders[o].driver].order = o
  <2> DEFINE d == orders[o].driver
  <2>1. orders[o] \in OrderRecord /\ d \in Driver \union {NoDriver}
    BY <1>1 DEF OrderRecord
  <2>2. CASE d # NoDriver /\ OnTheMove(d) /\ drivers[d].order = o
    <3>1. Moved(d).status \in OrderStatus
      BY <1>4, <2>1, <2>2 DEF Leg
    <3>2. w.orders[o] = [orders[o] EXCEPT !.status = Moved(d).status]
      BY <1>5, <2>2
    <3> QED BY <2>1, <2>2, <3>1, <3>2 DEF OrderRecord
  <2>3. CASE ~(d # NoDriver /\ OnTheMove(d) /\ drivers[d].order = o)
    BY <1>5, <2>1, <2>3
  <2> QED BY <2>2, <2>3
<1>9. w \in Typed(n)
  <2>1. w.drivers \in [Driver -> DriverRecord]
    BY <1>5, <1>7
  <2>2. w.orders \in [1..n -> OrderRecord]
    BY <1>5, <1>8
  <2> QED BY <1>1, <1>5, <1>6, <2>1, <2>2 DEF Typed
<1>10. ASSUME NEW d \in Driver
       PROVE  IF w.drivers[d].status = "idle"
              THEN w.drivers[d].order = NoOrder /\ w.drivers[d].route = NoRoute /\ w.drivers[d].index = 1
              ELSE /\ w.drivers[d].order \in 1..n
                   /\ w.orders[w.drivers[d].order].driver = d
                   /\ w.orders[w.drivers[d].order].status = OrderStatusOf[w.drivers[d].status]
  <2>1. CASE OnTheMove(d)
    BY <2>1, <1>4, <1>7 DEF Leg
  <2>2. CASE ~OnTheMove(d) /\ drivers[d].status = "idle"
    BY <2>2, <1>7 DEF Inv, Pairing, Paired
  <2>3. CASE ~OnTheMove(d) /\ drivers[d].status # "idle"
    <3> DEFINE o == drivers[d].order
    <3>1. o \in 1..n /\ orders[o].driver = d /\ w.drivers[d] = drivers[d]
      BY <2>3, <1>2, <1>7
    <3>2. w.orders[o] = orders[o]
      BY <2>3, <3>1, <1>8
    <3> QED BY <2>3, <3>1, <3>2, <1>2
  <2> QED BY <2>1, <2>2, <2>3
<1>11. ASSUME NEW o \in 1..n, w.orders[o].status \in {"assigned", "en_route"}
       PROVE  /\ w.orders[o].driver \in Driver
              /\ w.drivers[w.orders[o].driver].status # "idle"
              /\ w.drivers[w.orders[o].driver].order = o
  <2> DEFINE d == orders[o].driver
  <2>1. CASE d \in Driver /\ OnTheMove(d) /\ drivers[d].order = o
    <3>1. w.orders[o].driver = d /\ w.orders[o].status = Moved(d).status /\ w.drivers[d] = Moved(d).driver
      BY <2>1, <1>7
    <3>2. Moved(d).driver.status # "idle" /\ Moved(d).driver.order = o
      BY <2>1, <3>1, <1>4, <1>11 DEF Leg
    <3> QED BY <2>1, <3>1, <3>2
  <2>2. CASE ~(d \in Driver /\ OnTheMove(d) /\ drivers[d].order = o)
    <3>1. w.orders[o] = orders[o]
      BY <2>2, <1>8
    <3>2. d \in Driver /\ drivers[d].status # "idle" /\ drivers[d].order = o
      BY <3>1, <1>3, <1>11
    <3>3. w.drivers[d] = drivers[d]
      BY <2>2, <3>2, <1>7
    <3> QED BY <3>1, <3>2, <3>3
  <2> QED BY <2>1, <2>2
<1>12. DOMAIN w.orders = 1..n
  BY <1>5
<1>13. Paired(w.drivers, w.orders)
  BY <1>10, <1>11, <1>12 DEF Paired
<1> QED
  BY <1>9, <1>13 DEF Good, w, n

-----------------------------------------------------------------------------
\* A driver with a closed road ahead is busy, so it has an order; its new
\* route, if any, is a sequence of nodes.
LEMMA AffectedBusy ==
  ASSUME Inv, NEW closed, NEW d \in Driver, Affected(d, closed)
  PROVE  /\ drivers[d].status # "idle"
         /\ Reroute(d, closed) \in Seq(Node)
<1>1. World \in Good(Len(orders)) /\ World.drivers = drivers /\ World.orders = orders
  BY WorldGood DEF World
<1> DEFINE n == Len(orders)
<1> HIDE DEF n
<1>2. World \in Good(n)
  BY <1>1 DEF n
<1>3. drivers[d] \in DriverRecord /\ drivers[d].pos \in Node
      /\ drivers[d].route \in Seq(Node) /\ drivers[d].index \in Nat \ {0}
  BY <1>1, <1>2, GoodWorld DEF DriverRecord
<1>4. drivers[d].route # NoRoute
  <2>1. Len(drivers[d].route) # 0
    BY <1>3, LenProperties DEF Affected
  <2> QED BY <2>1 DEF NoRoute
<1>5. drivers[d].status # "idle"
  BY <1>4 DEF Inv, Pairing, Paired
<1>6. orders \in [1..n -> OrderRecord] /\ drivers[d].order \in 1..n
  BY <1>1, <1>2, <1>5, GoodWorld
<1>7. Target(d) \in Node
  BY <1>6 DEF Target, OrderRecord
<1> QED
  BY <1>3, <1>5, <1>7, RouteType DEF Reroute

\* The record of a driver that loses its delivery, and of one with a new route.
LEMMA StrandedRecord ==
  ASSUME NEW c \in DriverRecord
  PROVE  LET off == [IdleAt(c.pos) EXCEPT !.progress = c.progress]
         IN  /\ off \in DriverRecord
             /\ off.status = "idle" /\ off.order = NoOrder
             /\ off.route = NoRoute /\ off.index = 1
<1>1. NoRoute \in Seq(Node) /\ NoOrder \in 0..MaxOrders
  BY SimulationAssumption DEF NoRoute, NoOrder
<1>2. c.pos \in Node /\ c.progress \in Nat
  BY DEF DriverRecord
<1> QED
  BY <1>1, <1>2 DEF IdleAt, DriverRecord, DriverStatus

LEMMA ReroutedRecord ==
  ASSUME NEW c \in DriverRecord, NEW r \in Seq(Node)
  PROVE  LET on == [c EXCEPT !.route = r, !.index = 1]
         IN  on \in DriverRecord /\ on.status = c.status /\ on.order = c.order
<1> DEFINE OrderNumber == 0..MaxOrders
           Index       == Nat \ {0}
           Record      == [status : DriverStatus, pos : Node, route : Seq(Node), index : Index,
                           progress : Nat, order : OrderNumber]
<1>1. c \in Record
  BY DEF DriverRecord
<1>2. \A x \in Record : x \in DriverRecord
  BY DEF DriverRecord
<1>3. 1 \in Index
  OBVIOUS
<1> HIDE DEF OrderNumber, Index
<1>4. [c EXCEPT !.route = r, !.index = 1] \in Record
  BY <1>1, <1>3
<1>5. /\ [c EXCEPT !.route = r, !.index = 1].status = c.status
      /\ [c EXCEPT !.route = r, !.index = 1].order = c.order
  BY <1>1
<1> HIDE DEF Record
<1> QED
  BY <1>2, <1>4, <1>5

\* recalculateAffectedRoutes keeps the world good: a stranded driver and its
\* order part together.
LEMMA AfterClosingGood ==
  ASSUME Inv, NEW closed
  PROVE  AfterClosing(closed) \in Good(Len(orders))
<1> DEFINE n == Len(orders)
           w == AfterClosing(closed)
           off(d) == [IdleAt(drivers[d].pos) EXCEPT !.progress = drivers[d].progress]
           on(d)  == [drivers[d] EXCEPT !.route = Reroute(d, closed), !.index = 1]
<1>1. World \in Good(n) /\ World.drivers = drivers /\ World.orders = orders /\ World.queue = queue
      /\ n \in 0..MaxOrders
  BY WorldGood DEF World
<1>2. /\ w.drivers = [d \in Driver |-> IF ~Affected(d, closed) THEN drivers[d]
                                       ELSE IF Stranded(d, closed) THEN off(d) ELSE on(d)]
      /\ w.orders = [o \in DOMAIN orders |->
                       IF \E d \in Driver : drivers[d].order = o /\ Stranded(d, closed)
                       THEN [orders[o] EXCEPT !.status = "unassignable"]
                       ELSE orders[o]]
      /\ w.queue = queue
      /\ w = [drivers |-> w.drivers, orders |-> w.orders, queue |-> w.queue]
  BY DEF AfterClosing
<1> HIDE DEF w, n
<1>3. /\ drivers \in [Driver -> DriverRecord]
      /\ orders \in [1..n -> OrderRecord]
      /\ queue \in Seq(1..n)
      /\ DOMAIN orders = 1..n
  BY <1>1, GoodWorld
<1>4. ASSUME NEW d \in Driver, drivers[d].status # "idle"
      PROVE  /\ drivers[d].order \in 1..n
             /\ orders[drivers[d].order].driver = d
             /\ orders[drivers[d].order].status = OrderStatusOf[drivers[d].status]
  BY <1>1, <1>4, GoodWorld
<1>5. ASSUME NEW d \in Driver
      PROVE  /\ w.drivers[d] \in DriverRecord
             /\ Stranded(d, closed) =>
                  /\ drivers[d].status # "idle"
                  /\ w.drivers[d].status = "idle" /\ w.drivers[d].order = NoOrder
                  /\ w.drivers[d].route = NoRoute /\ w.drivers[d].index = 1
             /\ ~Stranded(d, closed) =>
                  /\ w.drivers[d].status = drivers[d].status
                  /\ w.drivers[d].order = drivers[d].order
                  /\ drivers[d].status = "idle" => w.drivers[d] = drivers[d]
  <2>1. drivers[d] \in DriverRecord
    BY <1>3
  <2>2. CASE ~Affected(d, closed)
    BY <1>2, <2>1, <2>2 DEF Stranded
  <2>3. CASE Stranded(d, closed)
    <3>1. w.drivers[d] = off(d) /\ drivers[d].status # "idle"
      BY <1>2, <2>3, AffectedBusy DEF Stranded
    <3>2. /\ off(d) \in DriverRecord
          /\ off(d).status = "idle" /\ off(d).order = NoOrder
          /\ off(d).route = NoRoute /\ off(d).index = 1
      BY <2>1, StrandedRecord
    <3> QED BY <2>3, <3>1, <3>2
  <2>4. CASE Affected(d, closed) /\ ~Stranded(d, closed)
    <3>1. w.drivers[d] = on(d)
      BY <1>2, <2>4
    <3>2. Reroute(d, closed) \in Seq(Node) /\ drivers[d].status # "idle"
      BY <2>4, AffectedBusy
    <3>3. /\ on(d) \in DriverRecord
          /\ on(d).status = drivers[d].status /\ on(d).order = drivers[d].order
      BY <2>1, <3>2, ReroutedRecord
    <3> QED BY <2>4, <3>1, <3>2, <3>3
  <2> QED BY <2>2, <2>3, <2>4 DEF Stranded
<1>6. ASSUME NEW o \in 1..n
      PROVE  /\ w.orders[o] \in OrderRecord
             /\ w.orders[o].driver = orders[o].driver
             /\ (\E d \in Driver : drivers[d].order = o /\ Stranded(d, closed))
                  => w.orders[o].status = "unassignable"
             /\ ~(\E d \in Driver : drivers[d].order = o /\ Stranded(d, closed))
                  => w.orders[o] = orders[o]
  <2>1. orders[o] \in OrderRecord
    BY <1>3
  <2>2. CASE \E d \in Driver : drivers[d].order = o /\ Stranded(d, closed)
    <3>1. w.orders[o] = [orders[o] EXCEPT !.status = "unassignable"]
      BY <1>2, <1>3, <2>2
    <3>2. /\ [orders[o] EXCEPT !.status = "unassignable"] \in OrderRecord
          /\ [orders[o] EXCEPT !.status = "unassignable"].driver = orders[o].driver
          /\ [orders[o] EXCEPT !.status = "unassignable"].status = "unassignable"
      BY <2>1 DEF OrderRecord, OrderStatus
    <3> QED BY <2>2, <3>1, <3>2
  <2>3. CASE ~(\E d \in Driver : drivers[d].order = o /\ Stranded(d, closed))
    BY <1>2, <1>3, <2>1, <2>3
  <2> QED BY <2>2, <2>3
<1>7. DOMAIN w.orders = 1..n
  BY <1>2, <1>3
<1>8. w \in Typed(n)
  BY <1>2, <1>3, <1>5, <1>6, <1>7 DEF Typed
<1>9. ASSUME NEW d \in Driver
      PROVE  IF w.drivers[d].status = "idle"
             THEN w.drivers[d].order = NoOrder /\ w.drivers[d].route = NoRoute /\ w.drivers[d].index = 1
             ELSE /\ w.drivers[d].order \in 1..n
                  /\ w.orders[w.drivers[d].order].driver = d
                  /\ w.orders[w.drivers[d].order].status = OrderStatusOf[w.drivers[d].status]
  <2>1. CASE Stranded(d, closed)
    BY <2>1, <1>5
  <2>2. CASE ~Stranded(d, closed) /\ drivers[d].status = "idle"
    BY <2>2, <1>5 DEF Inv, Pairing, Paired
  <2>3. CASE ~Stranded(d, closed) /\ drivers[d].status # "idle"
    <3> DEFINE o == drivers[d].order
    <3>1. o \in 1..n /\ orders[o].driver = d /\ orders[o].status = OrderStatusOf[drivers[d].status]
      BY <2>3, <1>4
    <3>2. ~(\E e \in Driver : drivers[e].order = o /\ Stranded(e, closed))
      BY <2>3, <3>1, <1>4, <1>5
    <3>3. w.orders[o] = orders[o]
      BY <3>1, <3>2, <1>6
    <3> QED BY <2>3, <3>1, <3>3, <1>5
  <2> QED BY <2>1, <2>2, <2>3
<1>10. ASSUME NEW o \in 1..n, w.orders[o].status \in {"assigned", "en_route"}
       PROVE  /\ w.orders[o].driver \in Driver
              /\ w.drivers[w.orders[o].driver].status # "idle"
              /\ w.drivers[w.orders[o].driver].order = o
  <2> DEFINE d == orders[o].driver
  <2>1. ~(\E e \in Driver : drivers[e].order = o /\ Stranded(e, closed))
    BY <1>6, <1>10
  <2>2. w.orders[o] = orders[o]
    BY <2>1, <1>6
  <2>3. d \in Driver /\ drivers[d].status # "idle" /\ drivers[d].order = o
    <3>1. o \in DOMAIN orders /\ orders[o].status \in {"assigned", "en_route"}
      BY <2>2, <1>3, <1>10
    <3> QED BY <3>1 DEF Inv, Pairing, Paired
  <2> QED BY <2>1, <2>2, <2>3, <1>5
<1>11. Paired(w.drivers, w.orders)
  BY <1>7, <1>9, <1>10 DEF Paired
<1> QED
  BY <1>8, <1>11 DEF Good, w, n

-----------------------------------------------------------------------------
\* A fresh start, at Init and after a reset.
LEMMA FreshGood ==
  [drivers |-> InitialDrivers, orders |-> <<>>, queue |-> <<>>] \in Good(0)
<1> DEFINE w == [drivers |-> InitialDrivers, orders |-> <<>>, queue |-> <<>>]
<1>1. InitialDrivers \in [Driver -> DriverRecord]
  <2>1. \A d \in Driver : IdleAt(Home[d]) \in DriverRecord
    BY SimulationAssumption DEF IdleAt, DriverRecord, DriverStatus, NoRoute, NoOrder
  <2> QED BY <2>1 DEF InitialDrivers
<1>2. <<>> \in [1..0 -> OrderRecord] /\ <<>> \in Seq(1..0)
  OBVIOUS
<1>3. Paired(InitialDrivers, <<>>)
  BY DEF Paired, InitialDrivers, IdleAt
<1> QED
  BY <1>1, <1>2, <1>3 DEF Good, Typed

\* The invariant holds initially and every action keeps it.
LEMMA InvInit == Init => Inv
<1> SUFFICES ASSUME Init PROVE Inv
  OBVIOUS
<1> DEFINE w == [drivers |-> InitialDrivers, orders |-> <<>>, queue |-> <<>>]
<1>1. w \in Typed(0) /\ Paired(w.drivers, w.orders)
  BY FreshGood, GoodWorld
<1>2. w.drivers = drivers /\ w.orders = orders /\ orders = <<>> /\ queue = <<>>
  BY DEF Init
<1>3. TypeOK
  <2>1. drivers \in [Driver -> DriverRecord]
    BY <1>1, <1>2 DEF Typed
  <2>2. /\ orders \in Seq(OrderRecord) /\ Len(orders) <= MaxOrders
        /\ queue \in Seq(DOMAIN orders)
    BY <1>2, SimulationAssumption
  <2> QED BY <2>1, <2>2 DEF Init, TypeOK
<1>4. Pairing
  BY <1>1, <1>2 DEF Pairing
<1> QED
  BY <1>3, <1>4 DEF Inv

\* The world handlePlaceOrder hands to assignBaseline: one more order, pending.
LEMMA PlacedGood ==
  ASSUME Inv, NEW t \in Trip, Len(orders) < MaxOrders
  PROVE  LET order == [pickup |-> t[1], dest |-> t[2], status |-> "pending", driver |-> NoDriver]
             n     == Len(orders) + 1
             w     == [World EXCEPT !.orders = Append(@, order)]
         IN  w \in Good(n) /\ n \in 0..MaxOrders /\ n \in 1..n /\ w.orders[n].status = "pending"
<1> DEFINE order == [pickup |-> t[1], dest |-> t[2], status |-> "pending", driver |-> NoDriver]
           n     == Len(orders) + 1
           w     == [drivers |-> drivers, orders |-> Append(orders, order), queue |-> queue]
<1>1. World \in Good(Len(orders)) /\ World.drivers = drivers /\ World.orders = orders
      /\ World.queue = queue /\ Len(orders) \in 0..MaxOrders
  BY WorldGood DEF World
<1>2. n \in 0..MaxOrders /\ n \in 1..n
  BY <1>1, SimulationAssumption
<1>3. order \in OrderRecord
  BY SimulationAssumption DEF OrderRecord, OrderStatus
<1>4. /\ Append(orders, order) \in [1..n -> OrderRecord]
      /\ DOMAIN Append(orders, order) = 1..n
      /\ Append(orders, order)[n] = order
      /\ \A o \in 1..Len(orders) : Append(orders, order)[o] = orders[o]
      /\ DOMAIN orders = 1..Len(orders)
  <2>1. orders \in Seq(OrderRecord)
    BY DEF Inv, TypeOK
  <2> HIDE DEF order
  <2>2. /\ Append(orders, order) \in Seq(OrderRecord)
        /\ Len(Append(orders, order)) = n
        /\ Append(orders, order)[n] = order
        /\ \A o \in 1..Len(orders) : Append(orders, order)[o] = orders[o]
    BY <1>3, <2>1, AppendProperties
  <2>3. \A os \in Seq(OrderRecord) : os \in [1..Len(os) -> OrderRecord] /\ DOMAIN os = 1..Len(os)
    OBVIOUS
  <2> DEFINE new == Append(orders, order)
  <2> HIDE DEF new, n
  <2>4. new \in [1..n -> OrderRecord] /\ DOMAIN new = 1..n
    BY <2>2, <2>3 DEF new
  <2> QED BY <2>1, <2>2, <2>3, <2>4 DEF new
<1>5. queue \in Seq(1..n)
  BY <1>1, <1>4 DEF Inv, TypeOK
<1>6. w \in Typed(n)
  BY <1>4, <1>5 DEF Typed, Inv, TypeOK
<1>7. Paired(w.drivers, w.orders)
  <2>1. Paired(drivers, orders)
    BY DEF Inv, Pairing
  <2>2. order.status = "pending"
    OBVIOUS
  <2> HIDE DEF order
  <2>3. \A o \in 1..n : o = n \/ o \in 1..Len(orders)
    BY <1>1
  <2>4. \A o \in 1..Len(orders) : o \in 1..n
    BY <1>1
  <2> DEFINE os == Append(orders, order)
  <2>5. /\ DOMAIN os = 1..n /\ os[n] = order
        /\ \A o \in DOMAIN orders : os[o] = orders[o] /\ o \in DOMAIN os
        /\ \A o \in DOMAIN os : o = n \/ o \in DOMAIN orders
    BY <1>4, <2>3, <2>4
  <2> HIDE DEF os, n
  <2>6. ASSUME NEW d \in Driver
        PROVE  IF drivers[d].status = "idle"
               THEN drivers[d].order = NoOrder /\ drivers[d].route = NoRoute /\ drivers[d].index = 1
               ELSE /\ drivers[d].order \in DOMAIN os
                    /\ os[drivers[d].order].driver = d
                    /\ os[drivers[d].order].status = OrderStatusOf[drivers[d].status]
    BY <2>1, <2>5 DEF Paired
  <2>7. ASSUME NEW o \in DOMAIN os, os[o].status \in {"assigned", "en_route"}
        PROVE  /\ os[o].driver \in Driver
               /\ drivers[os[o].driver].status # "idle"
               /\ drivers[os[o].driver].order = o
    <3>1. o \in DOMAIN orders /\ os[o] = orders[o]
      BY <2>2, <2>5, <2>7
    <3> QED BY <2>1, <2>7, <3>1 DEF Paired
  <2>8. Paired(drivers, os)
    BY <2>6, <2>7 DEF Paired
  <2> QED BY <2>8 DEF os
<1>8. w \in Good(n) /\ w.orders[n].status = "pending"
  <2>1. w \in Good(n)
    BY <1>6, <1>7 DEF Good
  <2>2. w.orders[n] = order
    BY <1>4
  <2> QED BY <2>1, <2>2
<1>9. [World EXCEPT !.orders = Append(@, order)] = w
  <2> HIDE DEF order
  <2> QED BY DEF World
<1> HIDE DEF w, n
<1>10. w \in Good(n) /\ n \in 0..MaxOrders /\ n \in 1..n /\ w.orders[n].status = "pending"
  BY <1>2, <1>8
<1> QED
  BY <1>9, <1>10 DEF n

\* handlePlaceOrder: the new order is pending, so the assignment lemma applies.
LEMMA PlaceOrderInv ==
  ASSUME Inv, NEW t \in Trip, PlaceOrder(t)
  PROVE  Inv'
<1> DEFINE order == [pickup |-> t[1], dest |-> t[2], status |-> "pending", driver |-> NoDriver]
           n     == Len(orders) + 1
           w     == [World EXCEPT !.orders = Append(@, order)]
<1>1. w \in Good(n) /\ n \in 0..MaxOrders /\ n \in 1..n /\ w.orders[n].status = "pending"
  BY PlacedGood DEF PlaceOrder
<1>2. Commit(AssignBaseline(w, n))
  BY DEF PlaceOrder
<1> HIDE DEF w, n
<1>3. AssignBaseline(w, n) \in Good(n)
  BY <1>1, AssignGood
<1>4. shut' \subseteq Road /\ paused' \in BOOLEAN
  BY DEF PlaceOrder, Inv, TypeOK
<1> QED
  BY <1>1, <1>2, <1>3, <1>4, CommitGood

\* tick: movement, then the retry.
LEMMA TickInv ==
  ASSUME Inv, Tick
  PROVE  Inv'
<1>1. AfterMoves \in Good(Len(orders)) /\ Len(orders) \in 0..MaxOrders
  BY AfterMovesGood, WorldGood
<1>2. RetryPending(AfterMoves) \in Good(Len(orders))
  BY <1>1, RetryGood
<1>3. Commit(RetryPending(AfterMoves)) /\ shut' = shut /\ paused' = paused
  BY DEF Tick
<1>4. shut' \subseteq Road /\ paused' \in BOOLEAN
  BY <1>3 DEF Inv, TypeOK
<1> QED
  BY <1>1, <1>2, <1>3, <1>4, CommitGood

\* handleCloseRoad: the affected drivers are rerouted or stranded.
LEMMA CloseRoadInv ==
  ASSUME Inv, NEW r \in Road, CloseRoad(r)
  PROVE  Inv'
<1>1. /\ AfterClosing(shut \union {r}) \in Good(Len(orders))
      /\ Len(orders) \in 0..MaxOrders
      /\ Commit(AfterClosing(shut \union {r}))
  BY AfterClosingGood, WorldGood DEF CloseRoad
<1>2. shut' \subseteq Road /\ paused' \in BOOLEAN
  BY DEF CloseRoad, Inv, TypeOK
<1> QED
  BY <1>1, <1>2, CommitGood

\* The actions that leave drivers, orders and queue alone.
LEMMA QuietInv ==
  ASSUME Inv, UNCHANGED <<drivers, orders, queue>>, shut' \subseteq Road, paused' \in BOOLEAN
  PROVE  Inv'
<1>1. TypeOK'
  BY DEF Inv, TypeOK
<1>2. Pairing'
  BY DEF Inv, Pairing
<1> QED
  BY <1>1, <1>2 DEF Inv

\* reset: as at the start.
LEMMA ResetInv ==
  ASSUME Inv, Reset
  PROVE  Inv'
<1>1. Commit([drivers |-> InitialDrivers, orders |-> <<>>, queue |-> <<>>])
  BY DEF Reset, Commit
<1>2. shut' \subseteq Road /\ paused' \in BOOLEAN
  BY DEF Reset, Inv, TypeOK
<1>3. 0 \in 0..MaxOrders
  BY SimulationAssumption
<1> QED
  BY <1>1, <1>2, <1>3, FreshGood, CommitGood

LEMMA InvNext == Inv /\ [Next]_vars => Inv'
<1> SUFFICES ASSUME Inv, [Next]_vars PROVE Inv'
  OBVIOUS
<1>1. ASSUME NEW t \in Trip, PlaceOrder(t) PROVE Inv'
  BY <1>1, PlaceOrderInv
<1>2. CASE Tick
  BY <1>2, TickInv
<1>3. ASSUME NEW r \in Road, CloseRoad(r) PROVE Inv'
  BY <1>3, CloseRoadInv
<1>4. ASSUME NEW r \in Road, ReopenRoad(r) PROVE Inv'
  BY <1>4, QuietInv DEF ReopenRoad, Inv, TypeOK
<1>5. ASSUME NEW p \in BOOLEAN, SetPaused(p) PROVE Inv'
  BY <1>5, QuietInv DEF SetPaused, Inv, TypeOK
<1>6. CASE Reset
  BY <1>6, ResetInv
<1>7. CASE UNCHANGED vars
  BY <1>7, QuietInv DEF vars, Inv, TypeOK
<1> QED
  BY <1>1, <1>2, <1>3, <1>4, <1>5, <1>6, <1>7 DEF Next

\* The invariant, for every city, any number of drivers and any order limit.
THEOREM InvAlways == Spec => []Inv
<1> QED
  BY InvInit, InvNext, PTL DEF Spec

\* The actor's state keeps its types in every reachable state.
THEOREM TypeCorrect == Spec => []TypeOK
<1>1. Inv => TypeOK
  BY DEF Inv
<1> QED
  BY <1>1, InvAlways, PTL

\* Drivers and the orders in progress stay paired one to one: no handler,
\* interrupted delivery, closure or reset separates one from the other.
THEOREM PairingAlways == Spec => []Pairing
<1>1. Inv => Pairing
  BY DEF Inv
<1> QED
  BY <1>1, InvAlways, PTL

-----------------------------------------------------------------------------
\* No hop that driver record c has left is closed.
Clear(c, closed) ==
  \A i \in c.index..Len(c.route)-1 : HopRoad(c.route, i) \in Road \ closed

\* The course of driver record c for its order o.  The two ways to the pickup:
\* the assignment's route goes on to the destination, a reroute's ends there.
Course(c, o) ==
  /\ c.index \in DOMAIN c.route
  /\ c.pos = c.route[c.index]
  /\ c.status = "en_route_to_pickup" =>
       /\ c.pos # o.pickup
       /\ \E i \in c.index+1..Len(c.route) : c.route[i] = o.pickup
       /\ \/ c.route[Len(c.route)] = o.dest
          \/ \A i \in c.index..Len(c.route)-1 : c.route[i] # o.pickup
  /\ c.status = "delivering" => c.route[Len(c.route)] = o.dest

\* Every driver has open roads ahead and, when busy, is on its course.
Headed(w, closed) ==
  \A d \in Driver :
    /\ Clear(w.drivers[d], closed)
    /\ w.drivers[d].status # "idle" => Course(w.drivers[d], w.orders[w.drivers[d].order])

Bound(n, closed) == {w \in Good(n) : Headed(w, closed)}

\* What an open path is, step by step: its hops, its ends, and that it reaches
\* its end only once.
LEMMA PathHops ==
  ASSUME NEW closed, NEW a \in Node, NEW b \in Node, NEW p \in OpenPaths(closed, a, b)
  PROVE  /\ p \in Seq(Node)
         /\ Len(p) \in Nat \ {0}
         /\ \A i \in 1..Len(p)-1 : HopRoad(p, i) \in Road \ closed
<1>1. p \in SimplePath /\ \A i \in 1..Len(p)-1 : HopRoad(p, i) \notin closed
  BY DEF OpenPaths
<1> QED
  BY <1>1, SimplePathType

LEMMA PathEnds ==
  ASSUME NEW closed, NEW a \in Node, NEW b \in Node, NEW p \in OpenPaths(closed, a, b)
  PROVE  p[1] = a /\ p[Len(p)] = b
BY DEF OpenPaths

LEMMA PathSimple ==
  ASSUME NEW closed, NEW a \in Node, NEW b \in Node, NEW p \in OpenPaths(closed, a, b)
  PROVE  \A i \in 1..Len(p)-1 : p[i] # b
<1>1. \A j, k \in DOMAIN p : p[j] = p[k] => j = k
  BY DEF OpenPaths, SimplePath
<1>2. p \in Seq(Node) /\ Len(p) \in Nat \ {0} /\ p[Len(p)] = b
  <2>1. p \in Seq(Node) /\ Len(p) \in Nat \ {0}
    BY PathHops
  <2>2. p[Len(p)] = b
    BY PathEnds
  <2> QED BY <2>1, <2>2
<1>3. ASSUME NEW i \in 1..Len(p)-1, p[i] = b PROVE FALSE
  <2>1. i \in DOMAIN p /\ Len(p) \in DOMAIN p /\ i # Len(p)
    BY <1>2
  <2> QED BY <1>1, <1>2, <1>3, <2>1
<1> QED
  BY <1>3

\* A reachable node has an open path, which is what FindRoute returns.
LEMMA RouteOpen ==
  ASSUME NEW closed, NEW a \in Node, NEW b \in Node, FindRoute(closed, a, b) # NoRoute
  PROVE  FindRoute(closed, a, b) \in OpenPaths(closed, a, b)
BY FindRouteCorrect

\* Route r leads from a through b to c over roads that are not closed.
LeadsThrough(r, closed, a, b, c) ==
  /\ Len(r) \in Nat \ {0}
  /\ DOMAIN r = 1..Len(r)
  /\ \E i \in 1..Len(r) : r[i] = b /\ (a # b => i > 1)
  /\ r[1] = a
  /\ r[Len(r)] = c
  /\ \A i \in 1..Len(r)-1 : HopRoad(r, i) \in Road \ closed

\* The route of an assignment: to the pickup, then to the destination.
LEMMA JoinedRoute ==
  ASSUME NEW closed, NEW a \in Node, NEW b \in Node, NEW c \in Node,
         NEW p \in OpenPaths(closed, a, b), NEW q \in OpenPaths(closed, b, c),
         NEW r, r = p \o Tail(q)
  PROVE  LeadsThrough(r, closed, a, b, c)
<1> DEFINE m == Len(p)
           k == Len(q)
<1>1. /\ p \in Seq(Node) /\ m \in Nat \ {0} /\ p[1] = a /\ p[m] = b
      /\ \A i \in 1..m-1 : HopRoad(p, i) \in Road \ closed
  <2> HIDE DEF m, k
  <2>1. /\ p \in Seq(Node)
        /\ Len(p) \in Nat \ {0}
        /\ \A i \in 1..Len(p)-1 : HopRoad(p, i) \in Road \ closed
    BY PathHops
  <2>2. p[1] = a /\ p[Len(p)] = b
    BY PathEnds
  <2> QED BY <2>1, <2>2 DEF m
<1>2. /\ q \in Seq(Node) /\ k \in Nat \ {0} /\ q[1] = b /\ q[k] = c
      /\ \A i \in 1..k-1 : HopRoad(q, i) \in Road \ closed
  <2> HIDE DEF m, k
  <2>1. /\ q \in Seq(Node)
        /\ Len(q) \in Nat \ {0}
        /\ \A i \in 1..Len(q)-1 : HopRoad(q, i) \in Road \ closed
    BY PathHops
  <2>2. q[1] = b /\ q[Len(q)] = c
    BY PathEnds
  <2> QED BY <2>1, <2>2 DEF k
<1>3. /\ Tail(q) \in Seq(Node) /\ Len(Tail(q)) = k - 1
      /\ \A i \in 1..k-1 : Tail(q)[i] = q[i+1]
  BY <1>2
<1>4. /\ r \in Seq(Node) /\ Len(r) = m + k - 1
      /\ \A i \in 1..m : r[i] = p[i]
      /\ \A i \in 1..k-1 : r[m+i] = q[i+1]
  <2>1. r \in Seq(Node) /\ Len(r) = m + (k - 1)
    BY <1>1, <1>3, ConcatProperties
  <2>2. \A i \in 1..m : r[i] = p[i]
    BY <1>1, <1>3, ConcatProperties
  <2>3. ASSUME NEW i \in 1..k-1 PROVE r[m+i] = q[i+1]
    <3>1. m + i \in 1..(m + (k-1)) /\ m + i > m /\ (m + i) - m = i
      BY <1>1, <1>2
    <3>2. r[m+i] = Tail(q)[(m+i) - m]
      BY <1>1, <1>3, <3>1, ConcatProperties
    <3> QED BY <1>3, <3>1, <3>2
  <2> QED BY <1>1, <1>2, <2>1, <2>2, <2>3
<1>5. \A i \in 1..k : r[m+i-1] = q[i]
  <2>1. ASSUME NEW i \in 1..k PROVE r[m+i-1] = q[i]
    <3>1. CASE i = 1
      <4>1. m \in 1..m /\ m + i - 1 = m
        BY <1>1, <3>1
      <4> QED BY <1>1, <1>2, <1>4, <3>1, <4>1
    <3>2. CASE i # 1
      <4>1. i-1 \in 1..k-1 /\ m + i - 1 = m + (i-1) /\ (i-1)+1 = i
        BY <1>1, <1>2, <3>2
      <4> QED BY <1>4, <4>1
    <3> QED BY <3>1, <3>2
  <2> QED BY <2>1
<1> HIDE DEF m, k
<1>6. ASSUME NEW i \in 1..Len(r)-1 PROVE HopRoad(r, i) \in Road \ closed
  <2>1. CASE i < m
    <3>1. i \in 1..m /\ i+1 \in 1..m /\ i \in 1..m-1
      BY <1>1, <1>2, <1>4, <2>1
    <3>2. r[i] = p[i] /\ r[i+1] = p[i+1]
      BY <1>4, <3>1
    <3> QED BY <1>1, <3>1, <3>2 DEF HopRoad
  <2>2. CASE ~(i < m)
    <3> DEFINE j == i - m + 1
    <3>1. j \in 1..k-1 /\ j \in 1..k /\ j+1 \in 1..k /\ m+j-1 = i /\ m+(j+1)-1 = i+1
      BY <1>1, <1>2, <1>4, <2>2
    <3> HIDE DEF j
    <3>2. r[i] = q[j] /\ r[i+1] = q[j+1]
      BY <1>5, <3>1
    <3> QED BY <1>2, <3>1, <3>2 DEF HopRoad
  <2> QED BY <2>1, <2>2
<1>7. r[1] = a /\ r[m] = b /\ r[Len(r)] = c
  <2>1. 1 \in 1..m /\ m \in 1..m /\ k \in 1..k /\ m+k-1 = Len(r)
    BY <1>1, <1>2, <1>4
  <2> QED BY <1>1, <1>2, <1>4, <1>5, <2>1
<1>8. a # b => m > 1
  BY <1>1
<1>9. Len(r) \in Nat \ {0} /\ m \in 1..Len(r) /\ DOMAIN r = 1..Len(r)
  BY <1>1, <1>2, <1>4
<1> QED
  BY <1>6, <1>7, <1>8, <1>9 DEF LeadsThrough

-----------------------------------------------------------------------------
\* A course depends on the ends of the order's trip only.
LEMMA CourseOfTrip ==
  ASSUME NEW c, NEW o, NEW p, p.pickup = o.pickup, p.dest = o.dest, Course(c, o)
  PROVE  Course(c, p)
BY DEF Course

\* A step that keeps every trip and gives a new record only to drivers whose
\* new record is on course keeps the world headed.
LEMMA StaysBound ==
  ASSUME NEW n, NEW closed, NEW w \in Bound(n, closed), NEW v \in Good(n),
         \A o \in 1..n : /\ v.orders[o].pickup = w.orders[o].pickup
                         /\ v.orders[o].dest = w.orders[o].dest,
         \A d \in Driver :
            \/ v.drivers[d] = w.drivers[d]
            \/ /\ Clear(v.drivers[d], closed)
               /\ v.drivers[d].status # "idle" =>
                    Course(v.drivers[d], v.orders[v.drivers[d].order])
  PROVE  v \in Bound(n, closed)
<1>1. ASSUME NEW d \in Driver
      PROVE  /\ Clear(v.drivers[d], closed)
             /\ v.drivers[d].status # "idle" =>
                  Course(v.drivers[d], v.orders[v.drivers[d].order])
  <2>1. CASE v.drivers[d] = w.drivers[d]
    <3>1. Clear(w.drivers[d], closed)
      BY DEF Bound, Headed
    <3>2. ASSUME w.drivers[d].status # "idle"
          PROVE  Course(w.drivers[d], v.orders[w.drivers[d].order])
      <4> DEFINE o == w.drivers[d].order
      <4>1. Course(w.drivers[d], w.orders[o])
        BY <3>2 DEF Bound, Headed
      <4>2. o \in 1..n
        BY <3>2, BusyDriver DEF Bound
      <4> HIDE DEF o
      <4>3. Course(w.drivers[d], v.orders[o])
        BY <4>1, <4>2, CourseOfTrip
      <4> QED BY <4>3 DEF o
    <3> QED BY <2>1, <3>1, <3>2
  <2>2. CASE v.drivers[d] # w.drivers[d]
    BY <2>2
  <2> QED BY <2>1, <2>2
<1>2. Headed(v, closed)
  BY <1>1 DEF Headed
<1> QED
  BY <1>2 DEF Bound

\* An idle driver without a route has nothing ahead.
LEMMA NothingAhead ==
  ASSUME NEW c, NEW closed, c.route = NoRoute, c.index = 1
  PROVE  Clear(c, closed)
<1>1. Len(c.route) = 0
  BY DEF NoRoute
<1> QED
  BY <1>1 DEF Clear

\* Turning a pending order away leaves every driver on its course.
LEMMA RejectBound ==
  ASSUME NEW n \in 0..MaxOrders, NEW closed, NEW w \in Bound(n, closed), NEW o \in 1..n,
         w.orders[o].status = "pending"
  PROVE  Reject(w, o) \in Bound(n, closed)
<1> DEFINE v == Reject(w, o)
<1>1. w \in Good(n)
  BY DEF Bound
<1>2. v \in Good(n)
  BY <1>1, RejectGood
<1>3. w.orders \in [1..n -> OrderRecord] /\ w \in Typed(n)
  BY <1>1, GoodWorld
<1>4. /\ v.drivers = w.drivers
      /\ v.orders = [w.orders EXCEPT ![o].status = "unassignable"]
  BY <1>3 DEF Reject, Typed
<1>5. ASSUME NEW p \in 1..n
      PROVE  /\ v.orders[p].pickup = w.orders[p].pickup
             /\ v.orders[p].dest = w.orders[p].dest
  BY <1>3, <1>4 DEF OrderRecord
<1> HIDE DEF v
<1>6. v \in Bound(n, closed)
  BY <1>2, <1>4, <1>5, StaysBound
<1> QED
  BY <1>6 DEF v

\* The driver applyAssignment sends out has open roads ahead, to the pickup and on
\* to the destination.
LEMMA ApplyUnderway ==
  ASSUME NEW n \in 0..MaxOrders, NEW w \in Good(n), NEW o \in 1..n,
         NEW d \in Candidates(w, w.orders[o].pickup),
         FindRoute(shut, w.orders[o].pickup, w.orders[o].dest) # NoRoute
  PROVE  LET v == ApplyAssignment(w, o, d)
         IN  Clear(v.drivers[d], shut) /\ Course(v.drivers[d], w.orders[o])
<1> DEFINE pickup   == w.orders[o].pickup
           dest     == w.orders[o].dest
           toDest   == FindRoute(shut, pickup, dest)
           toPickup == FindRoute(shut, w.drivers[d].pos, pickup)
           v        == ApplyAssignment(w, o, d)
           r        == toPickup \o Tail(toDest)
           carrying == [status   |-> IF w.drivers[d].pos = pickup
                                     THEN "delivering" ELSE "en_route_to_pickup",
                        pos      |-> w.drivers[d].pos,
                        route    |-> toPickup \o Tail(toDest),
                        index    |-> 1,
                        progress |-> w.drivers[d].progress,
                        order    |-> o]
<1>1. d \in Driver /\ Reachable(shut, w.drivers[d].pos, pickup)
  BY DEF Candidates, IdleDrivers
<1>2. w.drivers \in [Driver -> DriverRecord] /\ w.orders \in [1..n -> OrderRecord]
  BY GoodWorld
<1>3. /\ pickup \in Node /\ dest \in Node /\ w.drivers[d].pos \in Node
  BY <1>1, <1>2 DEF OrderRecord, DriverRecord
<1>4. v.drivers = [w.drivers EXCEPT ![d] = carrying]
  BY DEF ApplyAssignment
<1>5. v.drivers[d] = carrying
  BY <1>1, <1>2, <1>4
<1>6. toDest \in OpenPaths(shut, pickup, dest)
  BY <1>3, RouteOpen
<1>7. toPickup \in OpenPaths(shut, w.drivers[d].pos, pickup)
  BY <1>1, <1>3, FindRouteCorrect
<1> HIDE DEF v, toDest, toPickup
<1>8. LeadsThrough(r, shut, w.drivers[d].pos, pickup, dest)
  <2> DEFINE here == w.drivers[d].pos
  <2> HIDE DEF pickup, dest, r, here
  <2>1. r = toPickup \o Tail(toDest)
    BY DEF r
  <2> QED BY <1>3, <1>6, <1>7, <2>1, JoinedRoute DEF here
<1>9. carrying.route = r /\ carrying.index = 1 /\ carrying.pos = w.drivers[d].pos
      /\ carrying.status = IF w.drivers[d].pos = pickup THEN "delivering" ELSE "en_route_to_pickup"
  OBVIOUS
<1>10. pickup = w.orders[o].pickup /\ dest = w.orders[o].dest
  OBVIOUS
<1> HIDE DEF r, carrying, pickup, dest
<1>11. Clear(carrying, shut)
  BY <1>8, <1>9 DEF Clear, LeadsThrough
<1>12. Course(carrying, w.orders[o])
  <2>1. carrying.index \in DOMAIN carrying.route /\ carrying.pos = carrying.route[carrying.index]
    BY <1>8, <1>9 DEF LeadsThrough
  <2>2. ASSUME carrying.status = "en_route_to_pickup"
        PROVE  /\ carrying.pos # pickup
               /\ \E i \in carrying.index+1..Len(carrying.route) : carrying.route[i] = pickup
               /\ carrying.route[Len(carrying.route)] = dest
    <3>1. w.drivers[d].pos # pickup
      BY <1>9, <2>2
    <3>2. \E i \in 1+1..Len(r) : r[i] = pickup
      BY <1>8, <3>1 DEF LeadsThrough
    <3> QED BY <1>8, <1>9, <3>1, <3>2 DEF LeadsThrough
  <2>3. carrying.route[Len(carrying.route)] = dest
    BY <1>8, <1>9 DEF LeadsThrough
  <2> QED BY <1>10, <2>1, <2>2, <2>3 DEF Course
<1> QED
  BY <1>5, <1>11, <1>12 DEF v

\* applyAssignment keeps every driver on its course.
LEMMA ApplyBound ==
  ASSUME NEW n \in 0..MaxOrders, NEW w \in Bound(n, shut), NEW o \in 1..n,
         w.orders[o].status = "pending",
         NEW d \in Candidates(w, w.orders[o].pickup)
  PROVE  ApplyAssignment(w, o, d) \in Bound(n, shut)
<1> DEFINE toDest  == FindRoute(shut, w.orders[o].pickup, w.orders[o].dest)
           v       == ApplyAssignment(w, o, d)
           carried == [w.orders[o] EXCEPT
                         !.driver = d,
                         !.status = IF w.drivers[d].pos = w.orders[o].pickup
                                    THEN "en_route" ELSE "assigned"]
<1>1. /\ w \in Good(n) /\ d \in Driver /\ w.drivers[d].status = "idle"
  BY DEF Bound, Candidates, IdleDrivers
<1>2. /\ w.drivers \in [Driver -> DriverRecord]
      /\ w.orders \in [1..n -> OrderRecord]
  BY <1>1, GoodWorld
<1>3. v \in Good(n)
  BY <1>1, ApplyGood
<1>4. CASE toDest = NoRoute
  BY <1>4, RejectBound DEF ApplyAssignment
<1>5. CASE toDest # NoRoute
  <2>1. PICK c : v.drivers = [w.drivers EXCEPT ![d] = c] /\ c.order = o
    <3> DEFINE c == [status   |-> IF w.drivers[d].pos = w.orders[o].pickup
                                  THEN "delivering" ELSE "en_route_to_pickup",
                     pos      |-> w.drivers[d].pos,
                     route    |-> FindRoute(shut, w.drivers[d].pos, w.orders[o].pickup) \o Tail(toDest),
                     index    |-> 1,
                     progress |-> w.drivers[d].progress,
                     order    |-> o]
    <3>1. v.drivers = [w.drivers EXCEPT ![d] = c] /\ c.order = o
      BY <1>5 DEF ApplyAssignment
    <3> QED BY <3>1
  <2>2. v.orders = [w.orders EXCEPT ![o] = carried]
    BY <1>5 DEF ApplyAssignment
  <2>3. /\ carried.pickup = w.orders[o].pickup /\ carried.dest = w.orders[o].dest
        /\ \A p \in 1..n : p # o => v.orders[p] = w.orders[p]
        /\ v.orders[o] = carried
    BY <1>2, <2>2 DEF OrderRecord
  <2>4. v.drivers[d] = c /\ \A e \in Driver : e # d => v.drivers[e] = w.drivers[e]
    BY <1>1, <1>2, <2>1
  <2>5. Clear(v.drivers[d], shut) /\ Course(v.drivers[d], w.orders[o])
    BY <1>1, <1>5, ApplyUnderway
  <2> HIDE DEF v, toDest, carried
  <2>6. Course(c, carried)
    BY <2>3, <2>4, <2>5, CourseOfTrip
  <2>7. \A p \in 1..n : /\ v.orders[p].pickup = w.orders[p].pickup
                        /\ v.orders[p].dest = w.orders[p].dest
    BY <2>3
  <2>8. \A e \in Driver :
           \/ v.drivers[e] = w.drivers[e]
           \/ /\ Clear(v.drivers[e], shut)
              /\ v.drivers[e].status # "idle" =>
                   Course(v.drivers[e], v.orders[v.drivers[e].order])
    BY <2>1, <2>3, <2>4, <2>5, <2>6
  <2>9. v \in Bound(n, shut)
    BY <1>3, <2>7, <2>8, StaysBound
  <2> QED BY <2>9 DEF v
<1> QED
  BY <1>4, <1>5

\* assignBaseline: only a driver it assigns gets a new route.
LEMMA AssignBound ==
  ASSUME NEW n \in 0..MaxOrders, NEW w \in Bound(n, shut), NEW o \in 1..n,
         w.orders[o].status = "pending"
  PROVE  AssignBaseline(w, o) \in Bound(n, shut)
<1> DEFINE pickup == w.orders[o].pickup
           v      == AssignBaseline(w, o)
<1>1. w \in Good(n)
  BY DEF Bound
<1>2. pickup \in Node /\ w \in Typed(n)
  BY <1>1, GoodWorld DEF OrderRecord
<1>3. CASE Candidates(w, pickup) # {}
  <2>1. Nearest(w, pickup) \in Candidates(w, pickup)
    BY <1>1, <1>2, <1>3, NearestType
  <2> QED BY <1>3, <2>1, ApplyBound DEF AssignBaseline
<1>4. CASE Candidates(w, pickup) = {} /\ IdleDrivers(w) # {}
  BY <1>4, RejectBound DEF AssignBaseline
<1>5. CASE Candidates(w, pickup) = {} /\ IdleDrivers(w) = {}
  <2>1. v = [w EXCEPT !.queue = Append(@, o)]
    BY <1>5 DEF AssignBaseline
  <2>2. v.drivers = w.drivers /\ v.orders = w.orders
    BY <1>2, <2>1 DEF Typed
  <2>3. v \in Good(n)
    BY <1>1, AssignGood
  <2> HIDE DEF v
  <2>4. v \in Bound(n, shut)
    BY <2>2, <2>3, StaysBound
  <2> QED BY <2>4 DEF v
<1> QED
  BY <1>3, <1>4, <1>5

\* retryPendingBaseline: every offer leaves every driver on its course.
LEMMA RetryBound ==
  ASSUME NEW n \in 0..MaxOrders, NEW w \in Bound(n, shut)
  PROVE  RetryPending(w) \in Bound(n, shut)
<1> DEFINE q == w.queue
           v == [w EXCEPT !.queue = <<>>]
           S == Bound(n, shut)
<1>1. w \in Good(n)
  BY DEF Bound
<1>2. w \in Typed(n) /\ q \in Seq(1..n)
  BY <1>1, GoodWorld
<1>3. v \in Good(n) /\ v.drivers = w.drivers /\ v.orders = w.orders
  BY <1>1, <1>2, EmptiedGood DEF Typed
<1> HIDE DEF v
<1>4. v \in S
  BY <1>3, StaysBound
<1>5. \A u \in S, o \in 1..n : Offered(u, o) \in S
  BY AssignBound DEF Offered
<1>6. CASE q = <<>> \/ IdleDrivers(w) = {}
  BY <1>6 DEF RetryPending
<1>7. CASE ~(q = <<>> \/ IdleDrivers(w) = {})
  <2>1. PICK acc : IsRetry(acc, n, w) /\ RetryPending(w) = acc[Len(q)]
    BY <1>1, <1>7, RetryRun
  <2>2. acc[0] = v /\ \A i \in 1..Len(q) : acc[i] = Offered(acc[i-1], q[i])
    BY <2>1 DEF IsRetry, v
  <2>3. Len(q) \in Nat /\ \A i \in 1..Len(q) : q[i] \in 1..n
    BY <1>2, LenProperties, ElementOfSeq
  <2> HIDE DEF q, S
  <2>4. \A i \in 1..Len(q) : acc[i-1] \in S => acc[i] \in S
    BY <1>5, <2>2, <2>3
  <2>5. \A i \in 0..Len(q) : acc[i] \in S
    BY <1>4, <2>2, <2>3, <2>4, LoopInvariant
  <2> QED BY <2>1, <2>3, <2>5 DEF S
<1> QED
  BY <1>6, <1>7

-----------------------------------------------------------------------------
\* The legs of order o, whose trip is that of order record t, with open roads
\* ahead and, until it is over, on course.
OnLeg(o, t) ==
  {m \in Leg(o) : /\ Clear(m.driver, shut)
                  /\ m.driver.status # "idle" => Course(m.driver, t)}

\* handleDriverAtNode, one node further on: the delivery is over, or the order
\* is collected, or the course goes on.
LEMMA ArriveOn ==
  ASSUME NEW c, NEW e, NEW t,
         c.route \in Seq(Node), c.index \in Nat \ {0}, c.index < Len(c.route),
         c.status \in {"en_route_to_pickup", "delivering"},
         Clear(c, shut), Course(c, t),
         e.route = c.route, e.index = c.index + 1, e.pos = c.route[c.index + 1],
         e.index # Len(e.route),
         e.status = IF c.status = "en_route_to_pickup" /\ e.pos = t.pickup
                    THEN "delivering" ELSE c.status
  PROVE  Clear(e, shut) /\ Course(e, t)
<1> DEFINE r == c.route
           i == c.index
<1>1. r \in Seq(Node) /\ i \in Nat \ {0} /\ i < Len(r) /\ Len(r) \in Nat /\ i + 1 < Len(r)
  BY LenProperties
<1>2. \A j \in i..Len(r)-1 : HopRoad(r, j) \in Road \ shut
  BY DEF Clear
<1>3. /\ c.status = "en_route_to_pickup" =>
           /\ c.pos # t.pickup
           /\ \E j \in i+1..Len(r) : r[j] = t.pickup
           /\ \/ r[Len(r)] = t.dest
              \/ \A j \in i..Len(r)-1 : r[j] # t.pickup
      /\ c.status = "delivering" => r[Len(r)] = t.dest
  BY DEF Course
<1>4. e.route = r /\ e.index = i + 1 /\ e.pos = r[i+1]
  OBVIOUS
<1> HIDE DEF r, i
<1>5. Clear(e, shut)
  BY <1>1, <1>2, <1>4 DEF Clear
<1>6. e.index \in DOMAIN e.route /\ e.pos = e.route[e.index]
  BY <1>1, <1>4
<1>7. ASSUME e.status = "en_route_to_pickup"
      PROVE  /\ e.pos # t.pickup
             /\ \E j \in e.index+1..Len(e.route) : e.route[j] = t.pickup
             /\ \/ e.route[Len(e.route)] = t.dest
                \/ \A j \in e.index..Len(e.route)-1 : e.route[j] # t.pickup
  <2>1. c.status = "en_route_to_pickup" /\ r[i+1] # t.pickup
    BY <1>4, <1>7
  <2>2. PICK j \in i+1..Len(r) : r[j] = t.pickup
    BY <1>3, <2>1
  <2>3. j \in (i+1)+1..Len(r)
    BY <1>1, <2>1, <2>2
  <2>4. \/ r[Len(r)] = t.dest
        \/ \A k \in i+1..Len(r)-1 : r[k] # t.pickup
    BY <1>1, <1>3, <2>1
  <2> QED BY <1>4, <2>1, <2>2, <2>3, <2>4
<1>8. ASSUME e.status = "delivering"
      PROVE  e.route[Len(e.route)] = t.dest
  <2>1. CASE c.status = "delivering"
    BY <1>3, <1>4, <2>1
  <2>2. CASE c.status = "en_route_to_pickup"
    <3>1. r[i+1] = t.pickup
      BY <1>4, <1>8, <2>2
    <3>2. i+1 \in i..Len(r)-1
      BY <1>1
    <3> QED BY <1>3, <1>4, <2>2, <3>1, <3>2
  <2> QED BY <2>1, <2>2
<1> QED
  BY <1>5, <1>6, <1>7, <1>8 DEF Course

\* A round of moveDriver's loop keeps the driver on its course.
LEMMA HopOn ==
  ASSUME NEW o \in 0..MaxOrders, NEW t, NEW m \in OnLeg(o, t)
  PROVE  Hop(m, t.pickup) \in OnLeg(o, t)
<1> DEFINE d         == m.driver
           v         == Hop(m, t.pickup)
           road      == HopRoad(d.route, d.index)
           remaining == Weight[road] - d.progress
           crossed   == [d EXCEPT !.progress = 0,
                                  !.index = @ + 1,
                                  !.pos = d.route[d.index + 1]]
           next      == [driver |-> crossed, status |-> m.status,
                         budget |-> m.budget - remaining]
<1>1. m \in Leg(o) /\ Clear(d, shut) /\ (d.status # "idle" => Course(d, t))
  BY DEF OnLeg
<1>2. v \in Leg(o)
  BY <1>1, HopLeg
<1>3. /\ d \in DriverRecord
      /\ d.route \in Seq(Node) /\ d.index \in Nat \ {0} /\ d.status \in DriverStatus
  BY <1>1 DEF Leg, DriverRecord
<1>4. CASE m.budget <= 0 \/ d.index >= Len(d.route) \/ road \notin Road \ shut
  BY <1>4 DEF Hop
<1>5. CASE ~(m.budget <= 0 \/ d.index >= Len(d.route) \/ road \notin Road \ shut)
  <2>1. /\ d.index < Len(d.route)
        /\ d.status \in {"en_route_to_pickup", "delivering"}
    <3>1. Len(d.route) \in Nat /\ (d.route = NoRoute => Len(d.route) = 0)
      BY <1>3, LenProperties DEF NoRoute
    <3>2. d.index < Len(d.route)
      BY <1>3, <1>5, <3>1
    <3> QED BY <1>1, <1>3, <3>1, <3>2 DEF Leg, DriverStatus
  <2>2. Course(d, t)
    BY <1>1, <2>1
  <2>3. CASE m.budget >= remaining
    <3>1. v = Arrive(next, t.pickup)
      BY <1>5, <2>3 DEF Hop
    <3>2. /\ next.driver = crossed
          /\ crossed.route = d.route /\ crossed.index = d.index + 1
          /\ crossed.pos = d.route[d.index + 1] /\ crossed.status = d.status
      BY <1>3 DEF DriverRecord
    <3>3. LET collected == [crossed EXCEPT !.status = "delivering"]
          IN  /\ collected.route = d.route /\ collected.index = d.index + 1
              /\ collected.pos = d.route[d.index + 1] /\ collected.status = "delivering"
      BY <1>3 DEF DriverRecord
    <3> HIDE DEF crossed, next
    <3>4. CASE crossed.index = Len(crossed.route)
      <4>1. v.driver = IdleAt(crossed.pos)
        BY <3>1, <3>2, <3>4 DEF Arrive
      <4>2. v.driver.status = "idle" /\ v.driver.route = NoRoute /\ v.driver.index = 1
        BY <4>1 DEF IdleAt
      <4>3. Clear(v.driver, shut)
        <5> HIDE DEF v
        <5> QED BY <4>2, NothingAhead
      <4> QED BY <1>2, <4>2, <4>3 DEF OnLeg
    <3>5. CASE crossed.index # Len(crossed.route)
      <4> DEFINE e == v.driver
      <4>1. e = IF d.status = "en_route_to_pickup" /\ crossed.pos = t.pickup
                THEN [crossed EXCEPT !.status = "delivering"] ELSE crossed
        BY <3>1, <3>2, <3>5 DEF Arrive
      <4>2. /\ e.route = d.route /\ e.index = d.index + 1
            /\ e.pos = d.route[d.index + 1]
            /\ e.status = IF d.status = "en_route_to_pickup" /\ e.pos = t.pickup
                          THEN "delivering" ELSE d.status
        BY <3>2, <3>3, <4>1
      <4>3. e.index # Len(e.route)
        BY <3>2, <3>5, <4>2
      <4> HIDE DEF e, d
      <4>4. Clear(e, shut) /\ Course(e, t)
        BY <1>1, <1>3, <2>1, <2>2, <4>2, <4>3, ArriveOn
      <4> QED BY <1>2, <4>4 DEF OnLeg, e
    <3> QED BY <3>4, <3>5
  <2>4. CASE ~(m.budget >= remaining)
    <3> DEFINE e == [d EXCEPT !.progress = @ + m.budget]
    <3>1. v.driver = e
      BY <1>5, <2>4 DEF Hop
    <3>2. e.route = d.route /\ e.index = d.index /\ e.pos = d.pos /\ e.status = d.status
      BY <1>3 DEF DriverRecord
    <3> HIDE DEF e, d, v
    <3>3. Clear(e, shut) /\ Course(e, t)
      BY <1>1, <2>2, <3>2 DEF Clear, Course
    <3>4. v \in OnLeg(o, t)
      BY <1>2, <3>1, <3>3 DEF OnLeg
    <3> QED BY <3>4 DEF v
  <2> QED BY <2>3, <2>4
<1> QED
  BY <1>1, <1>4, <1>5

\* The movement half of a tick leaves every driver on its course.
LEMMA AfterMovesBound ==
  ASSUME Inv, Headed(World, shut)
  PROVE  AfterMoves \in Bound(Len(orders), shut)
<1> DEFINE n == Len(orders)
           v == AfterMoves
           w == World
<1>1. /\ w \in Bound(n, shut) /\ w \in Good(n) /\ v \in Good(n)
      /\ w.drivers = drivers /\ w.orders = orders /\ n \in 0..MaxOrders
  BY WorldGood, AfterMovesGood DEF World, Bound
<1>2. /\ v.drivers = [d \in Driver |-> IF OnTheMove(d) THEN Moved(d).driver ELSE drivers[d]]
      /\ v.orders = [o \in DOMAIN orders |->
                       IF orders[o].driver # NoDriver /\ OnTheMove(orders[o].driver)
                            /\ drivers[orders[o].driver].order = o
                       THEN [orders[o] EXCEPT !.status = Moved(orders[o].driver).status]
                       ELSE orders[o]]
  BY DEF AfterMoves
<1> HIDE DEF n, v, w
<1>3. /\ drivers \in [Driver -> DriverRecord]
      /\ orders \in [1..n -> OrderRecord] /\ DOMAIN orders = 1..n
  BY <1>1, GoodWorld
<1>4. ASSUME NEW o \in 1..n
      PROVE  v.orders[o].pickup = orders[o].pickup /\ v.orders[o].dest = orders[o].dest
  <2>1. orders[o] \in OrderRecord
    BY <1>3
  <2>2. \/ v.orders[o] = orders[o]
        \/ v.orders[o] = [orders[o] EXCEPT !.status = Moved(orders[o].driver).status]
    BY <1>2, <1>3
  <2> QED BY <2>1, <2>2 DEF OrderRecord
<1>5. ASSUME NEW d \in Driver, OnTheMove(d)
      PROVE  /\ Clear(v.drivers[d], shut)
             /\ v.drivers[d].status # "idle" =>
                  Course(v.drivers[d], v.orders[v.drivers[d].order])
  <2> DEFINE o == drivers[d].order
             t == orders[o]
             m == Moved(d)
             init == [driver |-> drivers[d], status |-> t.status, budget |-> Speed]
  <2>1. /\ drivers[d] \in DriverRecord
        /\ drivers[d].route \in Seq(Node) /\ drivers[d].index \in Nat \ {0}
    BY <1>3 DEF DriverRecord
  <2>2. drivers[d].route # NoRoute
    <3>1. Len(drivers[d].route) # 0
      BY <1>5, <2>1, LenProperties DEF OnTheMove
    <3> QED BY <3>1 DEF NoRoute
  <2>3. drivers[d].status # "idle"
    BY <2>2 DEF Inv, Pairing, Paired
  <2>4. o \in 1..n /\ t.status = OrderStatusOf[drivers[d].status]
    BY <1>1, <2>3, BusyDriver
  <2>5. o \in 0..MaxOrders /\ t.status \in OrderStatus /\ Speed \in Nat
    BY <1>1, <1>3, <2>4, SimulationAssumption DEF OrderRecord
  <2>6. Clear(drivers[d], shut) /\ Course(drivers[d], t)
    BY <2>3 DEF Headed, World
  <2> HIDE DEF o, t
  <2>7. init \in Leg(o)
    BY <2>1, <2>3, <2>4, <2>5 DEF Leg, o
  <2>8. init \in OnLeg(o, t)
    BY <2>6, <2>7 DEF OnLeg
  <2>9. \A l \in OnLeg(o, t) : Hop(l, t.pickup) \in OnLeg(o, t)
    BY <2>5, HopOn
  <2>10. m \in OnLeg(o, t)
    <3> DEFINE S == OnLeg(o, t)
    <3>1. init \in S /\ \A l \in S : Hop(l, t.pickup) \in S
      BY <2>8, <2>9
    <3> HIDE DEF S
    <3>2. Moved(d) \in S
      BY <2>1, <3>1, MovedLoop DEF o, t
    <3> QED BY <3>2 DEF S
  <2>11. v.drivers[d] = m.driver
    BY <1>2, <1>5
  <2> HIDE DEF m, init
  <2>12. Clear(m.driver, shut)
    BY <2>10 DEF OnLeg
  <2>13. ASSUME m.driver.status # "idle"
         PROVE  Course(m.driver, v.orders[m.driver.order])
    <3>1. m.driver.order = o /\ Course(m.driver, t)
      BY <2>10, <2>13 DEF OnLeg, Leg
    <3>2. v.orders[o].pickup = t.pickup /\ v.orders[o].dest = t.dest
      BY <1>4, <2>4 DEF t
    <3>3. Course(m.driver, v.orders[o])
      BY <3>1, <3>2, CourseOfTrip
    <3> QED BY <3>1, <3>3
  <2> QED BY <2>11, <2>12, <2>13
<1>6. ASSUME NEW d \in Driver, ~OnTheMove(d)
      PROVE  v.drivers[d] = w.drivers[d]
  BY <1>1, <1>2, <1>6
<1>7. v \in Bound(n, shut)
  BY <1>1, <1>4, <1>5, <1>6, StaysBound
<1> QED
  BY <1>7 DEF v, n

-----------------------------------------------------------------------------
\* A driver that is rerouted is on course over roads that stay open.
LEMMA ReroutedCourse ==
  ASSUME NEW closed, NEW c, NEW e, NEW t, NEW target \in Node,
         c.pos \in Node, Course(c, t),
         c.status \in {"en_route_to_pickup", "delivering"},
         target = IF c.status = "en_route_to_pickup" THEN t.pickup ELSE t.dest,
         e.route \in OpenPaths(closed, c.pos, target),
         e.index = 1, e.pos = c.pos, e.status = c.status
  PROVE  Clear(e, closed) /\ Course(e, t)
<1> DEFINE r == e.route
           a == c.pos
<1>1. r \in OpenPaths(closed, a, target) /\ a \in Node
  OBVIOUS
<1> HIDE DEF r, a
<1>2. /\ r \in Seq(Node) /\ Len(r) \in Nat \ {0}
      /\ \A i \in 1..Len(r)-1 : HopRoad(r, i) \in Road \ closed
  BY <1>1, PathHops
<1>3. r[1] = a /\ r[Len(r)] = target
  BY <1>1, PathEnds
<1>4. \A i \in 1..Len(r)-1 : r[i] # target
  BY <1>1, PathSimple
<1>5. Clear(e, closed)
  BY <1>2 DEF Clear, r
<1>6. e.index \in DOMAIN e.route /\ e.pos = e.route[e.index]
  BY <1>2, <1>3 DEF r, a
<1>7. ASSUME e.status = "en_route_to_pickup"
      PROVE  /\ e.pos # t.pickup
             /\ \E i \in e.index+1..Len(e.route) : e.route[i] = t.pickup
             /\ \A i \in e.index..Len(e.route)-1 : e.route[i] # t.pickup
  <2>1. target = t.pickup /\ a # t.pickup
    BY <1>7 DEF Course, a
  <2>2. Len(r) \in 2..Len(r)
    BY <1>2, <1>3, <2>1
  <2> QED BY <1>3, <1>4, <2>1, <2>2 DEF r, a
<1>8. ASSUME e.status = "delivering"
      PROVE  e.route[Len(e.route)] = t.dest
  BY <1>3, <1>8 DEF r
<1> QED
  BY <1>5, <1>6, <1>7, <1>8 DEF Course

\* recalculateAffectedRoutes leaves no driver with a closed road ahead.
LEMMA AfterClosingBound ==
  ASSUME Inv, Headed(World, shut), NEW closed, shut \subseteq closed
  PROVE  AfterClosing(closed) \in Bound(Len(orders), closed)
<1> DEFINE n == Len(orders)
           v == AfterClosing(closed)
           w == World
           off(d) == [IdleAt(drivers[d].pos) EXCEPT !.progress = drivers[d].progress]
           on(d)  == [drivers[d] EXCEPT !.route = Reroute(d, closed), !.index = 1]
<1>1. /\ w \in Good(n) /\ v \in Good(n)
      /\ w.drivers = drivers /\ w.orders = orders
  BY WorldGood, AfterClosingGood DEF World
<1>2. /\ v.drivers = [d \in Driver |-> IF ~Affected(d, closed) THEN drivers[d]
                                       ELSE IF Stranded(d, closed) THEN off(d) ELSE on(d)]
      /\ v.orders = [o \in DOMAIN orders |->
                       IF \E d \in Driver : drivers[d].order = o /\ Stranded(d, closed)
                       THEN [orders[o] EXCEPT !.status = "unassignable"]
                       ELSE orders[o]]
  BY DEF AfterClosing
<1> HIDE DEF n, v, w
<1>3. /\ drivers \in [Driver -> DriverRecord]
      /\ orders \in [1..n -> OrderRecord] /\ DOMAIN orders = 1..n
  BY <1>1, GoodWorld
<1>4. ASSUME NEW o \in 1..n
      PROVE  v.orders[o].pickup = orders[o].pickup /\ v.orders[o].dest = orders[o].dest
  <2>1. orders[o] \in OrderRecord
    BY <1>3
  <2>2. v.orders[o] = orders[o] \/ v.orders[o] = [orders[o] EXCEPT !.status = "unassignable"]
    BY <1>2, <1>3
  <2> QED BY <2>1, <2>2 DEF OrderRecord
<1>5. ASSUME NEW d \in Driver
      PROVE  /\ Clear(drivers[d], shut)
             /\ drivers[d].status # "idle" =>
                  /\ drivers[d].order \in 1..n
                  /\ Course(drivers[d], orders[drivers[d].order])
                  /\ Course(drivers[d], v.orders[drivers[d].order])
  <2>1. /\ Clear(drivers[d], shut)
        /\ drivers[d].status # "idle" => Course(drivers[d], orders[drivers[d].order])
    BY DEF Headed, World
  <2>2. ASSUME drivers[d].status # "idle"
        PROVE  /\ drivers[d].order \in 1..n
               /\ Course(drivers[d], v.orders[drivers[d].order])
    <3> DEFINE o == drivers[d].order
    <3>1. o \in 1..n
      BY <1>1, <2>2, BusyDriver
    <3>2. Course(drivers[d], orders[o])
      BY <2>1, <2>2
    <3> HIDE DEF o
    <3>3. Course(drivers[d], v.orders[o])
      BY <1>4, <3>1, <3>2, CourseOfTrip
    <3> QED BY <3>1, <3>3 DEF o
  <2> QED BY <2>1, <2>2
<1>6. ASSUME NEW d \in Driver
      PROVE  /\ Clear(v.drivers[d], closed)
             /\ v.drivers[d].status # "idle" =>
                  Course(v.drivers[d], v.orders[v.drivers[d].order])
  <2> DEFINE c == drivers[d]
  <2>1. /\ c \in DriverRecord /\ c.index \in Nat \ {0} /\ c.route \in Seq(Node)
        /\ c.pos \in Node /\ c.status \in DriverStatus
    BY <1>3 DEF DriverRecord
  <2>2. CASE ~Affected(d, closed)
    <3>1. v.drivers[d] = c
      BY <1>2, <2>2
    <3>2. \A i \in c.index..Len(c.route)-1 : HopRoad(c.route, i) \notin closed
      BY <2>2 DEF Affected
    <3>3. Clear(c, closed)
      BY <1>5, <3>2 DEF Clear
    <3> QED BY <1>5, <3>1, <3>3
  <2>3. CASE Stranded(d, closed)
    <3>1. v.drivers[d] = off(d)
      BY <1>2, <2>3 DEF Stranded
    <3>2. off(d).status = "idle" /\ off(d).route = NoRoute /\ off(d).index = 1
      BY <2>1, StrandedRecord
    <3> HIDE DEF off
    <3> QED BY <3>1, <3>2, NothingAhead
  <2>4. CASE Affected(d, closed) /\ ~Stranded(d, closed)
    <3> DEFINE e == v.drivers[d]
               t == v.orders[c.order]
    <3>1. e = on(d)
      BY <1>2, <2>4
    <3>2. c.status # "idle" /\ Reroute(d, closed) # NoRoute
      BY <2>4, AffectedBusy DEF Stranded
    <3>3. /\ e.route = Reroute(d, closed) /\ e.index = 1 /\ e.pos = c.pos
          /\ e.status = c.status /\ e.order = c.order
      BY <2>1, <3>1 DEF DriverRecord
    <3>4. c.order \in 1..n /\ Course(c, t)
      BY <1>5, <3>2
    <3>5. t.pickup = orders[c.order].pickup /\ t.dest = orders[c.order].dest
      BY <1>4, <3>4
    <3>6. Target(d) = IF c.status = "en_route_to_pickup" THEN t.pickup ELSE t.dest
      BY <3>5 DEF Target
    <3>7. Target(d) \in Node
      BY <1>3, <3>4 DEF Target, OrderRecord
    <3>8. Reroute(d, closed) \in OpenPaths(closed, c.pos, Target(d))
      BY <2>1, <3>2, <3>7, RouteOpen DEF Reroute
    <3>9. c.status \in {"en_route_to_pickup", "delivering"}
      BY <2>1, <3>2 DEF DriverStatus
    <3> HIDE DEF e, t, c
    <3>10. Clear(e, closed) /\ Course(e, t)
      BY <2>1, <3>3, <3>4, <3>6, <3>7, <3>8, <3>9, ReroutedCourse
    <3> QED BY <3>3, <3>10 DEF e, t
  <2> QED BY <2>2, <2>3, <2>4 DEF Stranded
<1>7. v \in Bound(n, closed)
  BY <1>1, <1>6 DEF Bound, Headed
<1> QED
  BY <1>7 DEF v, n

-----------------------------------------------------------------------------
\* The invariant behind NoClosedRoadAhead and OnCourse.
HeadedInv == Inv /\ Headed(World, shut)

\* Committing a bound world makes it the actor's.
LEMMA CommitHeaded ==
  ASSUME NEW n, NEW w \in Bound(n, shut'), Commit(w)
  PROVE  Headed(World, shut)'
BY DEF Commit, Bound, Headed, World, Clear, Course

LEMMA FreshBound ==
  ASSUME NEW closed
  PROVE  [drivers |-> InitialDrivers, orders |-> <<>>, queue |-> <<>>] \in Bound(0, closed)
<1> DEFINE w == [drivers |-> InitialDrivers, orders |-> <<>>, queue |-> <<>>]
<1>1. ASSUME NEW d \in Driver
      PROVE  w.drivers[d].status = "idle" /\ Clear(w.drivers[d], closed)
  <2>1. w.drivers[d].status = "idle" /\ w.drivers[d].route = NoRoute /\ w.drivers[d].index = 1
    BY DEF InitialDrivers, IdleAt
  <2> QED BY <2>1, NothingAhead
<1> QED
  BY <1>1, FreshGood DEF Bound, Headed

LEMMA HeadedInit == Init => HeadedInv
<1> SUFFICES ASSUME Init PROVE Headed(World, shut)
  BY InvInit DEF HeadedInv
<1>1. ASSUME NEW d \in Driver
      PROVE  drivers[d].status = "idle" /\ Clear(drivers[d], shut)
  <2>1. drivers[d].status = "idle" /\ drivers[d].route = NoRoute /\ drivers[d].index = 1
    BY DEF Init, InitialDrivers, IdleAt
  <2> QED BY <2>1, NothingAhead
<1> QED
  BY <1>1 DEF Headed, World

\* The new order is nobody's, so every driver stays on course.
LEMMA PlacedBound ==
  ASSUME HeadedInv, NEW n, NEW w \in Good(n), w.drivers = drivers,
         \A o \in 1..Len(orders) : w.orders[o] = orders[o]
  PROVE  w \in Bound(n, shut)
<1>1. World.drivers = drivers /\ World.orders = orders /\ World \in Good(Len(orders))
  BY WorldGood DEF HeadedInv, World
<1>2. ASSUME NEW d \in Driver
      PROVE  /\ Clear(w.drivers[d], shut)
             /\ w.drivers[d].status # "idle" =>
                  Course(w.drivers[d], w.orders[w.drivers[d].order])
  <2>1. /\ Clear(drivers[d], shut)
        /\ drivers[d].status # "idle" => Course(drivers[d], orders[drivers[d].order])
    BY <1>1 DEF HeadedInv, Headed
  <2>2. drivers[d].status # "idle" => drivers[d].order \in 1..Len(orders)
    BY <1>1, BusyDriver
  <2> QED BY <2>1, <2>2
<1> QED
  BY <1>2 DEF Bound, Headed

\* handlePlaceOrder
LEMMA PlaceOrderHeaded ==
  ASSUME HeadedInv, NEW t \in Trip, PlaceOrder(t)
  PROVE  Headed(World, shut)'
<1> DEFINE order == [pickup |-> t[1], dest |-> t[2], status |-> "pending", driver |-> NoDriver]
           n     == Len(orders) + 1
           w     == [World EXCEPT !.orders = Append(@, order)]
<1>1. w.drivers = drivers /\ w.orders = Append(orders, order)
  BY DEF World
<1>2. w \in Good(n) /\ n \in 0..MaxOrders /\ n \in 1..n /\ w.orders[n].status = "pending"
  BY PlacedGood DEF HeadedInv, PlaceOrder
<1>3. \A o \in 1..Len(orders) : w.orders[o] = orders[o]
  <2>1. orders \in Seq(OrderRecord)
    BY DEF HeadedInv, Inv, TypeOK
  <2> HIDE DEF order
  <2> QED BY <1>1, <2>1
<1> HIDE DEF w, n
<1>4. w \in Bound(n, shut)
  BY <1>1, <1>2, <1>3, PlacedBound
<1>5. AssignBaseline(w, n) \in Bound(n, shut)
  BY <1>2, <1>4, AssignBound
<1>6. Commit(AssignBaseline(w, n)) /\ shut' = shut
  BY DEF PlaceOrder, w, n
<1> QED
  BY <1>5, <1>6, CommitHeaded

\* tick: movement, then the retry.
LEMMA TickHeaded ==
  ASSUME HeadedInv, Tick
  PROVE  Headed(World, shut)'
<1>1. AfterMoves \in Bound(Len(orders), shut) /\ Len(orders) \in 0..MaxOrders
  BY AfterMovesBound, WorldGood DEF HeadedInv
<1>2. RetryPending(AfterMoves) \in Bound(Len(orders), shut)
  BY <1>1, RetryBound
<1>3. Commit(RetryPending(AfterMoves)) /\ shut' = shut
  BY DEF Tick
<1> QED
  BY <1>2, <1>3, CommitHeaded

\* handleCloseRoad: no driver is left heading over the road.
LEMMA CloseRoadHeaded ==
  ASSUME HeadedInv, NEW r \in Road, CloseRoad(r)
  PROVE  Headed(World, shut)'
<1>1. /\ AfterClosing(shut \union {r}) \in Bound(Len(orders), shut \union {r})
      /\ Commit(AfterClosing(shut \union {r}))
      /\ shut' = shut \union {r}
  BY AfterClosingBound DEF HeadedInv, CloseRoad
<1> QED
  BY <1>1, CommitHeaded

\* The actions that leave the drivers and orders alone and close no road.
LEMMA QuietHeaded ==
  ASSUME HeadedInv, UNCHANGED <<drivers, orders, queue>>, shut' \subseteq shut
  PROVE  Headed(World, shut)'
<1>1. ASSUME NEW d \in Driver
      PROVE  /\ Clear(drivers'[d], shut')
             /\ drivers'[d].status # "idle" => Course(drivers'[d], orders'[drivers'[d].order])
  <2>1. /\ Clear(drivers[d], shut)
        /\ drivers[d].status # "idle" => Course(drivers[d], orders[drivers[d].order])
    BY DEF HeadedInv, Headed, World
  <2>2. Clear(drivers[d], shut')
    BY <2>1 DEF Clear
  <2> QED BY <2>1, <2>2
<1> QED
  BY <1>1 DEF Headed, World, Clear, Course

\* reset: every driver is idle at home.
LEMMA ResetHeaded ==
  ASSUME Reset
  PROVE  Headed(World, shut)'
<1>1. Commit([drivers |-> InitialDrivers, orders |-> <<>>, queue |-> <<>>])
  BY DEF Reset, Commit
<1>2. [drivers |-> InitialDrivers, orders |-> <<>>, queue |-> <<>>] \in Bound(0, shut')
  BY FreshBound
<1> QED
  BY <1>1, <1>2, CommitHeaded

LEMMA HeadedNext == HeadedInv /\ [Next]_vars => HeadedInv'
<1> SUFFICES ASSUME HeadedInv, [Next]_vars PROVE Headed(World, shut)'
  BY InvNext DEF HeadedInv
<1>1. ASSUME NEW t \in Trip, PlaceOrder(t) PROVE Headed(World, shut)'
  BY <1>1, PlaceOrderHeaded
<1>2. CASE Tick
  BY <1>2, TickHeaded
<1>3. ASSUME NEW r \in Road, CloseRoad(r) PROVE Headed(World, shut)'
  BY <1>3, CloseRoadHeaded
<1>4. ASSUME NEW r \in Road, ReopenRoad(r) PROVE Headed(World, shut)'
  BY <1>4, QuietHeaded DEF ReopenRoad
<1>5. ASSUME NEW p \in BOOLEAN, SetPaused(p) PROVE Headed(World, shut)'
  BY <1>5, QuietHeaded DEF SetPaused
<1>6. CASE Reset
  BY <1>6, ResetHeaded
<1>7. CASE UNCHANGED vars
  BY <1>7, QuietHeaded DEF vars
<1> QED
  BY <1>1, <1>2, <1>3, <1>4, <1>5, <1>6, <1>7 DEF Next

\* No driver ever has a closed road ahead, whatever closed when: the closure
\* reroutes or strands every driver it concerns, and new routes avoid it.
THEOREM ClosedRoadsAvoided == Spec => []NoClosedRoadAhead
<1>1. HeadedInv => NoClosedRoadAhead
  BY DEF HeadedInv, Headed, World, Clear, NoClosedRoadAhead
<1> QED
  BY HeadedInit, HeadedNext, <1>1, PTL DEF Spec

\* A busy driver is always on its route, and the route leads through the
\* pickup before collection and to the destination after it.
THEOREM AlwaysOnCourse == Spec => []OnCourse
<1>1. HeadedInv => OnCourse
  BY DEF HeadedInv, Headed, World, Course, OnCourse, Busy
<1> QED
  BY HeadedInit, HeadedNext, <1>1, PTL DEF Spec

-----------------------------------------------------------------------------
\* The orders of a world that nobody has taken or turned away.
Unresolved(w) == {o \in DOMAIN w.orders : w.orders[o].status = "pending"}

\* QueueExact, of a world.
ExactQueue(w) ==
  /\ \A i, j \in DOMAIN w.queue : i < j => w.queue[i] < w.queue[j]
  /\ {w.queue[i] : i \in DOMAIN w.queue} = Unresolved(w)

\* assignBaseline resolves the order, or queues it when no driver is idle.
LEMMA AssignResolvesOrQueues ==
  ASSUME NEW n \in 0..MaxOrders, NEW w \in Good(n), NEW o \in 1..n,
         w.orders[o].status = "pending"
  PROVE  LET v == AssignBaseline(w, o)
         IN  IF IdleDrivers(w) = {}
             THEN v.queue = Append(w.queue, o) /\ v.orders = w.orders /\ v.drivers = w.drivers
             ELSE v.queue = w.queue /\ Unresolved(v) = Unresolved(w) \ {o}
<1> DEFINE pickup == w.orders[o].pickup
           v      == AssignBaseline(w, o)
<1>1. w \in Typed(n) /\ w.orders \in [1..n -> OrderRecord] /\ pickup \in Node
  <2>1. w \in Typed(n) /\ w.orders \in [1..n -> OrderRecord]
    BY GoodWorld
  <2> QED BY <2>1 DEF OrderRecord
<1>2. v \in Good(n) /\ Reject(w, o) \in Good(n)
  BY AssignGood, RejectGood
<1>3. CASE IdleDrivers(w) = {}
  <2>1. Candidates(w, pickup) = {}
    BY <1>3 DEF Candidates
  <2>2. v = [w EXCEPT !.queue = Append(@, o)]
    BY <1>3, <2>1 DEF AssignBaseline
  <2> QED BY <1>1, <1>3, <2>2 DEF Typed
<1>4. ASSUME IdleDrivers(w) # {}
      PROVE  v.queue = w.queue /\ Unresolved(v) = Unresolved(w) \ {o}
  <2>1. /\ Reject(w, o).queue = w.queue
        /\ Unresolved(Reject(w, o)) = Unresolved(w) \ {o}
    <3>1. Reject(w, o).orders = [w.orders EXCEPT ![o].status = "unassignable"]
      BY <1>1 DEF Reject, Typed
    <3>2. Reject(w, o).queue = w.queue
      BY <1>1 DEF Reject, Typed
    <3>3. Reject(w, o).orders[o].status = "unassignable"
      BY <1>1, <3>1 DEF OrderRecord
    <3>4. /\ DOMAIN Reject(w, o).orders = DOMAIN w.orders
          /\ \A p \in DOMAIN w.orders : p # o => Reject(w, o).orders[p] = w.orders[p]
      BY <1>1, <3>1
    <3> QED BY <3>2, <3>3, <3>4 DEF Unresolved
  <2>2. CASE Candidates(w, pickup) = {}
    BY <1>4, <2>1, <2>2 DEF AssignBaseline
  <2>3. CASE Candidates(w, pickup) # {}
    <3> DEFINE d == Nearest(w, pickup)
               dest == w.orders[o].dest
               toDest == FindRoute(shut, pickup, dest)
    <3>1. v = ApplyAssignment(w, o, d)
      BY <2>3 DEF AssignBaseline
    <3> HIDE DEF d
    <3>2. CASE toDest = NoRoute
      BY <2>1, <3>1, <3>2 DEF ApplyAssignment
    <3>3. CASE toDest # NoRoute
      <4>1. /\ v.queue = w.queue
            /\ v.orders = [w.orders EXCEPT ![o] =
                 [@ EXCEPT !.driver = d,
                           !.status = IF w.drivers[d].pos = pickup THEN "en_route" ELSE "assigned"]]
        BY <3>1, <3>3 DEF ApplyAssignment
      <4>2. v.orders[o].status \in {"en_route", "assigned"}
        BY <1>1, <4>1 DEF OrderRecord
      <4>3. /\ DOMAIN v.orders = DOMAIN w.orders
            /\ \A p \in DOMAIN w.orders : p # o => v.orders[p] = w.orders[p]
        BY <1>1, <4>1
      <4> HIDE DEF v
      <4>4. Unresolved(v) = Unresolved(w) \ {o}
        BY <4>2, <4>3 DEF Unresolved
      <4> QED BY <4>1, <4>4 DEF v
    <3> QED BY <3>2, <3>3
  <2> QED BY <2>2, <2>3
<1> QED
  BY <1>3, <1>4

\* Where retryPendingBaseline stands after i rounds over queue q: it has served
\* the first m orders and put the others back, for want of an idle driver.
Served(v, q, i, m) ==
  /\ m \in 0..i
  /\ Len(v.queue) = i - m
  /\ \A j \in 1..i-m : v.queue[j] = q[m+j]
  /\ v.queue # <<>> => IdleDrivers(v) = {}
  /\ Unresolved(v) = {q[j] : j \in m+1..Len(q)}

\* A round serves its order or puts it back behind the others.
LEMMA RoundServes ==
  ASSUME NEW n \in 0..MaxOrders, NEW q \in Seq(1..n),
         \A j, k \in 1..Len(q) : j < k => q[j] < q[k],
         NEW i \in 1..Len(q), NEW m, NEW u \in Good(n), Served(u, q, i-1, m)
  PROVE  \E k : Served(Offered(u, q[i]), q, i, k)
<1> DEFINE o == q[i]
           v == Offered(u, o)
<1>1. /\ Len(q) \in Nat /\ i \in Nat \ {0} /\ m \in 0..i-1 /\ o \in 1..n
      /\ u.queue \in Seq(1..n) /\ Len(u.queue) = (i-1) - m
      /\ DOMAIN u.orders = 1..n
  BY LenProperties, ElementOfSeq, GoodWorld DEF Served
<1>2. u.orders[o].status = "pending"
  <2>1. i \in m+1..Len(q)
    BY <1>1
  <2>2. o \in Unresolved(u)
    BY <2>1 DEF Served
  <2> QED BY <2>2 DEF Unresolved
<1>3. v = AssignBaseline(u, o)
  BY <1>2 DEF Offered
<1> HIDE DEF v, o
<1>4. CASE IdleDrivers(u) = {}
  <2>1. v.queue = Append(u.queue, o) /\ v.orders = u.orders /\ v.drivers = u.drivers
    BY <1>1, <1>2, <1>3, <1>4, AssignResolvesOrQueues
  <2>2. /\ Len(v.queue) = i - m
        /\ \A j \in 1..(i-1)-m : v.queue[j] = u.queue[j]
        /\ v.queue[i-m] = o
    <3>1. /\ Len(v.queue) = Len(u.queue) + 1
          /\ \A j \in 1..Len(u.queue) : v.queue[j] = u.queue[j]
          /\ v.queue[Len(u.queue)+1] = o
      BY SMTT(30), <1>1, <2>1, AppendProperties
    <3>2. Len(u.queue) + 1 = i - m
      BY <1>1
    <3> QED BY <1>1, <3>1, <3>2
  <2>3. ASSUME NEW j \in 1..i-m PROVE v.queue[j] = q[m+j]
    <3>1. CASE j = i-m
      <4>1. m + j = i
        BY <1>1, <3>1
      <4> QED BY <2>2, <3>1, <4>1 DEF o
    <3>2. CASE j # i-m
      <4>1. j \in 1..(i-1)-m
        BY <1>1, <3>2
      <4> QED BY <2>2, <4>1 DEF Served
    <3> QED BY <3>1, <3>2
  <2>4. IdleDrivers(v) = {} /\ Unresolved(v) = Unresolved(u)
    BY <1>4, <2>1 DEF IdleDrivers, Unresolved
  <2>5. Served(v, q, i, m)
    BY <1>1, <2>2, <2>3, <2>4 DEF Served
  <2> QED BY <2>5 DEF v, o
<1>5. CASE IdleDrivers(u) # {}
  <2>1. v.queue = u.queue /\ Unresolved(v) = Unresolved(u) \ {o}
    BY <1>1, <1>2, <1>3, <1>5, AssignResolvesOrQueues
  <2>2. u.queue = <<>> /\ m = i - 1
    BY <1>1, <1>5 DEF Served
  <2>3. Unresolved(u) = {q[j] : j \in i..Len(q)}
    <3>1. m + 1 = i
      BY <1>1, <2>2
    <3> QED BY <3>1 DEF Served
  <2>4. Unresolved(v) = {q[j] : j \in i+1..Len(q)}
    <3>1. ASSUME NEW j \in i+1..Len(q) PROVE q[j] # o /\ j \in i..Len(q)
      <4>1. i \in 1..Len(q) /\ j \in 1..Len(q) /\ i < j
        BY <1>1
      <4>2. q[i] < q[j] /\ q[i] \in Nat /\ q[j] \in Nat
        BY <1>1, <4>1, ElementOfSeq
      <4> QED BY <1>1, <4>1, <4>2 DEF o
    <3>2. \A j \in i..Len(q) : j = i \/ j \in i+1..Len(q)
      BY <1>1
    <3> QED BY <2>1, <2>3, <3>1, <3>2 DEF o
  <2>5. Len(v.queue) = i - i /\ v.queue = <<>>
    BY <1>1, <2>1, <2>2
  <2>6. Served(v, q, i, i)
    BY <1>1, <2>4, <2>5 DEF Served
  <2> QED BY <2>6 DEF v, o
<1> QED
  BY <1>4, <1>5

\* s is what is left of q after its first m elements.
IsRest(s, q, m) ==
  /\ s = SubSeq(q, m+1, Len(q))
  /\ \A j \in 1..Len(s) : m+j \in 1..Len(q) /\ s[j] = q[m+j]
  /\ {s[j] : j \in 1..Len(s)} = {q[j] : j \in m+1..Len(q)}

\* A sequence whose elements are those of q from m+1 on is that part of q.
LEMMA Suffix ==
  ASSUME NEW S, NEW q \in Seq(S), NEW m \in 0..Len(q),
         NEW s \in Seq(S), Len(s) = Len(q) - m,
         \A j \in 1..Len(q)-m : s[j] = q[m+j]
  PROVE  IsRest(s, q, m)
<1> DEFINE L == Len(q)
           t == SubSeq(q, m+1, L)
<1>1. L \in Nat /\ m \in Nat /\ m <= L /\ \A j \in 1..L : q[j] \in S
  BY LenProperties, ElementOfSeq
<1>2. Len(s) = L - m /\ \A j \in 1..L-m : s[j] = q[m+j]
  OBVIOUS
<1>3. \A j \in m+1..L : j \in 1..L
  <2> HIDE DEF L
  <2> QED BY <1>1
<1>4. /\ t \in Seq(S)
      /\ Len(t) = IF m+1 <= L THEN L-(m+1)+1 ELSE 0
      /\ \A j \in 1..L-(m+1)+1 : t[j] = q[(m+1)+j-1]
  <2> HIDE DEF L
  <2> QED BY <1>1, <1>3, SubSeqProperties
<1> HIDE DEF L, t
<1>5. Len(t) = L - m /\ L-(m+1)+1 = L-m
  BY <1>1, <1>4
<1>6. ASSUME NEW j \in 1..L-m
      PROVE  m+j \in 1..L /\ m+j \in m+1..L /\ (m+1)+j-1 = m+j
  BY <1>1
<1>7. \A j \in 1..Len(s) : s[j] = t[j]
  BY <1>2, <1>4, <1>5, <1>6
<1>8. s = t
  BY <1>2, <1>4, <1>5, <1>7, SeqEqual
<1>9. ASSUME NEW j \in m+1..L
      PROVE  j-m \in 1..L-m /\ m+(j-m) = j
  BY <1>1
<1>10. {s[j] : j \in 1..Len(s)} = {q[j] : j \in m+1..L}
  <2>1. \A j \in 1..L-m : s[j] = q[m+j] /\ m+j \in m+1..L
    BY <1>2, <1>6
  <2>2. ASSUME NEW j \in m+1..L PROVE q[j] = s[j-m] /\ j-m \in 1..L-m
    BY <1>2, <1>9
  <2> DEFINE A == {s[j] : j \in 1..Len(s)}
             B == {q[j] : j \in m+1..L}
  <2>3. ASSUME NEW x \in A PROVE x \in B
    <3>1. PICK j \in 1..L-m : x = s[j]
      BY <1>2
    <3> QED BY <2>1, <3>1
  <2>4. ASSUME NEW x \in B PROVE x \in A
    <3>1. PICK j \in m+1..L : x = q[j]
      OBVIOUS
    <3> QED BY <1>2, <2>2, <3>1
  <2> HIDE DEF A, B
  <2>5. A = B
    BY <2>3, <2>4
  <2> QED BY <2>5 DEF A, B
<1> QED
  BY <1>2, <1>6, <1>8, <1>10 DEF L, t, IsRest

\* retryPendingBaseline serves a prefix of the queue, and leaves nothing while
\* a driver is idle.
LEMMA RetryServes ==
  ASSUME NEW n \in 0..MaxOrders, NEW w \in Good(n), ExactQueue(w)
  PROVE  LET v == RetryPending(w)
             q == w.queue
         IN  /\ ExactQueue(v)
             /\ v.queue # <<>> => IdleDrivers(v) = {}
             /\ \E m \in 0..Len(q) : v.queue = SubSeq(q, m+1, Len(q))
<1> DEFINE v == RetryPending(w)
           q == w.queue
<1>1. /\ q \in Seq(1..n) /\ Len(q) \in Nat /\ DOMAIN q = 1..Len(q)
      /\ \A j, k \in 1..Len(q) : j < k => q[j] < q[k]
      /\ {q[j] : j \in 1..Len(q)} = Unresolved(w)
      /\ v \in Good(n)
  <2>1. q \in Seq(1..n)
    BY GoodWorld
  <2>2. Len(q) \in Nat /\ DOMAIN q = 1..Len(q)
    BY <2>1, LenProperties
  <2> QED BY <2>1, <2>2, RetryGood DEF ExactQueue
<1>2. CASE q = <<>> \/ IdleDrivers(w) = {}
  <2>1. v = w
    BY <1>2 DEF RetryPending
  <2>2. q = SubSeq(q, 0+1, Len(q))
    BY <1>1
  <2> HIDE DEF v, q
  <2>3. 0 \in 0..Len(q)
    BY <1>1
  <2>4. \E m \in 0..Len(q) : q = SubSeq(q, m+1, Len(q))
    BY <2>2, <2>3
  <2> QED BY <1>2, <2>1, <2>4 DEF v, q
<1>3. CASE ~(q = <<>> \/ IdleDrivers(w) = {})
  <2>1. PICK acc : IsRetry(acc, n, w) /\ v = acc[Len(q)]
    BY <1>3, RetryRun
  <2>2. /\ acc \in [0..Len(q) -> Good(n)] /\ acc[0] = [w EXCEPT !.queue = <<>>]
        /\ \A i \in 1..Len(q) : acc[i] = Offered(acc[i-1], q[i])
    BY <2>1 DEF IsRetry
  <2> DEFINE Stage == {x \in (0..Len(q)) \X Good(n) : \E m : Served(x[2], q, x[1], m)}
             run   == [i \in 0..Len(q) |-> <<i, acc[i]>>]
  <2>3. run[0] \in Stage
    <3>1. /\ acc[0].queue = <<>> /\ acc[0].orders = w.orders
          /\ acc[0] \in Good(n) /\ 0 \in 0..Len(q)
      <4>1. acc[0] \in Good(n) /\ 0 \in 0..Len(q)
        BY <1>1, <2>2
      <4>2. w \in Typed(n)
        BY GoodWorld
      <4>3. acc[0].queue = <<>> /\ acc[0].orders = w.orders
        BY <2>2, <4>2 DEF Typed
      <4> QED BY <4>1, <4>3
    <3>2. Unresolved(acc[0]) = {q[j] : j \in 1..Len(q)}
      BY <1>1, <3>1 DEF Unresolved
    <3>3. Served(acc[0], q, 0, 0)
      BY <1>1, <3>1, <3>2 DEF Served
    <3> QED BY <3>1, <3>3
  <2>4. ASSUME NEW i \in 1..Len(q), run[i-1] \in Stage
        PROVE  run[i] \in Stage
    <3>1. i-1 \in 0..Len(q) /\ i \in 0..Len(q)
      BY <1>1
    <3>2. PICK m : Served(acc[i-1], q, i-1, m)
      BY <2>4, <3>1
    <3>3. acc[i-1] \in Good(n) /\ acc[i] \in Good(n) /\ acc[i] = Offered(acc[i-1], q[i])
      BY <2>2, <3>1
    <3> HIDE DEF q
    <3>4. \E k : Served(acc[i], q, i, k)
      BY <1>1, <3>2, <3>3, RoundServes
    <3> QED BY <3>1, <3>3, <3>4
  <2>5. \A i \in 0..Len(q) : run[i] \in Stage
    <3> HIDE DEF q, run, Stage
    <3> QED BY <1>1, <2>3, <2>4, LoopInvariant
  <2>6. PICK m : Served(v, q, Len(q), m)
    <3>1. Len(q) \in 0..Len(q)
      BY <1>1
    <3> QED BY <2>1, <2>5, <3>1
  <2> HIDE DEF v, q
  <2>7. /\ m \in 0..Len(q) /\ Len(v.queue) = Len(q) - m /\ v.queue \in Seq(1..n)
        /\ \A j \in 1..Len(q)-m : v.queue[j] = q[m+j]
        /\ v.queue # <<>> => IdleDrivers(v) = {}
        /\ Unresolved(v) = {q[j] : j \in m+1..Len(q)}
    BY <1>1, <2>6, GoodWorld DEF Served
  <2>8. DOMAIN v.queue = 1..Len(v.queue)
    BY <2>7, LenProperties
  <2>9. IsRest(v.queue, q, m)
    BY <1>1, <2>7, Suffix
  <2>10. ExactQueue(v)
    <3>1. ASSUME NEW j \in 1..Len(v.queue), NEW k \in 1..Len(v.queue), j < k
          PROVE  v.queue[j] < v.queue[k]
      <4>1. m \in Nat /\ j \in Nat /\ k \in Nat
        BY <2>7
      <4>2. m+j < m+k /\ m+j \in 1..Len(q) /\ m+k \in 1..Len(q)
        BY <2>9, <3>1, <4>1 DEF IsRest
      <4> QED BY <1>1, <2>9, <3>1, <4>2 DEF IsRest
    <3> QED BY <2>7, <2>8, <2>9, <3>1 DEF ExactQueue, IsRest
  <2> QED BY <2>7, <2>9, <2>10 DEF v, q, IsRest
<1> QED
  BY <1>2, <1>3

-----------------------------------------------------------------------------
\* A step that leaves the queue and the set of unresolved orders alone.
LEMMA SameQueue ==
  ASSUME NEW w, NEW v, ExactQueue(w), v.queue = w.queue, Unresolved(v) = Unresolved(w)
  PROVE  ExactQueue(v)
BY DEF ExactQueue

\* Movement resolves no queued order: the orders it touches have a driver.
LEMMA AfterMovesQueue ==
  ASSUME Inv, ExactQueue(World)
  PROVE  ExactQueue(AfterMoves)
<1> DEFINE n == Len(orders)
           v == AfterMoves
           w == World
<1>1. /\ w \in Good(n) /\ v \in Good(n) /\ n \in 0..MaxOrders
      /\ w.drivers = drivers /\ w.orders = orders /\ w.queue = queue /\ v.queue = queue
  BY WorldGood, AfterMovesGood DEF World, AfterMoves
<1>2. v.orders = [o \in DOMAIN orders |->
                       IF orders[o].driver # NoDriver /\ OnTheMove(orders[o].driver)
                            /\ drivers[orders[o].driver].order = o
                       THEN [orders[o] EXCEPT !.status = Moved(orders[o].driver).status]
                       ELSE orders[o]]
  BY DEF AfterMoves
<1> HIDE DEF n, v, w
<1>3. orders \in [1..n -> OrderRecord] /\ DOMAIN orders = 1..n /\ DOMAIN v.orders = 1..n
  BY <1>1, GoodWorld
<1>4. ASSUME NEW o \in 1..n
      PROVE  v.orders[o].status = "pending" <=> orders[o].status = "pending"
  <2> DEFINE d == orders[o].driver
  <2>1. orders[o] \in OrderRecord /\ d \in Driver \union {NoDriver}
    BY <1>3 DEF OrderRecord
  <2>2. CASE d # NoDriver /\ OnTheMove(d) /\ drivers[d].order = o
    <3>1. drivers[d].status # "idle" /\ Moved(d) \in Leg(drivers[d].order)
      BY <2>1, <2>2, MovedOnLeg
    <3>2. orders[o].status \in {"assigned", "en_route"}
      BY <1>1, <2>1, <2>2, <3>1, BusyDriver
    <3>3. Moved(d).status # "pending"
      <4>1. Moved(d).driver.status \in DriverStatus
        BY <3>1 DEF Leg, DriverRecord
      <4> QED BY <3>1, <4>1 DEF Leg, OrderStatusOf, DriverStatus
    <3>4. v.orders[o].status = Moved(d).status
      BY <1>2, <1>3, <2>1, <2>2 DEF OrderRecord
    <3> QED BY <3>2, <3>3, <3>4
  <2>3. CASE ~(d # NoDriver /\ OnTheMove(d) /\ drivers[d].order = o)
    BY <1>2, <1>3, <2>3
  <2> QED BY <2>2, <2>3
<1>5. Unresolved(v) = Unresolved(w)
  BY <1>1, <1>3, <1>4 DEF Unresolved
<1>6. ExactQueue(v)
  BY <1>1, <1>5, SameQueue DEF w
<1> QED
  BY <1>6 DEF v

\* Closing a road resolves no queued order: a stranded one has a driver.
LEMMA AfterClosingQueue ==
  ASSUME Inv, ExactQueue(World), NEW closed
  PROVE  ExactQueue(AfterClosing(closed))
<1> DEFINE n == Len(orders)
           v == AfterClosing(closed)
           w == World
<1>1. /\ w \in Good(n) /\ v \in Good(n)
      /\ w.drivers = drivers /\ w.orders = orders /\ w.queue = queue /\ v.queue = queue
  BY WorldGood, AfterClosingGood DEF World, AfterClosing
<1>2. v.orders = [o \in DOMAIN orders |->
                       IF \E d \in Driver : drivers[d].order = o /\ Stranded(d, closed)
                       THEN [orders[o] EXCEPT !.status = "unassignable"]
                       ELSE orders[o]]
  BY DEF AfterClosing
<1> HIDE DEF n, v, w
<1>3. orders \in [1..n -> OrderRecord] /\ DOMAIN orders = 1..n /\ DOMAIN v.orders = 1..n
  BY <1>1, GoodWorld
<1>4. ASSUME NEW o \in 1..n
      PROVE  v.orders[o].status = "pending" <=> orders[o].status = "pending"
  <2>1. CASE \E d \in Driver : drivers[d].order = o /\ Stranded(d, closed)
    <3>1. PICK d \in Driver : drivers[d].order = o /\ Stranded(d, closed)
      BY <2>1
    <3>2. drivers[d].status # "idle"
      BY <3>1, AffectedBusy DEF Stranded
    <3>3. orders[o].status \in {"assigned", "en_route"}
      BY <1>1, <3>1, <3>2, BusyDriver
    <3>4. v.orders[o].status = "unassignable"
      BY <1>2, <1>3, <2>1 DEF OrderRecord
    <3> QED BY <3>3, <3>4
  <2>2. CASE ~(\E d \in Driver : drivers[d].order = o /\ Stranded(d, closed))
    BY <1>2, <1>3, <2>2
  <2> QED BY <2>1, <2>2
<1>5. Unresolved(v) = Unresolved(w)
  BY <1>1, <1>3, <1>4 DEF Unresolved
<1>6. ExactQueue(v)
  BY <1>1, <1>5, SameQueue DEF w
<1> QED
  BY <1>6 DEF v

\* The invariant behind QueueExact.
QueuedInv == Inv /\ ExactQueue(World)

\* Committing a world with an exact queue makes it the actor's.
LEMMA CommitQueued ==
  ASSUME NEW w, ExactQueue(w), Commit(w)
  PROVE  ExactQueue(World)'
BY DEF Commit, ExactQueue, Unresolved, World

\* handlePlaceOrder: the new order is the youngest, so it queues behind the
\* others or is resolved at once.
LEMMA PlaceOrderQueued ==
  ASSUME QueuedInv, NEW t \in Trip, PlaceOrder(t)
  PROVE  ExactQueue(World)'
<1> DEFINE order == [pickup |-> t[1], dest |-> t[2], status |-> "pending", driver |-> NoDriver]
           n     == Len(orders) + 1
           w     == [World EXCEPT !.orders = Append(@, order)]
           v     == AssignBaseline(w, n)
<1>1. /\ w \in Good(n) /\ n \in 0..MaxOrders /\ n \in 1..n /\ w.orders[n].status = "pending"
  BY PlacedGood DEF QueuedInv, PlaceOrder
<1>2. /\ w.queue = queue /\ w.orders = Append(orders, order)
      /\ World.queue = queue /\ World.orders = orders /\ World \in Good(Len(orders))
  BY WorldGood DEF QueuedInv, World
<1>3. /\ orders \in Seq(OrderRecord) /\ Len(orders) \in Nat
      /\ DOMAIN orders = 1..Len(orders)
      /\ queue \in Seq(1..Len(orders)) /\ DOMAIN queue = 1..Len(queue) /\ Len(queue) \in Nat
      /\ \A j \in 1..Len(queue) : queue[j] \in 1..Len(orders)
  <2>1. orders \in Seq(OrderRecord)
    BY DEF QueuedInv, Inv, TypeOK
  <2>2. queue \in Seq(1..Len(orders))
    BY <1>2, GoodWorld
  <2> QED BY <2>1, <2>2, LenProperties, ElementOfSeq
<1>4. DOMAIN w.orders = 1..n /\ \A o \in 1..Len(orders) : w.orders[o] = orders[o]
  <2> HIDE DEF order, n, w
  <2>1. DOMAIN w.orders = 1..n
    BY <1>1, GoodWorld
  <2> QED BY <1>2, <1>3, <2>1
<1>5. \A o \in 1..n : o = n \/ o \in 1..Len(orders)
  BY <1>3
<1>6. n \notin 1..Len(orders) /\ \A o \in 1..Len(orders) : o < n /\ o \in 1..n
  BY <1>3
<1> HIDE DEF n, w, order
<1>7. Unresolved(w) = Unresolved(World) \union {n}
  <2>1. \A o \in 1..Len(orders) : o \in Unresolved(w) <=> o \in Unresolved(World)
    BY <1>2, <1>3, <1>4, <1>6 DEF Unresolved
  <2>2. n \in Unresolved(w)
    BY <1>1, <1>4 DEF Unresolved
  <2>3. Unresolved(w) \subseteq 1..n /\ Unresolved(World) \subseteq 1..Len(orders)
    BY <1>2, <1>3, <1>4 DEF Unresolved
  <2> QED BY <1>5, <1>6, <2>1, <2>2, <2>3
<1>8. /\ \A i, j \in 1..Len(queue) : i < j => queue[i] < queue[j]
      /\ {queue[i] : i \in 1..Len(queue)} = Unresolved(World)
  BY <1>2, <1>3 DEF QueuedInv, ExactQueue
<1>9. CASE IdleDrivers(w) = {}
  <2>1. v.queue = Append(queue, n) /\ v.orders = w.orders
    BY <1>1, <1>2, <1>9, AssignResolvesOrQueues
  <2> HIDE DEF v
  <2>2. /\ Len(v.queue) = Len(queue) + 1 /\ DOMAIN v.queue = 1..Len(queue)+1
        /\ \A j \in 1..Len(queue) : v.queue[j] = queue[j]
        /\ v.queue[Len(queue)+1] = n
    <3>1. queue \in Seq(1..n) /\ n \in 1..n
      BY <1>1, <1>3, <1>6
    <3>2. /\ Append(queue, n) \in Seq(1..n)
          /\ Len(Append(queue, n)) = Len(queue) + 1
          /\ \A j \in 1..Len(queue) : Append(queue, n)[j] = queue[j]
          /\ Append(queue, n)[Len(queue)+1] = n
      BY <3>1, AppendProperties
    <3> QED BY <2>1, <3>2, LenProperties
  <2>3. Unresolved(v) = Unresolved(w)
    BY <2>1 DEF Unresolved
  <2>4. \A j \in 1..Len(queue)+1 : j = Len(queue)+1 \/ j \in 1..Len(queue)
    BY <1>3
  <2>5. ASSUME NEW i \in 1..Len(queue)+1, NEW j \in 1..Len(queue)+1, i < j
        PROVE  v.queue[i] < v.queue[j]
    <3>1. i \in 1..Len(queue)
      BY <1>3, <2>5
    <3>2. CASE j = Len(queue)+1
      BY <1>3, <1>6, <2>2, <3>1, <3>2
    <3>3. CASE j \in 1..Len(queue)
      BY <1>8, <2>2, <2>5, <3>1, <3>3
    <3> QED BY <2>4, <3>2, <3>3
  <2>6. {v.queue[j] : j \in 1..Len(queue)+1} = Unresolved(v)
    <3> DEFINE A == {v.queue[j] : j \in 1..Len(queue)+1}
               B == {queue[j] : j \in 1..Len(queue)}
    <3>1. \A x \in A : x \in B \union {n}
      BY <2>2, <2>4
    <3>2. Len(queue)+1 \in 1..Len(queue)+1 /\ \A j \in 1..Len(queue) : j \in 1..Len(queue)+1
      BY <1>3
    <3>3. n \in A /\ \A x \in B : x \in A
      BY <2>2, <3>2
    <3>4. B = Unresolved(World)
      BY <1>8
    <3> HIDE DEF A, B
    <3>5. A = B \union {n}
      BY <3>1, <3>3
    <3> QED BY <1>7, <2>3, <3>4, <3>5 DEF A
  <2>7. ExactQueue(v)
    BY <2>2, <2>5, <2>6 DEF ExactQueue
  <2>8. Commit(v)
    BY DEF PlaceOrder, v, w, n, order
  <2> QED BY <2>7, <2>8, CommitQueued
<1>10. CASE IdleDrivers(w) # {}
  <2>1. v.queue = queue /\ Unresolved(v) = Unresolved(w) \ {n}
    BY <1>1, <1>2, <1>10, AssignResolvesOrQueues
  <2>2. n \notin Unresolved(World)
    BY <1>2, <1>3, <1>6 DEF Unresolved
  <2>3. Unresolved(v) = Unresolved(World)
    BY <1>7, <2>1, <2>2
  <2> HIDE DEF v
  <2>4. ExactQueue(v)
    BY <1>2, <2>1, <2>3, SameQueue DEF QueuedInv
  <2>5. Commit(v)
    BY DEF PlaceOrder, v, w, n, order
  <2> QED BY <2>4, <2>5, CommitQueued
<1> QED
  BY <1>9, <1>10

\* tick: what the retry leaves is the queue without a prefix, and nothing when
\* a driver is idle.
LEMMA TickQueued ==
  ASSUME QueuedInv, Tick
  PROVE  /\ ExactQueue(World)'
         /\ queue' # <<>> => \A d \in Driver : drivers'[d].status # "idle"
         /\ \E m \in 0..Len(queue) : queue' = SubSeq(queue, m+1, Len(queue))
<1> DEFINE n == Len(orders)
           w == AfterMoves
           v == RetryPending(w)
<1>1. w \in Good(n) /\ n \in 0..MaxOrders /\ ExactQueue(w)
  BY AfterMovesGood, AfterMovesQueue, WorldGood DEF QueuedInv
<1>2. w.queue = queue
  BY DEF AfterMoves
<1> HIDE DEF w, n
<1>3. /\ ExactQueue(v)
      /\ v.queue # <<>> => IdleDrivers(v) = {}
      /\ \E m \in 0..Len(queue) : v.queue = SubSeq(queue, m+1, Len(queue))
  BY <1>1, <1>2, RetryServes
<1>4. Commit(v)
  BY DEF Tick, w
<1> HIDE DEF v
<1>5. queue' = v.queue /\ drivers' = v.drivers
  BY <1>4 DEF Commit
<1>6. ExactQueue(World)'
  BY <1>3, <1>4, CommitQueued
<1> QED
  BY <1>3, <1>5, <1>6 DEF IdleDrivers

\* handleCloseRoad leaves the queue and what it holds alone.
LEMMA CloseRoadQueued ==
  ASSUME QueuedInv, NEW r \in Road, CloseRoad(r)
  PROVE  ExactQueue(World)'
<1>1. ExactQueue(AfterClosing(shut \union {r})) /\ Commit(AfterClosing(shut \union {r}))
  BY AfterClosingQueue DEF QueuedInv, CloseRoad
<1> QED
  BY <1>1, CommitQueued

\* At the start and after a reset there is nothing to queue.
LEMMA FreshQueued ==
  ExactQueue([drivers |-> InitialDrivers, orders |-> <<>>, queue |-> <<>>])
BY DEF ExactQueue, Unresolved

LEMMA QueuedInit == Init => QueuedInv
<1> SUFFICES ASSUME Init PROVE ExactQueue(World)
  BY InvInit DEF QueuedInv
<1> QED
  BY DEF Init, World, ExactQueue, Unresolved

LEMMA QueuedNext == QueuedInv /\ [Next]_vars => QueuedInv'
<1> SUFFICES ASSUME QueuedInv, [Next]_vars PROVE ExactQueue(World)'
  BY InvNext DEF QueuedInv
<1>1. ASSUME NEW t \in Trip, PlaceOrder(t) PROVE ExactQueue(World)'
  BY <1>1, PlaceOrderQueued
<1>2. CASE Tick
  BY <1>2, TickQueued
<1>3. ASSUME NEW r \in Road, CloseRoad(r) PROVE ExactQueue(World)'
  BY <1>3, CloseRoadQueued
<1>4. CASE UNCHANGED <<drivers, orders, queue>>
  BY <1>4 DEF QueuedInv, ExactQueue, Unresolved, World
<1>5. CASE Reset
  <2>1. Commit([drivers |-> InitialDrivers, orders |-> <<>>, queue |-> <<>>])
    BY <1>5 DEF Reset, Commit
  <2> QED BY <2>1, FreshQueued, CommitQueued
<1> QED
  BY <1>1, <1>2, <1>3, <1>4, <1>5 DEF Next, ReopenRoad, SetPaused, vars

\* The queue always holds exactly the unresolved orders, oldest first.
THEOREM QueueAlwaysExact == Spec => []QueueExact
<1>1. QueuedInv => QueueExact
  BY DEF QueuedInv, ExactQueue, Unresolved, World, QueueExact
<1> QED
  BY QueuedInit, QueuedNext, <1>1, PTL DEF Spec

\* Every tick serves the queue in placement order and leaves no order waiting
\* while a driver is idle.
THEOREM TicksServeInOrder == Spec => TickServesQueueInOrder
<1>1. QueuedInv /\ [Next]_vars =>
        [Tick => /\ queue' # <<>> => \A d \in Driver : drivers'[d].status # "idle"
                 /\ \E n \in 0..Len(queue) : queue' = SubSeq(queue, n+1, Len(queue))]_vars
  BY TickQueued
<1> QED
  BY QueuedInit, QueuedNext, <1>1, PTL DEF Spec, TickServesQueueInOrder

-----------------------------------------------------------------------------
\* An order that waits has no driver; one that was delivered had one.
CarriedBy(w) ==
  \A o \in DOMAIN w.orders :
    /\ w.orders[o].status = "pending" => w.orders[o].driver = NoDriver
    /\ w.orders[o].status = "delivered" => w.orders[o].driver \in Driver

\* What may become of an order seen as old, and what it keeps.
MovesOn(new, old) ==
  /\ new.status \in Lifecycle!Later(old.status)
  /\ old.status # "pending" => new.driver = old.driver

\* The worlds in which every order of w has only moved on.
Onward(n, w) ==
  {v \in Good(n) : CarriedBy(v) /\ \A o \in 1..n : MovesOn(v.orders[o], w.orders[o])}

\* Moving on takes no order back.
LEMMA MovesOnSame ==
  ASSUME NEW r \in OrderRecord PROVE MovesOn(r, r)
BY DEF MovesOn, OrderRecord, OrderStatus, Lifecycle!Later, Lifecycle!Stage

LEMMA MovesOnThrough ==
  ASSUME NEW a \in OrderRecord, NEW b \in OrderRecord, NEW c \in OrderRecord,
         MovesOn(b, a), MovesOn(c, b)
  PROVE  MovesOn(c, a)
<1>1. c.status \in Lifecycle!Later(a.status)
  BY DEF MovesOn, OrderRecord, OrderStatus, Lifecycle!Later, Lifecycle!Stage
<1>2. a.status # "pending" => b.status # "pending"
  BY DEF MovesOn, OrderRecord, OrderStatus, Lifecycle!Later, Lifecycle!Stage
<1> QED
  BY <1>1, <1>2 DEF MovesOn

\* A good world in which nothing was taken back stays onward.
LEMMA StaysOnward ==
  ASSUME NEW n \in 0..MaxOrders, NEW w \in Good(n), NEW u \in Onward(n, w), NEW v \in Good(n),
         \A o \in 1..n :
            /\ MovesOn(v.orders[o], u.orders[o])
            /\ v.orders[o].status = "pending" => v.orders[o].driver = NoDriver
            /\ v.orders[o].status = "delivered" => v.orders[o].driver \in Driver
  PROVE  v \in Onward(n, w)
<1>1. u \in Good(n) /\ \A o \in 1..n : MovesOn(u.orders[o], w.orders[o])
  BY DEF Onward
<1>2. /\ w.orders \in [1..n -> OrderRecord]
      /\ u.orders \in [1..n -> OrderRecord]
      /\ v.orders \in [1..n -> OrderRecord] /\ DOMAIN v.orders = 1..n
  BY <1>1, GoodWorld
<1>3. ASSUME NEW o \in 1..n PROVE MovesOn(v.orders[o], w.orders[o])
  BY <1>1, <1>2, MovesOnThrough
<1>4. CarriedBy(v)
  BY <1>2 DEF CarriedBy
<1> QED
  BY <1>3, <1>4 DEF Onward

\* A world is onward from itself.
LEMMA OnwardSelf ==
  ASSUME NEW n \in 0..MaxOrders, NEW w \in Good(n), CarriedBy(w)
  PROVE  w \in Onward(n, w)
<1>1. w.orders \in [1..n -> OrderRecord]
  BY GoodWorld
<1> QED
  BY <1>1, MovesOnSame DEF Onward

\* assignBaseline takes, turns away or leaves its order, and no other.
LEMMA AssignOutcome ==
  ASSUME NEW n \in 0..MaxOrders, NEW u \in Good(n), NEW o \in 1..n,
         u.orders[o].status = "pending"
  PROVE  LET v == AssignBaseline(u, o)
         IN  /\ v \in Good(n)
             /\ \A p \in 1..n : p # o => v.orders[p] = u.orders[p]
             /\ \/ v.orders[o] = u.orders[o]
                \/ v.orders[o].status \in {"unassignable", "en_route", "assigned"}
<1> DEFINE pickup == u.orders[o].pickup
           v      == AssignBaseline(u, o)
           turned == [u.orders EXCEPT ![o].status = "unassignable"]
           taken(d) == [u.orders EXCEPT ![o] =
                          [@ EXCEPT !.driver = d,
                                    !.status = IF u.drivers[d].pos = pickup
                                               THEN "en_route" ELSE "assigned"]]
<1>1. u \in Typed(n) /\ u.orders \in [1..n -> OrderRecord]
  BY GoodWorld
<1>2. v \in Good(n)
  BY AssignGood
<1>3. Reject(u, o).orders = turned
  BY <1>1 DEF Reject, Typed
<1>4. \/ v.orders = u.orders
      \/ v.orders = turned
      \/ \E d \in Driver : v.orders = taken(d)
  <2>1. CASE Candidates(u, pickup) # {}
    <3>1. pickup \in Node
      BY <1>1 DEF OrderRecord
    <3>2. Nearest(u, pickup) \in Driver
      BY <2>1, <3>1, NearestType DEF Candidates, IdleDrivers
    <3>3. v = ApplyAssignment(u, o, Nearest(u, pickup))
      BY <2>1 DEF AssignBaseline
    <3>4. v.orders = turned \/ v.orders = taken(Nearest(u, pickup))
      <4> HIDE DEF v, turned
      <4> QED BY <1>3, <3>3 DEF ApplyAssignment
    <3> QED BY <3>2, <3>4
  <2>2. CASE Candidates(u, pickup) = {} /\ IdleDrivers(u) # {}
    BY <1>3, <2>2 DEF AssignBaseline
  <2>3. CASE Candidates(u, pickup) = {} /\ IdleDrivers(u) = {}
    BY <1>1, <2>3 DEF AssignBaseline, Typed
  <2> QED BY <2>1, <2>2, <2>3
<1>5. \A p \in 1..n : p # o => v.orders[p] = u.orders[p]
  BY <1>1, <1>4
<1>6. \/ v.orders[o] = u.orders[o]
      \/ v.orders[o].status \in {"unassignable", "en_route", "assigned"}
  <2>1. turned[o].status = "unassignable"
    BY <1>1 DEF OrderRecord
  <2>2. ASSUME NEW d \in Driver PROVE taken(d)[o].status \in {"en_route", "assigned"}
    BY <1>1 DEF OrderRecord
  <2> HIDE DEF v, turned, taken
  <2> QED BY <1>4, <2>1, <2>2
<1> QED
  BY <1>2, <1>5, <1>6

\* assignBaseline moves its order on.
LEMMA AssignOnward ==
  ASSUME NEW n \in 0..MaxOrders, NEW w \in Good(n), NEW u \in Onward(n, w), NEW o \in 1..n,
         u.orders[o].status = "pending"
  PROVE  AssignBaseline(u, o) \in Onward(n, w)
<1> DEFINE v == AssignBaseline(u, o)
<1>1. u \in Good(n) /\ CarriedBy(u)
  BY DEF Onward
<1>2. u.orders \in [1..n -> OrderRecord] /\ DOMAIN u.orders = 1..n
  BY <1>1, GoodWorld
<1>3. /\ v \in Good(n)
      /\ \A p \in 1..n : p # o => v.orders[p] = u.orders[p]
      /\ \/ v.orders[o] = u.orders[o]
         \/ v.orders[o].status \in {"unassignable", "en_route", "assigned"}
  BY <1>1, AssignOutcome
<1> HIDE DEF v
<1>4. ASSUME NEW p \in 1..n
      PROVE  /\ MovesOn(v.orders[p], u.orders[p])
             /\ v.orders[p].status = "pending" => v.orders[p].driver = NoDriver
             /\ v.orders[p].status = "delivered" => v.orders[p].driver \in Driver
  <2>1. u.orders[p] \in OrderRecord
    BY <1>2
  <2>2. CASE v.orders[p] = u.orders[p]
    BY <1>1, <1>2, <2>1, <2>2, MovesOnSame DEF CarriedBy
  <2>3. CASE p = o /\ v.orders[p].status \in {"unassignable", "en_route", "assigned"}
    BY <2>3 DEF MovesOn, Lifecycle!Later, Lifecycle!Stage
  <2> QED BY <1>3, <2>2, <2>3
<1>5. v \in Onward(n, w)
  BY <1>3, <1>4, StaysOnward
<1> QED
  BY <1>5 DEF v

\* retryPendingBaseline: every offer moves its order on.
LEMMA RetryOnward ==
  ASSUME NEW n \in 0..MaxOrders, NEW w \in Good(n), NEW u \in Onward(n, w)
  PROVE  RetryPending(u) \in Onward(n, w)
<1> DEFINE q == u.queue
           v == [u EXCEPT !.queue = <<>>]
           S == Onward(n, w)
<1>1. u \in Good(n) /\ CarriedBy(u)
  BY DEF Onward
<1>2. u \in Typed(n) /\ q \in Seq(1..n)
  BY <1>1, GoodWorld
<1>3. v \in Good(n) /\ v.orders = u.orders
  BY <1>1, <1>2, EmptiedGood DEF Typed
<1> HIDE DEF v
<1>4. v \in S
  BY <1>3 DEF Onward, CarriedBy
<1>5. \A x \in S, o \in 1..n : Offered(x, o) \in S
  BY AssignOnward DEF Offered
<1>6. CASE q = <<>> \/ IdleDrivers(u) = {}
  BY <1>6 DEF RetryPending
<1>7. CASE ~(q = <<>> \/ IdleDrivers(u) = {})
  <2>1. PICK acc : IsRetry(acc, n, u) /\ RetryPending(u) = acc[Len(q)]
    BY <1>1, <1>7, RetryRun
  <2>2. acc[0] = v /\ \A i \in 1..Len(q) : acc[i] = Offered(acc[i-1], q[i])
    BY <2>1 DEF IsRetry, v
  <2>3. Len(q) \in Nat /\ \A i \in 1..Len(q) : q[i] \in 1..n
    BY <1>2, LenProperties, ElementOfSeq
  <2> HIDE DEF q, S
  <2>4. \A i \in 1..Len(q) : acc[i-1] \in S => acc[i] \in S
    BY <1>5, <2>2, <2>3
  <2>5. \A i \in 0..Len(q) : acc[i] \in S
    BY <1>4, <2>2, <2>3, <2>4, LoopInvariant
  <2> QED BY <2>1, <2>3, <2>5 DEF S
<1> QED
  BY <1>6, <1>7

\* The legs that have not taken their order back from "en_route".
ForwardLeg(o, from) ==
  {m \in Leg(o) : m.status \in {"assigned", "en_route", "delivered"}
                    /\ (from = "en_route" => m.status # "assigned")}

\* A round of moveDriver's loop only moves the order on.
LEMMA HopForward ==
  ASSUME NEW o \in 0..MaxOrders, NEW from, NEW m \in ForwardLeg(o, from), NEW pickup
  PROVE  Hop(m, pickup) \in ForwardLeg(o, from)
<1> DEFINE v == Hop(m, pickup)
<1>1. m \in Leg(o) /\ v \in Leg(o)
  BY HopLeg DEF ForwardLeg
<1>2. v.status \in {m.status, "en_route", "delivered"}
  BY DEF Hop, Arrive
<1> HIDE DEF v
<1>3. v \in ForwardLeg(o, from)
  BY <1>1, <1>2 DEF ForwardLeg
<1> QED
  BY <1>3 DEF v

\* The movement half of a tick.
LEMMA AfterMovesOnward ==
  ASSUME Inv, CarriedBy(World)
  PROVE  AfterMoves \in Onward(Len(orders), World)
<1> DEFINE n == Len(orders)
           v == AfterMoves
           w == World
<1>1. /\ w \in Good(n) /\ v \in Good(n) /\ n \in 0..MaxOrders
      /\ w.drivers = drivers /\ w.orders = orders
  BY WorldGood, AfterMovesGood DEF World
<1>2. v.orders = [o \in DOMAIN orders |->
                       IF orders[o].driver # NoDriver /\ OnTheMove(orders[o].driver)
                            /\ drivers[orders[o].driver].order = o
                       THEN [orders[o] EXCEPT !.status = Moved(orders[o].driver).status]
                       ELSE orders[o]]
  BY DEF AfterMoves
<1> HIDE DEF n, v, w
<1>3. orders \in [1..n -> OrderRecord] /\ DOMAIN orders = 1..n
      /\ drivers \in [Driver -> DriverRecord]
  BY <1>1, GoodWorld
<1>4. ASSUME NEW o \in 1..n
      PROVE  /\ MovesOn(v.orders[o], orders[o])
             /\ v.orders[o].status = "pending" => v.orders[o].driver = NoDriver
             /\ v.orders[o].status = "delivered" => v.orders[o].driver \in Driver
  <2> DEFINE d == orders[o].driver
             from == orders[o].status
  <2>1. orders[o] \in OrderRecord /\ d \in Driver \union {NoDriver}
    BY <1>3 DEF OrderRecord
  <2>2. CASE d # NoDriver /\ OnTheMove(d) /\ drivers[d].order = o
    <3>1. d \in Driver /\ drivers[d].status # "idle"
      BY <2>1, <2>2, MovedOnLeg
    <3>2. from = OrderStatusOf[drivers[d].status] /\ from \in {"assigned", "en_route"}
          /\ drivers[d] \in DriverRecord /\ drivers[d].route \in Seq(Node)
      BY <1>1, <1>3, <2>2, <3>1, BusyDriver DEF DriverRecord
    <3>3. o \in 0..MaxOrders /\ Speed \in Nat
      BY <1>1, SimulationAssumption
    <3> DEFINE init == [driver |-> drivers[d], status |-> from, budget |-> Speed]
               S    == ForwardLeg(o, from)
    <3>4. init \in Leg(o)
      BY <2>1, <2>2, <3>1, <3>2, <3>3 DEF Leg, OrderRecord
    <3>5. init \in S
      BY <3>2, <3>4 DEF ForwardLeg
    <3>6. \A m \in S : Hop(m, orders[o].pickup) \in S
      BY <3>3, HopForward
    <3>7. Moved(d) \in S
      <4> HIDE DEF S, d
      <4> QED BY <2>2, <3>1, <3>2, <3>5, <3>6, MovedLoop
    <3>8. v.orders[o] = [orders[o] EXCEPT !.status = Moved(d).status]
      BY <1>2, <1>3, <2>2
    <3>9. /\ Moved(d).status \in {"assigned", "en_route", "delivered"}
          /\ from = "en_route" => Moved(d).status # "assigned"
      BY <3>7 DEF ForwardLeg
    <3>10. v.orders[o].status = Moved(d).status /\ v.orders[o].driver = d
      BY <2>1, <3>8 DEF OrderRecord
    <3>11. Moved(d).status \in Lifecycle!Later(from)
      BY <3>2, <3>9 DEF Lifecycle!Later, Lifecycle!Stage
    <3> QED BY <3>1, <3>9, <3>10, <3>11 DEF MovesOn
  <2>3. CASE ~(d # NoDriver /\ OnTheMove(d) /\ drivers[d].order = o)
    <3>1. v.orders[o] = orders[o]
      BY <1>2, <1>3, <2>3
    <3>2. MovesOn(orders[o], orders[o])
      BY <2>1, MovesOnSame
    <3> QED BY <1>1, <1>3, <3>1, <3>2 DEF CarriedBy, w
  <2> QED BY <2>2, <2>3
<1>5. w \in Onward(n, w)
  BY <1>1, OnwardSelf DEF w
<1>6. v \in Onward(n, w)
  BY <1>1, <1>4, <1>5, StaysOnward
<1> QED
  BY <1>6 DEF n, v, w

\* Closing a road turns away the orders of stranded drivers, no others.
LEMMA AfterClosingOnward ==
  ASSUME Inv, CarriedBy(World), NEW closed
  PROVE  AfterClosing(closed) \in Onward(Len(orders), World)
<1> DEFINE n == Len(orders)
           v == AfterClosing(closed)
           w == World
<1>1. /\ w \in Good(n) /\ v \in Good(n) /\ n \in 0..MaxOrders
      /\ w.drivers = drivers /\ w.orders = orders
  BY WorldGood, AfterClosingGood DEF World
<1>2. v.orders = [o \in DOMAIN orders |->
                       IF \E d \in Driver : drivers[d].order = o /\ Stranded(d, closed)
                       THEN [orders[o] EXCEPT !.status = "unassignable"]
                       ELSE orders[o]]
  BY DEF AfterClosing
<1> HIDE DEF n, v, w
<1>3. orders \in [1..n -> OrderRecord] /\ DOMAIN orders = 1..n
  BY <1>1, GoodWorld
<1>4. ASSUME NEW o \in 1..n
      PROVE  /\ MovesOn(v.orders[o], orders[o])
             /\ v.orders[o].status = "pending" => v.orders[o].driver = NoDriver
             /\ v.orders[o].status = "delivered" => v.orders[o].driver \in Driver
  <2>1. orders[o] \in OrderRecord
    BY <1>3
  <2>2. CASE \E d \in Driver : drivers[d].order = o /\ Stranded(d, closed)
    <3>1. PICK d \in Driver : drivers[d].order = o /\ Stranded(d, closed)
      BY <2>2
    <3>2. drivers[d].status # "idle"
      BY <3>1, AffectedBusy DEF Stranded
    <3>3. orders[o].status \in {"assigned", "en_route"}
      BY <1>1, <3>1, <3>2, BusyDriver
    <3>4. v.orders[o] = [orders[o] EXCEPT !.status = "unassignable"]
      BY <1>2, <1>3, <2>2
    <3>5. v.orders[o].status = "unassignable" /\ v.orders[o].driver = orders[o].driver
      BY <2>1, <3>4 DEF OrderRecord
    <3> QED BY <3>3, <3>5 DEF MovesOn, Lifecycle!Later, Lifecycle!Stage
  <2>3. CASE ~(\E d \in Driver : drivers[d].order = o /\ Stranded(d, closed))
    <3>1. v.orders[o] = orders[o]
      BY <1>2, <1>3, <2>3
    <3>2. MovesOn(orders[o], orders[o])
      BY <2>1, MovesOnSame
    <3> QED BY <1>1, <1>3, <3>1, <3>2 DEF CarriedBy, w
  <2> QED BY <2>2, <2>3
<1>5. w \in Onward(n, w)
  BY <1>1, OnwardSelf DEF w
<1>6. v \in Onward(n, w)
  BY <1>1, <1>4, <1>5, StaysOnward
<1> QED
  BY <1>6 DEF n, v, w

-----------------------------------------------------------------------------
\* The invariant behind the refinement.
LifecycleInv == Inv /\ CarriedBy(World)

\* A step that only moves orders on, and adds at most one that is not yet
\* delivered, is a step of the lifecycle.
LEMMA AdvanceStep ==
  ASSUME LifecycleInv, LifecycleInv',
         Len(orders') \in {Len(orders), Len(orders) + 1},
         \A o \in 1..Len(orders) : MovesOn(orders'[o], orders[o]),
         \A o \in 1..Len(orders') : o \notin 1..Len(orders) => orders'[o].status # "delivered"
  PROVE  Lifecycle!Advance
<1> DEFINE st(os) == [o \in DOMAIN os |-> os[o].status]
           ca(os) == [o \in DOMAIN os |-> os[o].driver]
<1>1. /\ orders \in Seq(OrderRecord) /\ orders' \in Seq(OrderRecord)
      /\ DOMAIN orders = 1..Len(orders) /\ DOMAIN orders' = 1..Len(orders')
      /\ Len(orders) \in Nat /\ Len(orders') \in Nat
  BY LenProperties DEF LifecycleInv, Inv, TypeOK
<1>2. ASSUME NEW os \in Seq(OrderRecord)
      PROVE  /\ st(os) \in Seq(Lifecycle!Stage) /\ Len(st(os)) = Len(os)
             /\ ca(os) \in Seq(Driver \union {NoDriver}) /\ Len(ca(os)) = Len(os)
  <2>1. DOMAIN os = 1..Len(os) /\ Len(os) \in Nat /\ \A o \in 1..Len(os) : os[o] \in OrderRecord
    BY LenProperties, ElementOfSeq
  <2>2. \A o \in 1..Len(os) : os[o].status \in Lifecycle!Stage /\ os[o].driver \in Driver \union {NoDriver}
    BY <2>1 DEF OrderRecord, OrderStatus, Lifecycle!Stage
  <2> QED BY <2>1, <2>2
<1>3. \A o \in 1..Len(orders) : o \in 1..Len(orders')
  <2> DEFINE k == Len(orders)
             l == Len(orders')
  <2>1. k \in Nat /\ l \in Nat /\ (l = k \/ l = k + 1)
    BY <1>1
  <2> HIDE DEF k, l
  <2>2. \A o \in 1..k : o \in 1..l
    BY <2>1
  <2> QED BY <2>2 DEF k, l
<1>4. /\ \A o \in DOMAIN orders :
            /\ st(orders')[o] \in Lifecycle!Later(st(orders)[o])
            /\ st(orders)[o] # "pending" => ca(orders')[o] = ca(orders)[o]
      /\ \A o \in DOMAIN orders' \ DOMAIN orders : st(orders')[o] # "delivered"
  BY <1>1, <1>3 DEF MovesOn
<1>5. ASSUME NEW o \in DOMAIN orders', NEW p \in DOMAIN orders',
             orders'[o].status \in {"assigned", "en_route"},
             orders'[p].status \in {"assigned", "en_route"},
             orders'[o].driver = orders'[p].driver
      PROVE  o = p
  <2>1. Paired(drivers', orders')
    BY DEF LifecycleInv, Inv, Pairing
  <2>2. drivers'[orders'[o].driver].order = o /\ drivers'[orders'[p].driver].order = p
    BY <1>5, <2>1 DEF Paired
  <2> QED BY <1>5, <2>2
<1>6. ASSUME NEW o \in DOMAIN orders'
      PROVE  /\ orders'[o].status = "pending" => orders'[o].driver = NoDriver
             /\ orders'[o].status \in {"assigned", "en_route", "delivered"}
                  => orders'[o].driver \in Driver
  <2>1. /\ orders'[o].status = "pending" => orders'[o].driver = NoDriver
        /\ orders'[o].status = "delivered" => orders'[o].driver \in Driver
    BY DEF LifecycleInv, CarriedBy, World
  <2>2. Paired(drivers', orders')
    BY DEF LifecycleInv, Inv, Pairing
  <2>3. orders'[o].status \in {"assigned", "en_route"} => orders'[o].driver \in Driver
    BY <2>2 DEF Paired
  <2> QED BY <2>1, <2>3
<1>7. Lifecycle!Exclusive'
  BY <1>5 DEF Lifecycle!Exclusive, Lifecycle!InProgress
<1>8. Lifecycle!Carried'
  BY <1>6 DEF Lifecycle!Carried
<1>9. /\ st(orders') \in Seq(Lifecycle!Stage)
      /\ ca(orders') \in Seq(Driver \union {NoDriver})
      /\ Len(st(orders')) \in {Len(st(orders)), Len(st(orders)) + 1}
      /\ Len(ca(orders')) = Len(st(orders'))
  BY <1>1, <1>2
<1>10. DOMAIN st(orders) = DOMAIN orders /\ DOMAIN st(orders') = DOMAIN orders'
  OBVIOUS
<1> QED
  BY <1>4, <1>7, <1>8, <1>9, <1>10 DEF Lifecycle!Advance

\* Committing a world that is onward from the actor's moves its orders on.
LEMMA CommitOnward ==
  ASSUME Inv, NEW v \in Onward(Len(orders), World), Commit(v)
  PROVE  /\ CarriedBy(World)'
         /\ Len(orders') = Len(orders)
         /\ \A o \in 1..Len(orders) : MovesOn(orders'[o], orders[o])
<1> DEFINE n == Len(orders)
<1>1. /\ n \in Nat /\ v \in Good(n) /\ orders' = v.orders /\ World.orders = orders
      /\ CarriedBy(v) /\ \A o \in 1..n : MovesOn(v.orders[o], World.orders[o])
  BY WorldGood, SimulationAssumption DEF Onward, Commit, World
<1> HIDE DEF n
<1>2. v.orders \in [1..n -> OrderRecord]
  BY <1>1, GoodWorld
<1>3. Len(orders') = n
  BY <1>1, <1>2
<1>4. CarriedBy(World)'
  BY <1>1 DEF CarriedBy, World
<1> QED
  BY <1>1, <1>3, <1>4 DEF n

\* The actor's world with one more order, which waits and has no driver.
OneMorePlaced(n, w) ==
  /\ n = Len(orders) + 1 /\ n \in 0..MaxOrders
  /\ w \in Good(n)
  /\ \A o \in 1..Len(orders) : w.orders[o] = orders[o]
  /\ w.orders[n].status = "pending" /\ w.orders[n].driver = NoDriver

LEMMA PlacedCarried ==
  ASSUME LifecycleInv, NEW n, NEW w, OneMorePlaced(n, w)
  PROVE  CarriedBy(w)
<1>1. orders \in Seq(OrderRecord) /\ Len(orders) \in Nat /\ DOMAIN orders = 1..Len(orders)
  <2>1. orders \in Seq(OrderRecord)
    BY DEF LifecycleInv, Inv, TypeOK
  <2> QED BY <2>1, LenProperties
<1>2. DOMAIN w.orders = 1..n
  BY GoodWorld DEF OneMorePlaced
<1>3. ASSUME NEW o \in 1..n
      PROVE  /\ w.orders[o].status = "pending" => w.orders[o].driver = NoDriver
             /\ w.orders[o].status = "delivered" => w.orders[o].driver \in Driver
  <2>1. CASE o = n
    BY <2>1 DEF OneMorePlaced
  <2>2. CASE o # n
    <3>1. o \in DOMAIN orders
      BY <1>1, <2>2 DEF OneMorePlaced
    <3>2. w.orders[o] = orders[o]
      BY <1>1, <3>1 DEF OneMorePlaced
    <3>3. CarriedBy(World) /\ World.orders = orders
      BY DEF LifecycleInv, World
    <3> QED BY <3>1, <3>2, <3>3 DEF CarriedBy
  <2> QED BY <2>1, <2>2
<1> QED BY <1>2, <1>3 DEF CarriedBy

\* Committing a world that is onward from it.
LEMMA PlacedAdvances ==
  ASSUME LifecycleInv, NEW n, NEW w, OneMorePlaced(n, w),
         NEW v \in Onward(n, w), v.orders[n].status # "delivered", Commit(v)
  PROVE  /\ CarriedBy(World)'
         /\ Len(orders') = Len(orders) + 1
         /\ \A o \in 1..Len(orders) : MovesOn(orders'[o], orders[o])
         /\ \A o \in 1..Len(orders') : o \notin 1..Len(orders) => orders'[o].status # "delivered"
<1>1. Len(orders) \in Nat
  <2>1. orders \in Seq(OrderRecord)
    BY DEF LifecycleInv, Inv, TypeOK
  <2> QED BY <2>1, LenProperties
<1>2. n = Len(orders) + 1 /\ \A o \in 1..Len(orders) : w.orders[o] = orders[o]
  BY DEF OneMorePlaced
<1>3. /\ \A o \in 1..n : o = n \/ o \in 1..Len(orders)
      /\ \A o \in 1..Len(orders) : o \in 1..n
  BY <1>1, <1>2
<1>4. /\ v.orders \in [1..n -> OrderRecord] /\ CarriedBy(v)
      /\ \A o \in 1..n : MovesOn(v.orders[o], w.orders[o])
  <2>1. v \in Good(n)
    BY DEF Onward
  <2>2. v.orders \in [1..n -> OrderRecord]
    BY <2>1, GoodWorld
  <2> QED BY <2>2 DEF Onward
<1>5. orders' = v.orders /\ Len(orders') = n
  <2>1. n \in Nat
    BY <1>1, <1>2
  <2> QED BY <1>4, <2>1 DEF Commit
<1>6. CarriedBy(World)'
  BY <1>4, <1>5 DEF CarriedBy, World
<1>7. \A o \in 1..Len(orders) : MovesOn(orders'[o], orders[o])
  BY <1>2, <1>3, <1>4, <1>5
<1>8. \A o \in 1..Len(orders') : o \notin 1..Len(orders) => orders'[o].status # "delivered"
  BY <1>3, <1>5
<1> QED
  BY <1>2, <1>5, <1>6, <1>7, <1>8

\* handlePlaceOrder adds an order, which no driver can deliver at once.
LEMMA PlaceOrderAdvances ==
  ASSUME LifecycleInv, NEW t \in Trip, PlaceOrder(t)
  PROVE  /\ CarriedBy(World)'
         /\ Len(orders') = Len(orders) + 1
         /\ \A o \in 1..Len(orders) : MovesOn(orders'[o], orders[o])
         /\ \A o \in 1..Len(orders') : o \notin 1..Len(orders) => orders'[o].status # "delivered"
<1> DEFINE order == [pickup |-> t[1], dest |-> t[2], status |-> "pending", driver |-> NoDriver]
           n     == Len(orders) + 1
           w     == [World EXCEPT !.orders = Append(@, order)]
           v     == AssignBaseline(w, n)
<1>1. /\ w \in Good(n) /\ n \in 0..MaxOrders /\ n \in 1..n /\ w.orders[n].status = "pending"
  BY PlacedGood DEF LifecycleInv, PlaceOrder
<1>2. orders \in Seq(OrderRecord) /\ w.orders = Append(orders, order)
  BY DEF LifecycleInv, Inv, TypeOK, World
<1>3. /\ \A o \in 1..Len(orders) : w.orders[o] = orders[o]
      /\ w.orders[n] = order
  <2> HIDE DEF order
  <2> QED BY <1>2
<1>4. order.status = "pending" /\ order.driver = NoDriver
  OBVIOUS
<1>5. v = AssignBaseline(w, n) /\ Commit(v) /\ n = Len(orders) + 1
  BY DEF PlaceOrder
<1> HIDE DEF n, w, order, v
<1>6. OneMorePlaced(n, w)
  BY <1>1, <1>3, <1>4, <1>5 DEF OneMorePlaced
<1>7. v \in Onward(n, w)
  <2>1. w \in Onward(n, w)
    BY <1>1, <1>6, PlacedCarried, OnwardSelf
  <2> QED BY <1>1, <1>5, <2>1, AssignOnward
<1>8. v.orders[n].status # "delivered"
  BY <1>1, <1>5, AssignOutcome
<1> QED
  BY <1>5, <1>6, <1>7, <1>8, PlacedAdvances

\* A step that keeps the orders carried and is one of the lifecycle, or none.
LifecycleStep == CarriedBy(World)' /\ [Lifecycle!Next]_(Lifecycle!vars)

\* Every step of the actor is a step of the lifecycle, or none.
LEMMA StepRefines ==
  ASSUME LifecycleInv, [Next]_vars
  PROVE  LifecycleStep
<1>1. Inv'
  BY InvNext DEF LifecycleInv
<1>2. ASSUME NEW v \in Onward(Len(orders), World), Commit(v)
      PROVE  LifecycleStep
  <2>1. /\ CarriedBy(World)'
        /\ Len(orders') = Len(orders)
        /\ \A o \in 1..Len(orders) : MovesOn(orders'[o], orders[o])
    BY <1>2, CommitOnward DEF LifecycleInv
  <2>2. Lifecycle!Advance
    BY <1>1, <2>1, AdvanceStep DEF LifecycleInv
  <2> QED BY <2>1, <2>2 DEF LifecycleStep, Lifecycle!Next
<1>3. ASSUME NEW t \in Trip, PlaceOrder(t)
      PROVE  LifecycleStep
  <2>1. /\ CarriedBy(World)'
        /\ Len(orders') = Len(orders) + 1
        /\ \A o \in 1..Len(orders) : MovesOn(orders'[o], orders[o])
        /\ \A o \in 1..Len(orders') : o \notin 1..Len(orders) => orders'[o].status # "delivered"
    BY <1>3, PlaceOrderAdvances
  <2>2. Lifecycle!Advance
    BY <1>1, <2>1, AdvanceStep DEF LifecycleInv
  <2> QED BY <2>1, <2>2 DEF LifecycleStep, Lifecycle!Next
<1>4. CASE Tick
  <2>1. /\ AfterMoves \in Onward(Len(orders), World)
        /\ World \in Good(Len(orders)) /\ Len(orders) \in 0..MaxOrders
    BY AfterMovesOnward, WorldGood DEF LifecycleInv
  <2>2. RetryPending(AfterMoves) \in Onward(Len(orders), World)
    BY <2>1, RetryOnward
  <2>3. Commit(RetryPending(AfterMoves))
    BY <1>4 DEF Tick
  <2> QED BY <1>2, <2>2, <2>3
<1>5. ASSUME NEW r \in Road, CloseRoad(r)
      PROVE  LifecycleStep
  <2>1. /\ AfterClosing(shut \union {r}) \in Onward(Len(orders), World)
        /\ Commit(AfterClosing(shut \union {r}))
    BY <1>5, AfterClosingOnward DEF LifecycleInv, CloseRoad
  <2> QED BY <1>2, <2>1
<1>6. CASE UNCHANGED <<drivers, orders, queue>>
  BY <1>6 DEF LifecycleStep, LifecycleInv, CarriedBy, World, Lifecycle!vars
<1>7. CASE Reset
  <2>1. orders' = <<>>
    BY <1>7 DEF Reset
  <2>2. CarriedBy(World)'
    BY <2>1 DEF CarriedBy, World
  <2>3. Lifecycle!Clear
    BY <2>1 DEF Lifecycle!Clear
  <2> QED BY <2>2, <2>3 DEF LifecycleStep, Lifecycle!Next
<1>8. ASSUME NEW r \in Road, ReopenRoad(r)
      PROVE  LifecycleStep
  <2>1. UNCHANGED <<drivers, orders, queue>>
    BY <1>8 DEF ReopenRoad
  <2> QED BY <1>6, <2>1
<1>9. ASSUME NEW p \in BOOLEAN, SetPaused(p)
      PROVE  LifecycleStep
  <2>1. UNCHANGED <<drivers, orders, queue>>
    BY <1>9 DEF SetPaused
  <2> QED BY <1>6, <2>1
<1>10. CASE UNCHANGED vars
  <2>1. UNCHANGED <<drivers, orders, queue>>
    BY <1>10 DEF vars
  <2> QED BY <1>6, <2>1
<1> QED
  BY <1>3, <1>4, <1>5, <1>7, <1>8, <1>9, <1>10 DEF Next

LEMMA LifecycleInit == Init => LifecycleInv /\ Lifecycle!Init
<1> SUFFICES ASSUME Init PROVE CarriedBy(World) /\ Lifecycle!Init
  BY InvInit DEF LifecycleInv
<1>1. orders = <<>>
  BY DEF Init
<1> QED
  BY <1>1 DEF CarriedBy, World, Lifecycle!Init

\* The actor, with its roads, routes, queue and closures, implements the
\* lifecycle of orders its clients are told of.
THEOREM SimulationImplementsLifecycle == Spec => ImplementsLifecycle
<1>1. LifecycleInv /\ [Next]_vars => LifecycleInv'
  BY InvNext, StepRefines DEF LifecycleInv, LifecycleStep
<1>2. LifecycleInv /\ [Next]_vars => [Lifecycle!Next]_(Lifecycle!vars)
  BY StepRefines DEF LifecycleStep
<1> QED
  BY LifecycleInit, <1>1, <1>2, PTL DEF Spec, ImplementsLifecycle, Lifecycle!Spec

=============================================================================
