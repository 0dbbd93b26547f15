------------------------ MODULE OptimizedDispatch_proofs ------------------------
(***************************************************************************)
(* Proofs about the optimized strategy, for every city, any number of       *)
(* drivers and orders, any batch size, wait and limit of candidates.  The   *)
(* ring search finds the nearest drivers; what MinCostAssignment pairs      *)
(* costs least, can be carried out and leaves nobody out that could be      *)
(* served; a batch settles what it decides and keeps the rest queued; and   *)
(* with these every step keeps the queue exact, the index of idle drivers   *)
(* sound, and turns away no order without a cause.                          *)
(***************************************************************************)
EXTENDS OptimizedDispatch, Simulation_proofs, FiniteSetTheorems, FunctionTheorems

-----------------------------------------------------------------------------
(***************************************************************************)
(* The Hungarian algorithm of Assignment is correct: for every matrix of     *)
(* integers, MinCostAssignment pairs all rows, or all columns if they are    *)
(* fewer, and no such pairing costs less.  The argument is the one of linear *)
(* programming: RowsGiven says which rows have a column, Priced that the     *)
(* potentials bound every cost from below and are reached by the pairs made; *)
(* Seeking and Augmenting are what the two inner loops keep, the rank in     *)
(* them being why they end; the sums of the potentials are the bound.        *)
(***************************************************************************)
\* The search for a path: one visit.

\* Matrices of m rows and n columns.
Matrix(m, n) == [1..m -> [1..n -> Int]]

SearchState(m, n) ==
  [u : [1..m -> Int], v : [0..n -> Int], p : [0..n -> 0..m], way : [0..n -> 0..n],
   minv : [0..n -> Int], used : SUBSET (0..n), j0 : 0..n, done : BOOLEAN]

\* A function on a non-empty set of columns has a first column of least value.
LEMMA LeastColumn ==
  ASSUME NEW n \in Nat, NEW T \in SUBSET (0..n), T # {}, NEW f, \A j \in T : f[j] \in Int
  PROVE  \E j \in T : \A k \in T : f[j] < f[k] \/ (f[j] = f[k] /\ j <= k)
<1> DEFINE Least(b, j) == j \in T /\ j <= b /\
             \A k \in T : k <= b => f[j] < f[k] \/ (f[j] = f[k] /\ j <= k)
           Bad == {b \in 0..n : (\E k \in T : k <= b) /\ ~ \E j \in T : Least(b, j)}
<1>1. SUFFICES Bad = {}
  <2>1. ~ (n \in Bad)
    BY <1>1
  <2>2. \E k \in T : k <= n
    <3>1. PICK k \in T : TRUE
      OBVIOUS
    <3>2. k <= n
      BY <3>1
    <3> QED BY <3>2
  <2>3. PICK j \in T : Least(n, j)
    BY <2>1, <2>2
  <2> QED BY <2>3
<1>2. SUFFICES ASSUME Bad # {} PROVE FALSE
  OBVIOUS
<1>3. Bad \in SUBSET Nat
  OBVIOUS
<1>4. PICK b \in Bad : \A c \in Bad : b <= c
  <2> HIDE DEF Bad
  <2> QED BY <1>2, <1>3, LeastNatural
<1>5. b \in 0..n /\ ~ \E j \in T : Least(b, j)
  BY <1>4
<1>6. PICK k \in T : k <= b
  BY <1>4
<1>7. CASE \E l \in T : l < b
  <2>1. b - 1 \in 0..n
    BY <1>5, <1>7
  <2>2. ~ (b - 1 \in Bad)
    <3>1. ~ (b <= b - 1)
      BY <1>5
    <3> HIDE DEF Bad
    <3> QED BY <1>4, <3>1
  <2>3. \E l \in T : l <= b - 1
    BY <1>5, <1>7
  <2>4. PICK j \in T : Least(b-1, j)
    BY <2>1, <2>2, <2>3
  <2>5. CASE b \in T /\ f[b] < f[j]
    <3>1. ASSUME NEW l \in T, l <= b PROVE f[b] < f[l] \/ (f[b] = f[l] /\ b <= l)
      <4>1. CASE l = b
        BY <4>1, <1>5
      <4>2. CASE l # b
        <5>1. l <= b - 1
          BY <1>5, <3>1, <4>2
        <5>2. f[j] <= f[l]
          BY <2>4, <5>1
        <5> QED BY <2>5, <5>2
      <4> QED BY <4>1, <4>2
    <3>2. Least(b, b)
      BY <1>5, <2>5, <3>1
    <3> QED BY <1>5, <2>5, <3>2
  <2>6. CASE ~ (b \in T /\ f[b] < f[j])
    <3>1. ASSUME NEW l \in T, l <= b PROVE f[j] < f[l] \/ (f[j] = f[l] /\ j <= l)
      <4>1. CASE l = b
        <5>1. j <= b - 1 /\ f[j] \in Int /\ f[b] \in Int
          BY <2>4, <4>1
        <5>2. ~ (f[b] < f[j]) /\ j <= b
          BY <1>5, <2>6, <4>1, <5>1
        <5>3. f[j] < f[b] \/ (f[j] = f[b] /\ j <= b)
          BY <5>1, <5>2
        <5> QED BY <4>1, <5>3
      <4>2. CASE l # b
        <5>1. l <= b - 1
          BY <1>5, <3>1, <4>2
        <5>2. \A c \in T : c <= b - 1 => f[j] < f[c] \/ (f[j] = f[c] /\ j <= c)
          BY <2>4
        <5> HIDE DEF Least, Bad
        <5> QED BY <5>1, <5>2, Zenon
      <4> QED BY <4>1, <4>2
    <3>2. j <= b
      BY <1>5, <2>4
    <3>3. Least(b, j)
      BY <3>1, <3>2
    <3> QED BY <1>5, <3>3
  <2> QED BY <2>5, <2>6
<1>8. CASE ~ \E l \in T : l < b
  <2>1. k = b /\ \A l \in T : l <= b => l = b
    BY <1>5, <1>6, <1>8
  <2>2. Least(b, b)
    BY <1>5, <2>1
  <2> QED BY <1>5, <2>1, <2>2
<1> QED
  BY <1>7, <1>8

\* What column j costs row i beyond their potentials.
Slack(work, s, i, j) == work[i][j] - s.u[i] - s.v[j]

\* t follows s by a visit that changes the potentials by D; mv is the slack of
\* the free columns before that change.
Visits(work, s, t, mv, D) ==
  LET used == s.used \union {s.j0}
      free == DOMAIN s.way \ used
      i0   == s.p[s.j0]
  IN  /\ t.p = s.p /\ t.used = used
      /\ t.j0 \in free /\ (t.done <=> s.p[t.j0] = 0)
      /\ D = mv[t.j0] /\ \A j \in free : D <= mv[j]
      /\ \A j \in free :
           IF s.used = {} \/ Slack(work, s, i0, j) < s.minv[j]
           THEN mv[j] = Slack(work, s, i0, j) /\ t.way[j] = s.j0
           ELSE mv[j] = s.minv[j] /\ t.way[j] = s.way[j]
      /\ \A j \in used : t.way[j] = s.way[j]
      /\ \A j \in free : t.minv[j] = mv[j] - D
      /\ \A i \in DOMAIN s.u : t.u[i] = IF \E j \in used : s.p[j] = i THEN s.u[i] + D ELSE s.u[i]
      /\ \A j \in DOMAIN s.v : t.v[j] = IF j \in used THEN s.v[j] - D ELSE s.v[j]

LEMMA VisitStep ==
  ASSUME NEW m \in Nat \ {0}, NEW n \in Nat \ {0}, NEW work \in Matrix(m, n),
         NEW s \in SearchState(m, n), ~s.done, s.p[s.j0] \in 1..m,
         0 \in s.used \union {s.j0}, (0..n) \ (s.used \union {s.j0}) # {}
  PROVE  /\ Visit(work, s) \in SearchState(m, n)
         /\ \E mv \in [0..n -> Int], D \in Int : Visits(work, s, Visit(work, s), mv, D)
<1>w. DOMAIN s.way = 0..n
  BY DEF SearchState
<1> DEFINE used == s.used \union {s.j0}
           free == DOMAIN s.way \ used
           i0 == s.p[s.j0]
           cur == [j \in free |-> work[i0][j] - s.u[i0] - s.v[j]]
           nearer == {j \in free : s.used = {} \/ cur[j] < s.minv[j]}
           mv == [j \in DOMAIN s.minv |-> IF j \in nearer THEN cur[j] ELSE s.minv[j]]
           j1 == CHOOSE j \in free : \A k \in free : mv[j] < mv[k] \/ (mv[j] = mv[k] /\ j <= k)
           D == mv[j1]
           way == [j \in DOMAIN s.way |-> IF j \in nearer THEN s.j0 ELSE s.way[j]]
           minv == [j \in DOMAIN s.minv |-> IF j \in free THEN mv[j] - D ELSE s.minv[j]]
           u == [i \in DOMAIN s.u |-> IF \E j \in used : s.p[j] = i THEN s.u[i] + D ELSE s.u[i]]
           v == [j \in DOMAIN s.v |-> IF j \in used THEN s.v[j] - D ELSE s.v[j]]
           t == [u |-> u, v |-> v, p |-> s.p, way |-> way, minv |-> minv,
                     used |-> used, j0 |-> j1, done |-> s.p[j1] = 0]
<1>0. Visit(work, s) = [s EXCEPT !.used = used, !.way = way, !.minv = minv, !.u = u,
                                 !.v = v, !.j0 = j1, !.done = s.p[j1] = 0]
  BY <1>w DEF Visit
<1> HIDE DEF used, free, i0, cur, nearer, mv, j1, D, way, minv, u, v, t
<1>1. used = s.used \union {s.j0}
  BY DEF used
<1>2. free = (0..n) \ used
  BY <1>w DEF free
<1>3. i0 \in 1..m /\ i0 = s.p[s.j0]
  BY DEF i0
<1>4. /\ s.u \in [1..m -> Int] /\ s.v \in [0..n -> Int] /\ s.p \in [0..n -> 0..m]
      /\ s.way \in [0..n -> 0..n] /\ s.minv \in [0..n -> Int]
      /\ s.used \in SUBSET (0..n) /\ s.j0 \in 0..n /\ s.done \in BOOLEAN
      /\ s = [u |-> s.u, v |-> s.v, p |-> s.p, way |-> s.way, minv |-> s.minv,
              used |-> s.used, j0 |-> s.j0, done |-> s.done]
  BY DEF SearchState
<1>5. free \in SUBSET (1..n) /\ free # {} /\ used \in SUBSET (0..n) /\ free \in SUBSET (0..n)
  <2>1. used \in SUBSET (0..n)
    BY <1>1, <1>4
  <2>2. 0 \in used /\ free # {}
    BY <1>1, <1>2
  <2>3. \A j \in free : j \in 0..n /\ j # 0
    BY <1>2, <2>2
  <2> QED BY <2>1, <2>2, <2>3
<1>6. cur = [j \in free |-> work[i0][j] - s.u[i0] - s.v[j]]
  BY DEF cur
<1>7. cur \in [free -> Int]
  <2>1. ASSUME NEW j \in free PROVE work[i0][j] \in Int /\ s.u[i0] \in Int /\ s.v[j] \in Int
    <3>1. work[i0] \in [1..n -> Int] /\ j \in 1..n /\ j \in 0..n
      BY <1>3, <1>5 DEF Matrix
    <3> QED BY <1>3, <1>4, <3>1
  <2> QED BY <1>6, <2>1
<1>8. nearer = {j \in free : s.used = {} \/ cur[j] < s.minv[j]}
  BY DEF nearer
<1>9. mv = [j \in DOMAIN s.minv |-> IF j \in nearer THEN cur[j] ELSE s.minv[j]]
  BY DEF mv
<1>10. mv \in [0..n -> Int]
  BY <1>4, <1>7, <1>8, <1>9
<1>11. j1 = CHOOSE j \in free : \A k \in free : mv[j] < mv[k] \/ (mv[j] = mv[k] /\ j <= k)
  BY DEF j1
<1>12. j1 \in free /\ \A k \in free : mv[j1] < mv[k] \/ (mv[j1] = mv[k] /\ j1 <= k)
  <2>1. \E j \in free : \A k \in free : mv[j] < mv[k] \/ (mv[j] = mv[k] /\ j <= k)
    <3>1. \A j \in free : mv[j] \in Int
      BY <1>5, <1>10
    <3> QED BY <1>5, <3>1, LeastColumn
  <2> QED BY <1>11, <2>1
<1>13. D \in Int /\ D = mv[j1]
  BY <1>5, <1>10, <1>12 DEF D
<1>14. way = [j \in DOMAIN s.way |-> IF j \in nearer THEN s.j0 ELSE s.way[j]]
  BY DEF way
<1>15. minv = [j \in DOMAIN s.minv |-> IF j \in free THEN mv[j] - D ELSE s.minv[j]]
  BY DEF minv
<1>16. u = [i \in DOMAIN s.u |-> IF \E j \in used : s.p[j] = i THEN s.u[i] + D ELSE s.u[i]]
  BY DEF u
<1>17. v = [j \in DOMAIN s.v |-> IF j \in used THEN s.v[j] - D ELSE s.v[j]]
  BY DEF v
<1>18. t = [u |-> u, v |-> v, p |-> s.p, way |-> way, minv |-> minv,
                     used |-> used, j0 |-> j1, done |-> s.p[j1] = 0]
  BY DEF t
<1>19. Visit(work, s) = t
  BY <1>0, <1>4, <1>18
<1>20. t \in SearchState(m, n)
  <2>1. u \in [1..m -> Int] /\ v \in [0..n -> Int]
    <3>1. \A i \in 1..m : s.u[i] \in Int /\ s.u[i] + D \in Int
      <4>1. s.u \in [1..m -> Int] /\ D \in Int
        BY <1>4, <1>13
      <4> QED BY <4>1
    <3>2. ASSUME NEW j \in 0..n PROVE s.v[j] \in Int /\ s.v[j] - D \in Int
      <4>1. s.v \in [0..n -> Int] /\ D \in Int
        BY <1>4, <1>13
      <4> QED BY <4>1
    <3> QED BY <1>4, <1>16, <1>17, <3>1, <3>2
  <2>2. way \in [0..n -> 0..n] /\ minv \in [0..n -> Int]
    <3>1. \A j \in 0..n : s.way[j] \in 0..n /\ s.j0 \in 0..n
      BY <1>4
    <3>2. ASSUME NEW j \in 0..n PROVE s.minv[j] \in Int /\ mv[j] - D \in Int
      <4>1. s.minv \in [0..n -> Int]
        BY <1>4
      <4>2. s.minv[j] \in Int
        BY <4>1
      <4>3. mv[j] \in Int /\ D \in Int
        BY <1>10, <1>13
      <4> QED BY <4>2, <4>3
    <3> QED BY <1>4, <1>14, <1>15, <3>1, <3>2
  <2>3. j1 \in 0..n /\ (s.p[j1] = 0) \in BOOLEAN
    BY <1>5, <1>12
  <2> QED BY <1>4, <1>5, <1>18, <2>1, <2>2, <2>3 DEF SearchState
<1>21. /\ t.u = u /\ t.v = v /\ t.p = s.p /\ t.way = way /\ t.minv = minv
       /\ t.used = used /\ t.j0 = j1 /\ (t.done <=> s.p[j1] = 0)
  BY <1>18
<1>22. DOMAIN s.way = 0..n /\ DOMAIN s.u = 1..m /\ DOMAIN s.v = 0..n /\ DOMAIN s.minv = 0..n
  BY <1>4
<1>23. \A j \in free : cur[j] = Slack(work, s, i0, j)
  BY <1>6 DEF Slack
<1>24. \A j \in free : D <= mv[j]
  <2>1. \A j \in free : mv[j] \in Int
    BY <1>5, <1>10
  <2> QED BY <1>12, <1>13, <2>1
<1>25. ASSUME NEW j \in free
       PROVE  IF s.used = {} \/ Slack(work, s, i0, j) < s.minv[j]
              THEN mv[j] = Slack(work, s, i0, j) /\ way[j] = s.j0
              ELSE mv[j] = s.minv[j] /\ way[j] = s.way[j]
  <2>1. j \in DOMAIN s.way /\ j \in DOMAIN s.minv
    BY <1>5, <1>22
  <2> QED BY <1>8, <1>9, <1>14, <1>23, <2>1
<1>26. \A j \in used : way[j] = s.way[j]
  BY <1>2, <1>5, <1>8, <1>14, <1>22
<1>27. \A j \in free : minv[j] = mv[j] - D
  BY <1>5, <1>15, <1>22
<1>28. Visits(work, s, t, mv, D)
  <2>1. /\ s.used \union {s.j0} = used /\ DOMAIN s.way \ used = free /\ s.p[s.j0] = i0
        /\ DOMAIN s.u = 1..m /\ DOMAIN s.v = 0..n
    BY <1>1, <1>2, <1>3, <1>22
  <2>2. /\ t.p = s.p /\ t.used = used /\ t.j0 \in free /\ (t.done <=> s.p[t.j0] = 0)
        /\ D = mv[t.j0] /\ \A j \in free : D <= mv[j]
    BY <1>12, <1>13, <1>21, <1>24
  <2>3. /\ \A j \in free :
             IF s.used = {} \/ Slack(work, s, i0, j) < s.minv[j]
             THEN mv[j] = Slack(work, s, i0, j) /\ t.way[j] = s.j0
             ELSE mv[j] = s.minv[j] /\ t.way[j] = s.way[j]
        /\ \A j \in used : t.way[j] = s.way[j]
        /\ \A j \in free : t.minv[j] = mv[j] - D
    BY <1>21, <1>25, <1>26, <1>27
  <2>4. /\ \A i \in 1..m : t.u[i] = IF \E j \in used : s.p[j] = i THEN s.u[i] + D ELSE s.u[i]
        /\ \A j \in 0..n : t.v[j] = IF j \in used THEN s.v[j] - D ELSE s.v[j]
    BY <1>16, <1>17, <1>21, <1>22
  <2> QED BY <2>1, <2>2, <2>3, <2>4, SMTT(60) DEF Visits
<1>29. \E x \in [0..n -> Int], y \in Int : Visits(work, s, t, x, y)
  BY <1>10, <1>13, <1>28
<1> QED
  BY <1>19, <1>20, <1>29

-----------------------------------------------------------------------------
\* What the search keeps.

\* The columns are given the first k rows, each to one column.
RowsGiven(n, k, p) ==
  /\ \A j \in 1..n : p[j] \in 0..k
  /\ \A j, l \in 1..n : p[j] = p[l] /\ p[j] # 0 => j = l
  /\ \A r \in 1..k : \E j \in 1..n : p[j] = r

\* The potentials say that no way to give them costs less.
Priced(work, n, k, s) ==
  /\ \A r \in 1..k, j \in 1..n : Slack(work, s, r, j) >= 0
  /\ \A j \in 1..n : s.p[j] # 0 => Slack(work, s, s.p[j], j) = 0
  /\ \A j \in 1..n : s.v[j] <= 0 /\ (s.p[j] = 0 => s.v[j] = 0)

\* The columns of the tree, with the one found last: the way of each leads on into
\* the tree, without slack, and minv is the least slack from the tree.
Tree(work, n, i, s) ==
  /\ 0 \in s.used /\ s.j0 \in (0..n) \ s.used
  /\ \A j \in 1..n : Slack(work, s, i, j) >= 0
  /\ \A j \in (0..n) \ s.used :
       /\ s.way[j] \in s.used
       /\ s.minv[j] = Slack(work, s, s.p[s.way[j]], j) /\ s.minv[j] >= 0
       /\ \A l \in s.used : s.minv[j] <= Slack(work, s, s.p[l], j)
  /\ s.minv[s.j0] = 0
  /\ \A j \in s.used : j # 0 =>
       s.way[j] \in s.used /\ Slack(work, s, s.p[s.way[j]], j) = 0
  /\ s.done <=> s.p[s.j0] = 0

\* The rank of a column falls on the way to the dummy.
Ranked(n, rank, s) ==
  /\ rank \in [0..n -> Nat]
  /\ rank[s.j0] = Cardinality(s.used)
  /\ \A j \in s.used : rank[j] < Cardinality(s.used)
  /\ \A j \in s.used : j # 0 => rank[s.way[j]] < rank[j]

\* The search for row i.
Seeking(work, m, n, i, rank, s) ==
  /\ s \in SearchState(m, n)
  /\ s.p[0] = i
  /\ RowsGiven(n, i-1, s.p) /\ Priced(work, n, i-1, s)
  /\ \A j \in s.used : s.p[j] # 0
  /\ IF s.used = {} THEN s.j0 = 0 /\ ~s.done ELSE Tree(work, n, i, s)
  /\ Ranked(n, rank, s)

\* While the search goes on, a column is left to visit: those visited, and the one
\* found last, have different rows.
LEMMA ColumnsLeft ==
  ASSUME NEW m \in Nat \ {0}, NEW n \in Nat \ {0}, NEW i \in 1..m, i <= n, NEW work,
         NEW rank, NEW s, Seeking(work, m, n, i, rank, s), ~s.done
  PROVE  /\ Cardinality(s.used) \in Nat /\ Cardinality(s.used) < n /\ IsFiniteSet(s.used)
         /\ s.j0 \notin s.used
         /\ (0..n) \ (s.used \union {s.j0}) # {}
         /\ s.p[s.j0] # 0
<1>1. /\ s.used \in SUBSET (0..n) /\ s.j0 \in 0..n /\ s.p \in [0..n -> 0..m]
      /\ s.p[0] = i /\ \A j \in 1..n : s.p[j] \in 0..(i-1)
      /\ \A j, l \in 1..n : s.p[j] = s.p[l] /\ s.p[j] # 0 => j = l
  BY DEF Seeking, SearchState, RowsGiven
<1>2. s.j0 \notin s.used /\ s.p[s.j0] # 0
  <2>1. CASE s.used = {}
    <3>1. s.j0 = 0
      BY <2>1 DEF Seeking
    <3> QED BY <1>1, <2>1, <3>1
  <2>2. CASE s.used # {}
    BY <2>2 DEF Seeking, Tree
  <2> QED BY <2>1, <2>2
<1>3. PICK V : V = s.used \union {s.j0}
  OBVIOUS
<1>4. PICK f : f = [j \in V |-> s.p[j]]
  OBVIOUS
<1>5. V \in SUBSET (0..n) /\ \A j \in V : s.p[j] # 0
  BY <1>1, <1>2, <1>3 DEF Seeking
<1>6. ASSUME NEW j \in V PROVE f[j] \in 1..i
  <2>1. s.p[j] \in 0..i /\ s.p[j] # 0
    BY <1>1, <1>5
  <2> QED BY <1>4, <2>1
<1>7. ASSUME NEW j \in V, NEW l \in V, f[j] = f[l] PROVE j = l
  <2>1. s.p[j] = s.p[l] /\ s.p[j] # 0 /\ j \in 0..n /\ l \in 0..n
    BY <1>4, <1>5, <1>7
  <2>2. \A x, y \in 1..n : s.p[x] = s.p[y] /\ s.p[x] # 0 => x = y
    BY <1>1
  <2>3. \A x \in 1..n : s.p[x] # i
    <3>1. \A x \in 1..n : s.p[x] \in 0..(i-1)
      BY <1>1
    <3> QED BY <3>1
  <2>4. s.p[0] = i /\ \A x \in 0..n : x = 0 \/ x \in 1..n
    BY <1>1
  <2> QED BY <2>1, <2>2, <2>3, <2>4
<1>8. f \in Injection(V, 1..i)
  BY <1>4, <1>6, <1>7 DEF Injection, IsInjective
<1>9. IsFiniteSet(V) /\ Cardinality(V) <= i
  <2>1. IsFiniteSet(1..i) /\ Cardinality(1..i) = i
    BY FS_Interval
  <2> QED BY <1>8, <2>1, FS_Injection
<1>10. IsFiniteSet(0..n) /\ Cardinality(0..n) = n + 1
  BY FS_Interval
<1>11. IsFiniteSet(s.used) /\ Cardinality(s.used) \in Nat
  BY <1>1, <1>10, FS_Subset, FS_CardinalityType
<1>12. Cardinality(V) = Cardinality(s.used) + 1
  BY <1>2, <1>3, <1>11, FS_AddElement
<1>13. V # 0..n
  BY <1>9, <1>10
<1>14. Cardinality(s.used) < n
  BY <1>9, <1>11, <1>12
<1>15. (0..n) \ V # {}
  BY <1>5, <1>13
<1> QED
  BY <1>2, <1>3, <1>11, <1>14, <1>15

SlackMoved(work, s, t, D, r, j) ==
  /\ Slack(work, s, r, j) \in Int
  /\ Slack(work, t, r, j) =
       Slack(work, s, r, j) - (IF \E l \in t.used : s.p[l] = r THEN D ELSE 0)
                            + (IF j \in t.used THEN D ELSE 0)

\* A visit lowers the slack of a pair whose row is in the tree by D, and raises
\* that of one whose column is in it.
LEMMA SlackMoves ==
  ASSUME NEW m \in Nat \ {0}, NEW n \in Nat \ {0}, NEW work \in Matrix(m, n),
         NEW s \in SearchState(m, n), NEW t \in SearchState(m, n), NEW mv, NEW D \in Int,
         Visits(work, s, t, mv, D), NEW r \in 1..m, NEW j \in 1..n
  PROVE  SlackMoved(work, s, t, D, r, j)
<1>1. s.u \in [1..m -> Int] /\ s.v \in [0..n -> Int] /\ DOMAIN s.u = 1..m /\ DOMAIN s.v = 0..n
  BY DEF SearchState
<1>2. work[r] \in [1..n -> Int]
  BY DEF Matrix
<1>3. work[r][j] \in Int /\ s.u[r] \in Int /\ s.v[j] \in Int
  <2>1. work[r][j] \in Int
    BY <1>2
  <2>2. s.u[r] \in Int
    BY <1>1
  <2>3. j \in 0..n
    OBVIOUS
  <2>4. s.v[j] \in Int
    BY <1>1, <2>3
  <2> QED BY <2>1, <2>2, <2>4
<1>4. /\ t.u[r] = IF \E l \in t.used : s.p[l] = r THEN s.u[r] + D ELSE s.u[r]
      /\ t.v[j] = IF j \in t.used THEN s.v[j] - D ELSE s.v[j]
  <2>1. r \in DOMAIN s.u /\ j \in DOMAIN s.v
    BY <1>1
  <2>2. t.used = s.used \union {s.j0}
    BY DEF Visits
  <2>3. t.u[r] = IF \E l \in t.used : s.p[l] = r THEN s.u[r] + D ELSE s.u[r]
    BY <2>1, <2>2 DEF Visits
  <2>4. t.v[j] = IF j \in t.used THEN s.v[j] - D ELSE s.v[j]
    BY <2>1, <2>2 DEF Visits
  <2> QED BY <2>3, <2>4
<1> QED
  BY <1>3, <1>4 DEF Slack, SlackMoved

\* The slack of the columns left before the potentials change, and the way to them.
LEMMA VisitFinds ==
  ASSUME NEW m \in Nat \ {0}, NEW n \in Nat \ {0}, NEW work \in Matrix(m, n),
         NEW i \in 1..m, NEW rank, NEW s, Seeking(work, m, n, i, rank, s), ~s.done,
         s.p[s.j0] \in 1..m,
         NEW t, NEW mv, NEW D \in Int, t \in SearchState(m, n), Visits(work, s, t, mv, D),
         NEW j \in (0..n) \ t.used
  PROVE  /\ j \in 1..n
         /\ t.way[j] \in t.used
         /\ mv[j] = Slack(work, s, s.p[t.way[j]], j)
         /\ \A l \in t.used : mv[j] <= Slack(work, s, s.p[l], j)
<1>1. /\ s \in SearchState(m, n) /\ s.used \in SUBSET (0..n) /\ s.p \in [0..n -> 0..m]
      /\ s.way \in [0..n -> 0..n] /\ DOMAIN s.way = 0..n /\ s.j0 \in 0..n
      /\ t.used = s.used \union {s.j0}
      /\ s.minv \in [0..n -> Int]
  BY DEF Seeking, SearchState, Visits
<1>2. /\ IF s.used = {} \/ Slack(work, s, s.p[s.j0], j) < s.minv[j]
         THEN mv[j] = Slack(work, s, s.p[s.j0], j) /\ t.way[j] = s.j0
         ELSE mv[j] = s.minv[j] /\ t.way[j] = s.way[j]
  BY <1>1 DEF Visits
<1>3. 0 \in t.used
  <2>1. CASE s.used = {}
    BY <1>1, <2>1 DEF Seeking
  <2>2. CASE s.used # {}
    BY <1>1, <2>2 DEF Seeking, Tree
  <2> QED BY <2>1, <2>2
<1>4. j \in 1..n
  BY <1>3
<1>5. Slack(work, s, s.p[s.j0], j) \in Int /\ s.minv[j] \in Int
  <2>1. j \in 0..n
    OBVIOUS
  <2>2. s.minv[j] \in Int
    BY <1>1, <2>1
  <2>3. Slack(work, s, s.p[s.j0], j) \in Int
    <3>1. SlackMoved(work, s, t, D, s.p[s.j0], j)
      BY <1>1, <1>4, SlackMoves
    <3> QED BY <3>1 DEF SlackMoved
  <2> QED BY <2>2, <2>3
<1>6. CASE s.used = {}
  <2>1. t.used = {s.j0}
    BY <1>1, <1>6
  <2>2. mv[j] = Slack(work, s, s.p[s.j0], j) /\ t.way[j] = s.j0
    BY <1>2, <1>6
  <2>3. mv[j] <= Slack(work, s, s.p[s.j0], j)
    BY <1>5, <2>2
  <2> QED BY <1>4, <2>1, <2>2, <2>3
<1>7. CASE s.used # {}
  <2>1. /\ s.way[j] \in s.used
        /\ s.minv[j] = Slack(work, s, s.p[s.way[j]], j)
        /\ \A l \in s.used : s.minv[j] <= Slack(work, s, s.p[l], j)
    BY <1>1, <1>7 DEF Seeking, Tree
  <2>2. ASSUME NEW l \in t.used PROVE mv[j] <= Slack(work, s, s.p[l], j)
    <3>1. CASE l = s.j0
      BY <1>2, <1>5, <3>1
    <3>2. CASE l \in s.used
      <4>1. s.p[l] \in 1..m
        <5>1. s.p[l] # 0 /\ s.p[l] \in 0..m
          BY <1>1, <3>2 DEF Seeking
        <5> QED BY <5>1
      <4>2. Slack(work, s, s.p[l], j) \in Int
        <5>1. SlackMoved(work, s, t, D, s.p[l], j)
          BY <1>1, <1>4, <4>1, SlackMoves
        <5> QED BY <5>1 DEF SlackMoved
      <4> QED BY <1>2, <1>5, <2>1, <3>2, <4>2
    <3> QED BY <1>1, <3>1, <3>2
  <2> QED BY <1>1, <1>2, <1>4, <2>1, <2>2
<1> QED
  BY <1>6, <1>7

\* A visit keeps the columns left out of reach of negative slack, and changes the
\* potentials upwards, but in the first round, which brings row i in.
LEMMA VisitRises ==
  ASSUME NEW m \in Nat \ {0}, NEW n \in Nat \ {0}, NEW work \in Matrix(m, n),
         NEW i \in 1..m, NEW rank, NEW s, Seeking(work, m, n, i, rank, s), ~s.done,
         s.p[s.j0] \in 1..m,
         NEW t, NEW mv, NEW D \in Int, t \in SearchState(m, n), Visits(work, s, t, mv, D),
         s.used # {}
  PROVE  D >= 0
<1>1. /\ t.j0 \in (0..n) \ t.used /\ D = mv[t.j0] /\ t.used = s.used \union {s.j0}
  BY DEF Visits, Seeking, SearchState
<1>2. /\ t.j0 \in 1..n /\ t.way[t.j0] \in t.used
      /\ D = Slack(work, s, s.p[t.way[t.j0]], t.j0)
  BY <1>1, VisitFinds
<1>3. PICK l \in t.used : l = t.way[t.j0]
  BY <1>2
<1>4. /\ s.p \in [0..n -> 0..m] /\ s.used \in SUBSET (0..n) /\ s.j0 \in 0..n
      /\ \A j \in 1..n : s.p[j] \in 0..(i-1)
      /\ s.p[0] = i
  BY DEF Seeking, SearchState, RowsGiven
<1>5. s.p[l] \in 1..(i-1) \/ s.p[l] = i
  <2>1. l \in 0..n
    BY <1>1, <1>3, <1>4
  <2>2. s.p[l] # 0
    <3>1. l = s.j0 \/ l \in s.used
      BY <1>1
    <3>2. s.p[s.j0] # 0
      OBVIOUS
    <3> QED BY <3>1, <3>2 DEF Seeking
  <2>3. CASE l = 0
    BY <1>4, <2>3
  <2>4. CASE l # 0
    <3>1. l \in 1..n
      BY <2>1, <2>4
    <3>2. s.p[l] \in 0..(i-1)
      BY <1>4, <3>1
    <3> QED BY <2>2, <3>2
  <2> QED BY <2>3, <2>4
<1>6. CASE s.p[l] = i
  BY <1>2, <1>3, <1>6 DEF Seeking, Tree
<1>7. CASE s.p[l] \in 1..(i-1)
  BY <1>2, <1>3, <1>7 DEF Seeking, Priced
<1> QED
  BY <1>5, <1>6, <1>7

LEMMA VisitPriced ==
  ASSUME NEW m \in Nat \ {0}, NEW n \in Nat \ {0}, NEW work \in Matrix(m, n),
         NEW i \in 1..m, NEW rank, NEW s, Seeking(work, m, n, i, rank, s), ~s.done,
         s.p[s.j0] \in 1..m,
         NEW t, NEW mv, NEW D \in Int, t \in SearchState(m, n), Visits(work, s, t, mv, D)
  PROVE  /\ Priced(work, n, i-1, t)
         /\ \A j \in 1..n : Slack(work, t, i, j) >= 0
<1>1. /\ s \in SearchState(m, n) /\ s.p \in [0..n -> 0..m] /\ s.used \in SUBSET (0..n)
      /\ s.j0 \in 0..n /\ s.v \in [0..n -> Int] /\ DOMAIN s.v = 0..n /\ DOMAIN s.way = 0..n
      /\ t.p = s.p /\ t.used = s.used \union {s.j0}
      /\ s.p[0] = i
      /\ \A j \in 1..n : s.p[j] \in 0..(i-1)
      /\ \A j, l \in 1..n : s.p[j] = s.p[l] /\ s.p[j] # 0 => j = l
  BY DEF Seeking, SearchState, RowsGiven, Visits
<1>0. ASSUME NEW r \in 1..m, NEW j \in 1..n
      PROVE  /\ Slack(work, s, r, j) \in Int
             /\ Slack(work, t, r, j) =
                  Slack(work, s, r, j) - (IF \E l \in t.used : s.p[l] = r THEN D ELSE 0)
                                       + (IF j \in t.used THEN D ELSE 0)
  <2>1. s \in SearchState(m, n)
    BY <1>1
  <2>2. SlackMoved(work, s, t, D, r, j)
    BY <2>1, SlackMoves
  <2> QED BY <2>2 DEF SlackMoved
<1>2. /\ \A r \in 1..i-1, j \in 1..n : Slack(work, s, r, j) >= 0
      /\ \A j \in 1..n : s.p[j] # 0 => Slack(work, s, s.p[j], j) = 0
      /\ \A j \in 1..n : s.v[j] <= 0 /\ (s.p[j] = 0 => s.v[j] = 0)
  BY DEF Seeking, Priced
<1>3. \A j \in 0..n : t.v[j] = IF j \in t.used THEN s.v[j] - D ELSE s.v[j]
  BY <1>1 DEF Visits
<1>4. \A j \in t.used : s.p[j] # 0
  <2>1. s.p[s.j0] # 0
    OBVIOUS
  <2> QED BY <1>1, <2>1 DEF Seeking
<1>5. \A j \in 1..n : j \in t.used => D >= 0
  <2>1. ASSUME NEW j \in 1..n, j \in t.used, s.used = {} PROVE FALSE
    <3>1. s.j0 = 0
      BY <2>1 DEF Seeking
    <3> QED BY <1>1, <2>1, <3>1
  <2> QED BY <2>1, VisitRises
<1>6. ASSUME NEW r \in 1..i, NEW j \in 1..n
      PROVE  Slack(work, t, r, j) >= 0
  <2>1. /\ r \in 1..m /\ Slack(work, s, r, j) \in Int
        /\ Slack(work, t, r, j) =
              Slack(work, s, r, j) - (IF \E l \in t.used : s.p[l] = r THEN D ELSE 0)
                                   + (IF j \in t.used THEN D ELSE 0)
    <3>1. r \in 1..m
      OBVIOUS
    <3> QED BY <3>1, <1>0
  <2>2. CASE \E l \in t.used : s.p[l] = r
    <3>1. PICK l \in t.used : s.p[l] = r
      BY <2>2
    <3>2. CASE j \in t.used
      <4>1. Slack(work, t, r, j) = Slack(work, s, r, j)
        BY <2>1, <2>2, <3>2
      <4>2. s.used # {}
        <5>1. s.used = {} => s.j0 = 0
          BY DEF Seeking
        <5> QED BY <1>1, <3>2, <5>1
      <4>3. CASE r = i
        BY <4>1, <4>2, <4>3 DEF Seeking, Tree
      <4>4. CASE r # i
        <5>1. r \in 1..i-1
          BY <4>4
        <5> QED BY <1>2, <4>1, <5>1
      <4> QED BY <4>3, <4>4
    <3>3. CASE j \notin t.used
      <4>1. j \in (0..n) \ t.used
        BY <3>3
      <4>2. mv[j] <= Slack(work, s, s.p[l], j)
        BY <3>1, <4>1, VisitFinds
      <4>3. D <= mv[j]
        BY <1>1, <4>1 DEF Visits
      <4>4. mv[j] \in Int
        <5>1. /\ t.way[j] \in t.used
              /\ mv[j] = Slack(work, s, s.p[t.way[j]], j)
          BY <4>1, VisitFinds
        <5>2. s.p[t.way[j]] \in 1..m
          <6>1. t.way[j] \in 0..n
            BY <1>1, <5>1
          <6>2. s.p[t.way[j]] \in 0..m /\ s.p[t.way[j]] # 0
            BY <1>1, <1>4, <5>1, <6>1
          <6> QED BY <6>2
        <5>3. j \in 1..n
          OBVIOUS
        <5> QED BY <5>1, <5>2, <5>3, <1>0
      <4> QED BY <2>1, <2>2, <3>1, <3>3, <4>2, <4>3, <4>4
    <3> QED BY <3>2, <3>3
  <2>3. CASE ~ \E l \in t.used : s.p[l] = r
    <3>1. 0 \in t.used
      <4>1. CASE s.used = {}
        BY <1>1, <4>1 DEF Seeking
      <4>2. CASE s.used # {}
        BY <1>1, <4>2 DEF Seeking, Tree
      <4> QED BY <4>1, <4>2
    <3>2. r \in 1..i-1
      <4>1. s.p[0] = i
        BY <1>1
      <4>2. r # i
        BY <2>3, <3>1, <4>1
      <4> QED BY <4>2
    <3>3. Slack(work, s, r, j) >= 0
      BY <1>2, <3>2
    <3>4. Slack(work, t, r, j) = Slack(work, s, r, j) + (IF j \in t.used THEN D ELSE 0)
      BY <2>1, <2>3
    <3>5. CASE j \in t.used
      BY <1>5, <2>1, <3>3, <3>4, <3>5
    <3>6. CASE j \notin t.used
      BY <2>1, <3>3, <3>4, <3>6
    <3> QED BY <3>5, <3>6
  <2> QED BY <2>2, <2>3
<1>7. ASSUME NEW j \in 1..n, t.p[j] # 0
      PROVE  Slack(work, t, t.p[j], j) = 0
  <2>1. s.p[j] \in 1..m /\ s.p[j] \in 1..i-1 /\ Slack(work, s, s.p[j], j) = 0
    <3>1. s.p[j] \in 0..(i-1) /\ s.p[j] # 0
      BY <1>1, <1>7
    <3> QED BY <1>2, <3>1
  <2>2. Slack(work, t, s.p[j], j) =
          0 - (IF \E l \in t.used : s.p[l] = s.p[j] THEN D ELSE 0)
            + (IF j \in t.used THEN D ELSE 0)
    BY <2>1, <1>0
  <2>3. (\E l \in t.used : s.p[l] = s.p[j]) <=> j \in t.used
    <3>1. ASSUME NEW l \in t.used, s.p[l] = s.p[j] PROVE j \in t.used
      <4>1. l # 0
        <5>1. s.p[j] # i
          BY <2>1
        <5> QED BY <1>1, <3>1, <5>1
      <4>2. l \in 1..n
        <5>1. l \in 0..n
          BY <1>1
        <5> QED BY <4>1, <5>1
      <4>3. \A x, y \in 1..n : s.p[x] = s.p[y] /\ s.p[x] # 0 => x = y
        BY <1>1
      <4>4. s.p[l] # 0
        BY <2>1, <3>1
      <4>5. l = j
        BY <3>1, <4>2, <4>3, <4>4
      <4> QED BY <4>5
    <3> QED BY <3>1
  <2>4. Slack(work, t, s.p[j], j) = 0
    <3>1. CASE j \in t.used
      BY <2>2, <2>3, <3>1
    <3>2. CASE j \notin t.used
      BY <2>2, <2>3, <3>2
    <3> QED BY <3>1, <3>2
  <2> QED BY <1>1, <2>4
<1>8. ASSUME NEW j \in 1..n
      PROVE  t.v[j] <= 0 /\ (t.p[j] = 0 => t.v[j] = 0)
  <2>1. j \in 0..n
    OBVIOUS
  <2>2. s.v[j] \in Int
    BY <1>1, <2>1
  <2>3. s.v[j] <= 0 /\ (s.p[j] = 0 => s.v[j] = 0)
    BY <1>2
  <2>4. CASE j \in t.used
    <3>1. D >= 0 /\ s.p[j] # 0
      BY <1>4, <1>5, <2>4
    <3>2. t.v[j] = s.v[j] - D
      BY <1>3, <2>1, <2>4
    <3>3. t.v[j] <= 0
      BY <2>2, <2>3, <3>1, <3>2
    <3> QED BY <1>1, <3>1, <3>3
  <2>5. CASE j \notin t.used
    BY <1>1, <1>3, <2>1, <2>3, <2>5
  <2> QED BY <2>4, <2>5
<1>9. \A r \in 1..i-1 : r \in 1..i
  OBVIOUS
<1>10. i \in 1..i
  OBVIOUS
<1> QED
  BY <1>6, <1>7, <1>8, <1>9, <1>10 DEF Priced

\* A visit keeps the tree a tree, with the least slack of every column left, and
\* ranks the column it finds behind all others.
LEMMA VisitTree ==
  ASSUME NEW m \in Nat \ {0}, NEW n \in Nat \ {0}, NEW work \in Matrix(m, n),
         NEW i \in 1..m, i <= n, NEW rank, NEW s, Seeking(work, m, n, i, rank, s), ~s.done,
         s.p[s.j0] \in 1..m,
         NEW t, NEW mv, NEW D \in Int, t \in SearchState(m, n), Visits(work, s, t, mv, D),
         NEW rk, rk = [rank EXCEPT ![t.j0] = Cardinality(t.used)]
  PROVE  Tree(work, n, i, t) /\ Ranked(n, rk, t)
<1>1. /\ s \in SearchState(m, n) /\ s.p \in [0..n -> 0..m] /\ s.used \in SUBSET (0..n)
      /\ s.j0 \in 0..n /\ DOMAIN s.way = 0..n /\ s.way \in [0..n -> 0..n]
      /\ t.p = s.p /\ t.used = s.used \union {s.j0}
      /\ t.j0 \in (0..n) \ t.used /\ (t.done <=> s.p[t.j0] = 0)
      /\ D = mv[t.j0] /\ \A j \in (0..n) \ t.used : D <= mv[j]
      /\ \A j \in (0..n) \ t.used : t.minv[j] = mv[j] - D
      /\ \A j \in t.used : t.way[j] = s.way[j]
  BY DEF Seeking, SearchState, Visits
<1>2. ASSUME NEW r \in 1..m, NEW j \in 1..n
      PROVE  /\ Slack(work, s, r, j) \in Int
             /\ Slack(work, t, r, j) =
                  Slack(work, s, r, j) - (IF \E l \in t.used : s.p[l] = r THEN D ELSE 0)
                                       + (IF j \in t.used THEN D ELSE 0)
  <2>1. s \in SearchState(m, n)
    BY <1>1
  <2>2. SlackMoved(work, s, t, D, r, j)
    BY <2>1, SlackMoves
  <2> QED BY <2>2 DEF SlackMoved
<1>3. 0 \in t.used
  <2>1. CASE s.used = {}
    BY <1>1, <2>1 DEF Seeking
  <2>2. CASE s.used # {}
    BY <1>1, <2>2 DEF Seeking, Tree
  <2> QED BY <2>1, <2>2
<1>4. \A l \in t.used : s.p[l] \in 1..m
  <2>1. ASSUME NEW l \in s.used PROVE s.p[l] \in 1..m
    <3>1. s.p[l] # 0 /\ s.p[l] \in 0..m
      BY <1>1 DEF Seeking
    <3> QED BY <3>1
  <2> QED BY <1>1, <2>1
<1>5. ASSUME NEW l \in t.used, NEW j \in 1..n
      PROVE  /\ Slack(work, s, s.p[l], j) \in Int
             /\ j \in t.used => Slack(work, t, s.p[l], j) = Slack(work, s, s.p[l], j)
             /\ j \notin t.used => Slack(work, t, s.p[l], j) = Slack(work, s, s.p[l], j) - D
  <2>1. s.p[l] \in 1..m /\ \E x \in t.used : s.p[x] = s.p[l]
    BY <1>4
  <2>2. /\ Slack(work, s, s.p[l], j) \in Int
        /\ Slack(work, t, s.p[l], j) = Slack(work, s, s.p[l], j) - D + (IF j \in t.used THEN D ELSE 0)
    BY <1>2, <2>1
  <2>3. CASE j \in t.used
    BY <2>2, <2>3
  <2>4. CASE j \notin t.used
    BY <2>2, <2>4
  <2> QED BY <2>2, <2>3, <2>4
<1>6. ASSUME NEW j \in (0..n) \ t.used
      PROVE  /\ t.way[j] \in t.used
             /\ t.minv[j] = Slack(work, t, t.p[t.way[j]], j) /\ t.minv[j] >= 0
             /\ \A l \in t.used : t.minv[j] <= Slack(work, t, t.p[l], j)
  <2>1. /\ j \in 1..n /\ t.way[j] \in t.used
        /\ mv[j] = Slack(work, s, s.p[t.way[j]], j)
        /\ \A l \in t.used : mv[j] <= Slack(work, s, s.p[l], j)
    BY VisitFinds
  <2>2. D <= mv[j] /\ t.minv[j] = mv[j] - D
    BY <1>1
  <2>3. mv[j] \in Int /\ Slack(work, t, s.p[t.way[j]], j) = mv[j] - D
    BY <1>5, <2>1
  <2>4. ASSUME NEW l \in t.used PROVE t.minv[j] <= Slack(work, t, s.p[l], j)
    <3>1. /\ Slack(work, s, s.p[l], j) \in Int
          /\ Slack(work, t, s.p[l], j) = Slack(work, s, s.p[l], j) - D
          /\ mv[j] <= Slack(work, s, s.p[l], j)
      BY <1>5, <2>1
    <3> QED BY <2>2, <2>3, <3>1
  <2>5. t.minv[j] >= 0
    BY <2>2, <2>3
  <2> QED BY <1>1, <2>1, <2>2, <2>3, <2>4, <2>5
<1>7. t.minv[t.j0] = 0
  <2>1. t.minv[t.j0] = D - D
    BY <1>1
  <2> QED BY <2>1
<1>8. ASSUME NEW j \in t.used, j # 0
      PROVE  /\ t.way[j] \in s.used
             /\ Slack(work, t, t.p[t.way[j]], j) = 0
  <2>1. s.used # {}
    <3>1. s.used = {} => s.j0 = 0
      BY DEF Seeking
    <3> QED BY <1>1, <1>8, <3>1
  <2>2. s.way[j] \in s.used /\ Slack(work, s, s.p[s.way[j]], j) = 0
    <3>1. CASE j \in s.used
      BY <1>8, <2>1, <3>1 DEF Seeking, Tree
    <3>2. CASE j = s.j0
      BY <2>1, <3>2 DEF Seeking, Tree
    <3> QED BY <1>1, <3>1, <3>2
  <2>3. j \in 1..n
    <3>1. j \in 0..n
      BY <1>1
    <3> QED BY <1>8, <3>1
  <2>4. s.way[j] \in t.used
    BY <1>1, <2>2
  <2>5. Slack(work, t, s.p[s.way[j]], j) = Slack(work, s, s.p[s.way[j]], j)
    BY <1>5, <2>3, <2>4
  <2> QED BY <1>1, <2>2, <2>5
<1>9. \A j \in 1..n : Slack(work, t, i, j) >= 0
  BY VisitPriced
<1>10. Tree(work, n, i, t)
  BY <1>1, <1>3, <1>6, <1>7, <1>8, <1>9 DEF Tree
<1>11. /\ Cardinality(s.used) \in Nat /\ IsFiniteSet(s.used) /\ s.j0 \notin s.used
       /\ Cardinality(t.used) = Cardinality(s.used) + 1
  <2>1. Cardinality(s.used) \in Nat /\ IsFiniteSet(s.used) /\ s.j0 \notin s.used
    BY ColumnsLeft
  <2>2. Cardinality(s.used \union {s.j0}) = Cardinality(s.used) + 1
    BY <2>1, FS_AddElement
  <2> QED BY <1>1, <2>1, <2>2
<1>12. /\ rank \in [0..n -> Nat] /\ rank[s.j0] = Cardinality(s.used)
       /\ \A j \in s.used : rank[j] < Cardinality(s.used)
       /\ \A j \in s.used : j # 0 => rank[s.way[j]] < rank[j]
  BY DEF Seeking, Ranked
<1>13. rk \in [0..n -> Nat] /\ rk[t.j0] = Cardinality(t.used)
       /\ \A j \in t.used : rk[j] = rank[j]
  <2>1. \A j \in t.used : j \in 0..n /\ j # t.j0
    BY <1>1
  <2>2. PICK c \in Nat : c = Cardinality(t.used)
    BY <1>11
  <2>3. rk = [rank EXCEPT ![t.j0] = c]
    BY <2>2
  <2>4. t.j0 \in 0..n /\ rank \in [0..n -> Nat]
    BY <1>1, <1>12
  <2>5. rk \in [0..n -> Nat] /\ rk[t.j0] = c
    BY <2>3, <2>4
  <2> QED BY <2>1, <2>2, <2>3, <2>4, <2>5
<1>14. \A j \in t.used : rk[j] < Cardinality(t.used)
  <2>1. ASSUME NEW j \in t.used PROVE rank[j] <= Cardinality(s.used) /\ rank[j] \in Nat
    <3>1. j \in 0..n /\ (j \in s.used \/ j = s.j0)
      BY <1>1
    <3>2. rank[j] \in Nat
      BY <1>12, <3>1
    <3>3. CASE j = s.j0
      BY <1>11, <1>12, <3>2, <3>3
    <3>4. CASE j \in s.used
      BY <1>11, <1>12, <3>2, <3>4
    <3> QED BY <3>1, <3>2, <3>3, <3>4
  <2> QED BY <1>11, <1>13, <2>1
<1>15. ASSUME NEW j \in t.used, j # 0 PROVE rk[t.way[j]] < rk[j]
  <2>1. t.way[j] = s.way[j] /\ s.way[j] \in s.used /\ s.way[j] \in t.used
    BY <1>1, <1>8, <1>15
  <2>2. rk[t.way[j]] = rank[s.way[j]] /\ rk[j] = rank[j]
    BY <1>13, <2>1
  <2>3. CASE j \in s.used
    BY <1>12, <1>15, <2>2, <2>3
  <2>4. CASE j = s.j0
    BY <1>12, <2>1, <2>2, <2>4
  <2> QED BY <1>1, <2>3, <2>4
<1>16. Ranked(n, rk, t)
  BY <1>13, <1>14, <1>15 DEF Ranked
<1> QED
  BY <1>10, <1>16

\* A visit goes on with the search.
LEMMA VisitKeeps ==
  ASSUME NEW m \in Nat \ {0}, NEW n \in Nat \ {0}, NEW work \in Matrix(m, n),
         NEW i \in 1..m, i <= n, NEW rank, NEW s, Seeking(work, m, n, i, rank, s), ~s.done
  PROVE  /\ \E rk : Seeking(work, m, n, i, rk, Visit(work, s))
         /\ Visit(work, s).used = s.used \union {s.j0}
<1>1. s \in SearchState(m, n) /\ s.p \in [0..n -> 0..m] /\ s.j0 \in 0..n
      /\ s.used \in SUBSET (0..n)
  BY DEF Seeking, SearchState
<1>2. (0..n) \ (s.used \union {s.j0}) # {} /\ s.p[s.j0] # 0
  BY ColumnsLeft
<1>3. s.p[s.j0] \in 1..m
  <2>1. s.p[s.j0] \in 0..m
    BY <1>1
  <2> QED BY <1>2, <2>1
<1>4. 0 \in s.used \union {s.j0}
  <2>1. CASE s.used = {}
    BY <2>1 DEF Seeking
  <2>2. CASE s.used # {}
    BY <2>2 DEF Seeking, Tree
  <2> QED BY <2>1, <2>2
<1>5. PICK t : t = Visit(work, s)
  OBVIOUS
<1>6. t \in SearchState(m, n) /\ \E mv \in [0..n -> Int], D \in Int : Visits(work, s, t, mv, D)
  BY <1>1, <1>2, <1>3, <1>4, <1>5, VisitStep
<1>7. PICK mv \in [0..n -> Int], D \in Int : Visits(work, s, t, mv, D)
  BY <1>6
<1>8. PICK rk : rk = [rank EXCEPT ![t.j0] = Cardinality(t.used)]
  OBVIOUS
<1>9. Tree(work, n, i, t) /\ Ranked(n, rk, t)
  BY <1>3, <1>6, <1>7, <1>8, VisitTree
<1>10. Priced(work, n, i-1, t)
  BY <1>3, <1>6, <1>7, VisitPriced
<1>11. t.p = s.p /\ t.used = s.used \union {s.j0}
  BY <1>7 DEF Visits
<1>12. t.used # {} /\ \A j \in t.used : t.p[j] # 0
  BY <1>2, <1>11 DEF Seeking
<1>13. s.p[0] = i /\ RowsGiven(n, i-1, s.p)
  BY DEF Seeking
<1>14. Seeking(work, m, n, i, rk, t)
  BY <1>6, <1>9, <1>10, <1>11, <1>12, <1>13 DEF Seeking
<1> QED
  BY <1>5, <1>11, <1>14

-----------------------------------------------------------------------------
\* The search ends.

LEMMA SearchBegins ==
  ASSUME NEW m \in Nat \ {0}, NEW n \in Nat \ {0}, NEW work \in Matrix(m, n),
         NEW i \in 1..m, i <= n, NEW s \in SearchState(m, n),
         RowsGiven(n, i-1, s.p), Priced(work, n, i-1, s)
  PROVE  Begin(s, i) \in SearchState(m, n)
         /\ \E rk : Seeking(work, m, n, i, rk, Begin(s, i))
         /\ Begin(s, i).used = {}
<1>1. PICK t : t = Begin(s, i)
  OBVIOUS
<1>2. /\ t.u = s.u /\ t.v = s.v /\ t.p = [s.p EXCEPT ![0] = i] /\ t.used = {} /\ t.j0 = 0
      /\ t.done = FALSE /\ t \in SearchState(m, n)
  <2>1. i \in 0..m /\ 0 \in 0..n
    OBVIOUS
  <2> QED BY <1>1, <2>1 DEF Begin, SearchState
<1>3. s.p \in [0..n -> 0..m]
  BY DEF SearchState
<1>4. t.p[0] = i /\ \A j \in 1..n : t.p[j] = s.p[j]
  <2>1. 0 \in 0..n /\ \A j \in 1..n : j \in 0..n /\ j # 0
    OBVIOUS
  <2> QED BY <1>2, <1>3, <2>1
<1>5. RowsGiven(n, i-1, t.p)
  BY <1>4 DEF RowsGiven
<1>6. Priced(work, n, i-1, t)
  BY <1>2, <1>4 DEF Priced, Slack
<1>7. PICK rk : rk = [j \in 0..n |-> 0]
  OBVIOUS
<1>8. Ranked(n, rk, t)
  <2>1. Cardinality(t.used) = 0
    BY <1>2, FS_EmptySet
  <2>2. rk \in [0..n -> Nat] /\ rk[t.j0] = 0
    BY <1>2, <1>7
  <2> QED BY <1>2, <2>1, <2>2 DEF Ranked
<1>9. Seeking(work, m, n, i, rk, t)
  BY <1>2, <1>4, <1>5, <1>6, <1>8 DEF Seeking
<1> QED BY <1>1, <1>2, <1>9

\* The search for a row ends with a column that has none, after no more rounds
\* than there are columns.
LEMMA SearchEnds ==
  ASSUME NEW m \in Nat \ {0}, NEW n \in Nat \ {0}, NEW work \in Matrix(m, n),
         NEW i \in 1..m, i <= n, NEW s \in SearchState(m, n),
         RowsGiven(n, i-1, s.p), Priced(work, n, i-1, s)
  PROVE  /\ \E rk : Seeking(work, m, n, i, rk, Searched(work, s, i))
         /\ Searched(work, s, i).done
<1>a. Begin(s, i) \in SearchState(m, n) /\ (\E rk : Seeking(work, m, n, i, rk, Begin(s, i)))
      /\ Begin(s, i).used = {}
  BY SearchBegins
<1>b. DOMAIN work[1] = 1..n
  <2>1. 1 \in 1..m
    OBVIOUS
  <2> QED BY <2>1 DEF Matrix
<1> DEFINE Step(v, o) == Visit(work, v)
           S    == {x \in SearchState(m, n) : \E rk : Seeking(work, m, n, i, rk, x)}
           Q    == 1..n
           F    == [x \in S \X Q |-> Step(x[1], x[2])]
           init == Begin(s, i)
           q    == [k \in DOMAIN work[1] |-> k]
           acc  == CHOOSE g : g = [k \in 0..Len(q) |-> IF k = 0 THEN init ELSE Step(g[k-1], q[k])]
<1>1. init \in S /\ q \in Seq(Q)
  BY <1>a, <1>b
<1>2. ASSUME NEW v \in S, NEW o \in Q
      PROVE  Step(v, o) \in S
  <2>1. PICK rk : Seeking(work, m, n, i, rk, v)
    BY <1>2
  <2>2. CASE v.done
    <3>1. Visit(work, v) = v
      BY <2>2 DEF Visit
    <3> QED BY <1>2, <3>1
  <2>3. CASE ~v.done
    <3>1. \E r : Seeking(work, m, n, i, r, Visit(work, v))
      BY <2>1, <2>3, VisitKeeps
    <3> QED BY <3>1 DEF Seeking
  <2> QED BY <2>2, <2>3
<1>3. ASSUME NEW v \in S, NEW o \in Q
      PROVE  F[<<v, o>>] = Step(v, o)
  <2> HIDE DEF S, Q, Step
  <2> QED OBVIOUS
<1>4. Searched(work, s, i) = acc[Len(q)]
  BY DEF Searched, Iterate
<1> HIDE DEF S, Q, Step, init, q
<1>5. \A v \in S, o \in Q : F[<<v, o>>] \in S
  BY <1>2, <1>3
<1>6. Len(q) \in Nat /\ \A k \in 1..Len(q) : q[k] \in Q
  BY <1>1, LenProperties, ElementOfSeq
<1> HIDE DEF F
<1>7. PICK h : IsTypedRun(h, S, F, init, q)
  BY <1>1, <1>5, TypedRun
<1>8. /\ h \in [0..Len(q) -> S]
      /\ \A k \in 0..Len(q) : h[k] = IF k = 0 THEN init ELSE Step(h[k-1], q[k])
  <2>1. ASSUME NEW k \in 0..Len(q)
        PROVE  h[k] = IF k = 0 THEN init ELSE Step(h[k-1], q[k])
    <3>1. CASE k = 0
      BY <1>7, <3>1 DEF IsTypedRun
    <3>2. CASE k # 0
      <4>1. k \in 1..Len(q) /\ k-1 \in 0..Len(q) /\ q[k] \in Q
        BY <1>6, <3>2
      <4>2. h[k-1] \in S /\ h[k] = F[<<h[k-1], q[k]>>]
        BY <4>1, <1>7 DEF IsTypedRun
      <4> QED BY <3>2, <4>1, <4>2, <1>3
    <3> QED BY <3>1, <3>2
  <2> QED BY <1>7, <2>1 DEF IsTypedRun
<1>9. h = [k \in 0..Len(q) |-> IF k = 0 THEN init ELSE Step(h[k-1], q[k])]
  BY <1>8
<1>10. acc = [k \in 0..Len(q) |-> IF k = 0 THEN init ELSE Step(acc[k-1], q[k])]
  BY <1>9
<1> HIDE DEF acc
<1>11. ASSUME NEW k \in 0..Len(q)
       PROVE  acc[k] = IF k = 0 THEN init ELSE Step(acc[k-1], q[k])
  BY <1>10
<1>12. acc[0] = init
  <2>1. 0 \in 0..Len(q)
    BY <1>6
  <2> QED BY <1>11, <2>1
<1>13. ASSUME NEW k \in 1..Len(q)
       PROVE  acc[k] = Step(acc[k-1], q[k])
  <2>1. k \in 0..Len(q) /\ k # 0
    BY <1>6
  <2> QED BY <1>11, <2>1
<1>14. \A k \in 0..Len(q) : acc[k] \in S
  <2>1. ASSUME NEW k \in 1..Len(q), acc[k-1] \in S
        PROVE  acc[k] \in S
    BY <1>2, <1>6, <1>13, <2>1
  <2> QED BY <1>1, <1>6, <1>12, <2>1, LoopInvariant

<1>15. Len(q) = n /\ q = [k \in 1..n |-> k]
  BY <1>b, LenProperties DEF q
<1>16. ASSUME NEW k \in 0..n
       PROVE  acc[k] \in SearchState(m, n) /\ \E rk : Seeking(work, m, n, i, rk, acc[k])
  BY <1>14, <1>15 DEF S
<1>17. acc[0].used = {}
  BY <1>12, <1>a DEF init
<1> DEFINE OnTrack == {k \in 0..n : acc[k].done \/ Cardinality(acc[k].used) = k}
<1>18. ASSUME NEW k \in 1..n, k-1 \in OnTrack PROVE k \in OnTrack
  <2>1. k-1 \in 0..n /\ k \in 0..n
    OBVIOUS
  <2>2. PICK rk : Seeking(work, m, n, i, rk, acc[k-1])
    BY <1>16, <2>1
  <2>3. acc[k] = Visit(work, acc[k-1])
    BY <1>13, <1>15 DEF Step
  <2>4. CASE acc[k-1].done
    <3>1. acc[k] = acc[k-1]
      BY <2>3, <2>4 DEF Visit
    <3> QED BY <2>1, <2>4, <3>1
  <2>5. CASE ~acc[k-1].done
    <3>1. /\ Cardinality(acc[k-1].used) \in Nat /\ IsFiniteSet(acc[k-1].used)
          /\ acc[k-1].j0 \notin acc[k-1].used
      BY <2>2, <2>5, ColumnsLeft
    <3>2. acc[k].used = acc[k-1].used \union {acc[k-1].j0}
      BY <2>2, <2>3, <2>5, VisitKeeps
    <3>3. Cardinality(acc[k].used) = Cardinality(acc[k-1].used) + 1
      BY <3>1, <3>2, FS_AddElement
    <3>4. Cardinality(acc[k-1].used) = k-1
      BY <1>18, <2>5
    <3> QED BY <2>1, <3>3, <3>4
  <2> QED BY <2>4, <2>5
<1>19. 0 \in OnTrack
  <2>1. 0 \in 0..n
    OBVIOUS
  <2> QED BY <1>17, <2>1, FS_EmptySet
<1>20. n \in OnTrack
  <2>1. PICK id : id = [k \in 0..n |-> k]
    OBVIOUS
  <2>2. id[0] \in OnTrack
    BY <1>19, <2>1
  <2>3. ASSUME NEW k \in 1..n, id[k-1] \in OnTrack PROVE id[k] \in OnTrack
    BY <1>18, <2>1, <2>3
  <2>4. \A k \in 0..n : id[k] \in OnTrack
    <3> HIDE DEF OnTrack
    <3> QED BY <2>2, <2>3, LoopInvariant
  <2> QED BY <2>1, <2>4
<1>21. PICK rk : Seeking(work, m, n, i, rk, acc[n])
  BY <1>16
<1>22. acc[n].done
  <2>1. SUFFICES ASSUME ~acc[n].done PROVE FALSE
    OBVIOUS
  <2>2. Cardinality(acc[n].used) = n
    BY <1>20, <2>1
  <2>3. Cardinality(acc[n].used) < n
    BY <1>21, <2>1, ColumnsLeft
  <2> QED BY <2>2, <2>3
<1> QED
  BY <1>4, <1>15, <1>21, <1>22

-----------------------------------------------------------------------------
\* The augmentation.

\* The augmentation, from the end t of the search: column j0 is to take another
\* row, and the others have all rows up to i.
Augmenting(work, m, n, i, rank, t, s) ==
  /\ s \in SearchState(m, n) /\ s.u = t.u /\ s.v = t.v /\ s.way = t.way
  /\ s.j0 \in t.used \union {t.j0}
  /\ \A j \in (0..n) \ {s.j0} : s.p[j] \in 0..i
  /\ \A j, l \in (0..n) \ {s.j0} : s.p[j] = s.p[l] /\ s.p[j] # 0 => j = l
  /\ \A r \in 1..i : \E j \in (0..n) \ {s.j0} : s.p[j] = r
  /\ \A j \in (1..n) \ {s.j0} :
       IF s.p[j] = 0 THEN t.v[j] = 0 ELSE Slack(work, t, s.p[j], j) = 0
  /\ \A j \in t.used : rank[j] < rank[s.j0] => s.p[j] = t.p[j]

LEMMA AugmentKeeps ==
  ASSUME NEW m \in Nat \ {0}, NEW n \in Nat \ {0}, NEW work,
         NEW i \in 1..m, i <= n, NEW rank, NEW t, Seeking(work, m, n, i, rank, t), t.done,
         NEW s, Augmenting(work, m, n, i, rank, t, s)
  PROVE  /\ Augmenting(work, m, n, i, rank, t, Augment(s))
         /\ s.j0 # 0 => rank[Augment(s).j0] < rank[s.j0]
         /\ rank[s.j0] \in Nat
<1>1. /\ s \in SearchState(m, n) /\ s.p \in [0..n -> 0..m] /\ s.j0 \in 0..n
      /\ s.way \in [0..n -> 0..n]
      /\ t.p \in [0..n -> 0..m] /\ t.used \in SUBSET (0..n) /\ t.j0 \in 0..n
      /\ s.u = t.u /\ s.v = t.v /\ s.way = t.way /\ s.j0 \in t.used \union {t.j0}
  BY DEF Augmenting, Seeking, SearchState
<1>2. Tree(work, n, i, t) /\ Ranked(n, rank, t) /\ \A j \in t.used : t.p[j] # 0
  BY DEF Seeking
<1>3. /\ rank \in [0..n -> Nat] /\ rank[t.j0] = Cardinality(t.used)
      /\ \A j \in t.used : rank[j] < Cardinality(t.used)
      /\ \A j \in t.used : j # 0 => rank[t.way[j]] < rank[j]
  BY <1>2 DEF Ranked
<1>4. rank[s.j0] \in Nat
  BY <1>1, <1>3
<1>5. CASE s.j0 = 0
  <2>1. Augment(s) = s
    BY <1>5 DEF Augment
  <2> QED BY <1>4, <1>5, <2>1
<1>6. CASE s.j0 # 0
  <2>1. PICK w : w = t.way[s.j0]
    OBVIOUS
  <2>2. s.j0 \in 1..n
    BY <1>1, <1>6
  <2>3. w \in t.used /\ rank[w] < rank[s.j0] /\ Slack(work, t, t.p[w], s.j0) = 0
    <3>1. CASE s.j0 \in t.used
      BY <1>2, <1>3, <1>6, <2>1, <3>1 DEF Tree
    <3>2. CASE s.j0 = t.j0
      <4>1. w \in t.used /\ t.minv[s.j0] = Slack(work, t, t.p[w], s.j0) /\ t.minv[t.j0] = 0
        BY <1>2, <2>1, <3>2 DEF Tree
      <4> QED BY <1>3, <3>2, <4>1
    <3> QED BY <1>1, <3>1, <3>2
  <2>4. s.p[w] = t.p[w] /\ s.p[w] # 0 /\ w \in 0..n /\ w # s.j0 /\ s.p[w] \in 0..m
    <3>1. s.p[w] = t.p[w] /\ s.p[w] # 0 /\ w \in 0..n
      BY <1>1, <1>2, <2>3 DEF Augmenting
    <3>2. rank[w] \in Nat
      BY <1>3, <3>1
    <3>3. w # s.j0
      BY <1>4, <2>3, <3>2
    <3> QED BY <1>1, <3>1, <3>3
  <2>5. PICK a : a = Augment(s)
    OBVIOUS
  <2>6. /\ a.p = [s.p EXCEPT ![s.j0] = s.p[w]] /\ a.j0 = w /\ a.u = s.u /\ a.v = s.v
        /\ a.way = s.way /\ a \in SearchState(m, n)
    <3>1. w = s.way[s.j0]
      BY <1>1, <2>1
    <3>2. a = [s EXCEPT !.p[s.j0] = s.p[w], !.j0 = w]
      BY <1>6, <2>5, <3>1 DEF Augment
    <3> QED BY <1>1, <2>4, <3>2 DEF SearchState
  <2>7. a.p[s.j0] = s.p[w] /\ \A j \in 0..n : j # s.j0 => a.p[j] = s.p[j]
    <3>1. s.p \in [0..n -> 0..m] /\ s.j0 \in 0..n
      BY <1>1
    <3>2. a.p = [s.p EXCEPT ![s.j0] = s.p[w]]
      BY <2>6
    <3> QED BY <3>1, <3>2
  <2>8. \A j \in (0..n) \ {w} : a.p[j] \in 0..i
    <3>1. s.p[w] \in 0..i /\ \A j \in (0..n) \ {s.j0} : s.p[j] \in 0..i
      BY <2>4 DEF Augmenting
    <3> QED BY <2>7, <3>1
  <2>9. ASSUME NEW j \in (0..n) \ {w}, NEW l \in (0..n) \ {w}, a.p[j] = a.p[l], a.p[j] # 0
        PROVE  j = l
    <3>1. \A x, y \in (0..n) \ {s.j0} : s.p[x] = s.p[y] /\ s.p[x] # 0 => x = y
      BY DEF Augmenting
    <3>2. CASE j = s.j0 /\ l # s.j0
      BY <2>4, <2>7, <2>9, <3>1, <3>2
    <3>3. CASE j # s.j0 /\ l = s.j0
      BY <2>4, <2>7, <2>9, <3>1, <3>3
    <3>4. CASE j # s.j0 /\ l # s.j0
      BY <2>7, <2>9, <3>1, <3>4
    <3> QED BY <3>2, <3>3, <3>4
  <2>10. ASSUME NEW r \in 1..i PROVE \E j \in (0..n) \ {w} : a.p[j] = r
    <3>1. PICK j \in (0..n) \ {s.j0} : s.p[j] = r
      BY DEF Augmenting
    <3>2. CASE j = w
      BY <1>1, <2>4, <2>7, <3>1, <3>2
    <3>3. CASE j # w
      BY <2>7, <3>1, <3>3
    <3> QED BY <3>2, <3>3
  <2>11. ASSUME NEW j \in (1..n) \ {w}
         PROVE  IF a.p[j] = 0 THEN t.v[j] = 0 ELSE Slack(work, t, a.p[j], j) = 0
    <3>1. CASE j = s.j0
      BY <2>3, <2>4, <2>7, <3>1
    <3>2. CASE j # s.j0
      <4>1. j \in 0..n /\ j \in (1..n) \ {s.j0}
        BY <3>2
      <4>2. IF s.p[j] = 0 THEN t.v[j] = 0 ELSE Slack(work, t, s.p[j], j) = 0
        BY <4>1 DEF Augmenting
      <4> QED BY <2>7, <3>2, <4>1, <4>2
    <3> QED BY <3>1, <3>2
  <2>12. ASSUME NEW j \in t.used, rank[j] < rank[w] PROVE a.p[j] = t.p[j]
    <3>1. j \in 0..n /\ rank[j] \in Nat /\ rank[w] \in Nat
      BY <1>1, <1>3, <2>4
    <3>2. rank[j] < rank[s.j0] /\ j # s.j0
      BY <1>4, <2>3, <2>12, <3>1
    <3>3. s.p[j] = t.p[j]
      BY <3>2 DEF Augmenting
    <3> QED BY <2>7, <3>1, <3>2, <3>3
  <2>13. a.u = t.u /\ a.v = t.v /\ a.way = t.way /\ w \in t.used \union {t.j0}
    BY <1>1, <2>3, <2>6
  <2>14. Augmenting(work, m, n, i, rank, t, a)
    BY <2>6, <2>8, <2>9, <2>10, <2>11, <2>12, <2>13 DEF Augmenting
  <2> QED BY <1>4, <2>3, <2>5, <2>6, <2>14
<1> QED
  BY <1>5, <1>6

\* The path is followed to the dummy, and row i has been given, too.
LEMMA MatchedRow ==
  ASSUME NEW m \in Nat \ {0}, NEW n \in Nat \ {0}, NEW work \in Matrix(m, n),
         NEW i \in 1..m, i <= n, NEW s \in SearchState(m, n),
         RowsGiven(n, i-1, s.p), Priced(work, n, i-1, s)
  PROVE  /\ Matched(work, s, i) \in SearchState(m, n)
         /\ RowsGiven(n, i, Matched(work, s, i).p)
         /\ Priced(work, n, i, Matched(work, s, i))
<1>b. DOMAIN work[1] = 1..n
  <2>1. 1 \in 1..m
    OBVIOUS
  <2> QED BY <2>1 DEF Matrix
<1>c. PICK t : t = Searched(work, s, i)
  OBVIOUS
<1>d. PICK rk : Seeking(work, m, n, i, rk, t) /\ t.done
  BY <1>c, SearchEnds
<1>f. /\ t \in SearchState(m, n) /\ t.p \in [0..n -> 0..m] /\ t.used \in SUBSET (0..n)
      /\ t.j0 \in (0..n) \ t.used /\ 0 \in t.used /\ t.p[t.j0] = 0 /\ t.p[0] = i
      /\ t.v \in [0..n -> Int]
  <2>1. t \in SearchState(m, n) /\ Tree(work, n, i, t) /\ t.p[0] = i
    BY <1>d DEF Seeking
  <2> QED BY <1>d, <2>1 DEF Tree, SearchState
<1>g. RowsGiven(n, i-1, t.p) /\ Priced(work, n, i-1, t)
  BY <1>d DEF Seeking
<1>e. Augmenting(work, m, n, i, rk, t, t)
  <2>1. \A j \in 0..n : t.p[j] \in 0..i
    <3>1. ASSUME NEW j \in 1..n PROVE t.p[j] \in 0..i
      <4>1. t.p[j] \in 0..(i-1)
        BY <1>g DEF RowsGiven
      <4> QED BY <4>1
    <3> QED BY <1>f, <3>1
  <2>2. ASSUME NEW j \in 0..n, NEW l \in 0..n, t.p[j] = t.p[l], t.p[j] # 0 PROVE j = l
    <3>1. \A x \in 1..n : t.p[x] # i
      <4>1. \A x \in 1..n : t.p[x] \in 0..(i-1)
        BY <1>g DEF RowsGiven
      <4> QED BY <4>1
    <3>2. \A x, y \in 1..n : t.p[x] = t.p[y] /\ t.p[x] # 0 => x = y
      BY <1>g DEF RowsGiven
    <3>3. j = 0 \/ j \in 1..n
      OBVIOUS
    <3>4. l = 0 \/ l \in 1..n
      OBVIOUS
    <3> QED BY <1>f, <2>2, <3>1, <3>2, <3>3, <3>4
  <2>3. ASSUME NEW r \in 1..i PROVE \E j \in (0..n) \ {t.j0} : t.p[j] = r
    <3>1. CASE r = i
      <4>1. 0 \in (0..n) \ {t.j0}
        BY <1>f
      <4> QED BY <1>f, <3>1, <4>1
    <3>2. CASE r # i
      <4>1. r \in 1..i-1
        BY <3>2
      <4>2. PICK j \in 1..n : t.p[j] = r
        BY <1>g, <4>1 DEF RowsGiven
      <4>3. j \in 0..n /\ j # t.j0
        BY <1>f, <4>2
      <4> QED BY <4>2, <4>3
    <3> QED BY <3>1, <3>2
  <2>4. \A j \in (1..n) \ {t.j0} :
          IF t.p[j] = 0 THEN t.v[j] = 0 ELSE Slack(work, t, t.p[j], j) = 0
    BY <1>g DEF Priced
  <2> QED BY <1>f, <2>1, <2>2, <2>3, <2>4 DEF Augmenting
<1>a. Seeking(work, m, n, i, rk, t) /\ t.done
  BY <1>d
<1> DEFINE Step(v, o) == Augment(v)
           S    == {x \in SearchState(m, n) : Augmenting(work, m, n, i, rk, t, x)}
           Q    == 1..n
           F    == [x \in S \X Q |-> Step(x[1], x[2])]
           init == t
           q    == [k \in DOMAIN work[1] |-> k]
           acc  == CHOOSE g : g = [k \in 0..Len(q) |-> IF k = 0 THEN init ELSE Step(g[k-1], q[k])]
<1>1. init \in S /\ q \in Seq(Q)
  BY <1>b, <1>e, <1>f
<1>2. ASSUME NEW v \in S, NEW o \in Q
      PROVE  Step(v, o) \in S
  <2>1. Augmenting(work, m, n, i, rk, t, Augment(v))
    BY <1>a, <1>2, AugmentKeeps
  <2> QED BY <2>1 DEF Augmenting
<1>3. ASSUME NEW v \in S, NEW o \in Q
      PROVE  F[<<v, o>>] = Step(v, o)
  <2> HIDE DEF S, Q, Step
  <2> QED OBVIOUS
<1>4. Matched(work, s, i) = acc[Len(q)]
  BY <1>c DEF Matched, Iterate
<1> HIDE DEF S, Q, Step, init, q
<1>5. \A v \in S, o \in Q : F[<<v, o>>] \in S
  BY <1>2, <1>3
<1>6. Len(q) \in Nat /\ \A k \in 1..Len(q) : q[k] \in Q
  BY <1>1, LenProperties, ElementOfSeq
<1> HIDE DEF F
<1>7. PICK h : IsTypedRun(h, S, F, init, q)
  BY <1>1, <1>5, TypedRun
<1>8. /\ h \in [0..Len(q) -> S]
      /\ \A k \in 0..Len(q) : h[k] = IF k = 0 THEN init ELSE Step(h[k-1], q[k])
  <2>1. ASSUME NEW k \in 0..Len(q)
        PROVE  h[k] = IF k = 0 THEN init ELSE Step(h[k-1], q[k])
    <3>1. CASE k = 0
      BY <1>7, <3>1 DEF IsTypedRun
    <3>2. CASE k # 0
      <4>1. k \in 1..Len(q) /\ k-1 \in 0..Len(q) /\ q[k] \in Q
        BY <1>6, <3>2
      <4>2. h[k-1] \in S /\ h[k] = F[<<h[k-1], q[k]>>]
        BY <4>1, <1>7 DEF IsTypedRun
      <4> QED BY <3>2, <4>1, <4>2, <1>3
    <3> QED BY <3>1, <3>2
  <2> QED BY <1>7, <2>1 DEF IsTypedRun
<1>9. h = [k \in 0..Len(q) |-> IF k = 0 THEN init ELSE Step(h[k-1], q[k])]
  BY <1>8
<1>10. acc = [k \in 0..Len(q) |-> IF k = 0 THEN init ELSE Step(acc[k-1], q[k])]
  BY <1>9
<1> HIDE DEF acc
<1>11. ASSUME NEW k \in 0..Len(q)
       PROVE  acc[k] = IF k = 0 THEN init ELSE Step(acc[k-1], q[k])
  BY <1>10
<1>12. acc[0] = init
  <2>1. 0 \in 0..Len(q)
    BY <1>6
  <2> QED BY <1>11, <2>1
<1>13. ASSUME NEW k \in 1..Len(q)
       PROVE  acc[k] = Step(acc[k-1], q[k])
  <2>1. k \in 0..Len(q) /\ k # 0
    BY <1>6
  <2> QED BY <1>11, <2>1
<1>14. \A k \in 0..Len(q) : acc[k] \in S
  <2>1. ASSUME NEW k \in 1..Len(q), acc[k-1] \in S
        PROVE  acc[k] \in S
    BY <1>2, <1>6, <1>13, <2>1
  <2> QED BY <1>1, <1>6, <1>12, <2>1, LoopInvariant

<1>15. Len(q) = n /\ q = [k \in 1..n |-> k]
  BY <1>b, LenProperties DEF q
<1>16. ASSUME NEW k \in 0..n
       PROVE  Augmenting(work, m, n, i, rk, t, acc[k])
  BY <1>14, <1>15 DEF S
<1>17. acc[0] = t
  BY <1>12 DEF init
<1> DEFINE OnTrack == {k \in 0..n : acc[k].j0 = 0 \/ rk[acc[k].j0] <= n - k}
<1>18. ASSUME NEW k \in 1..n, k-1 \in OnTrack PROVE k \in OnTrack
  <2>1. k-1 \in 0..n /\ k \in 0..n
    OBVIOUS
  <2>2. Augmenting(work, m, n, i, rk, t, acc[k-1]) /\ Augmenting(work, m, n, i, rk, t, acc[k])
    BY <1>16, <2>1
  <2>3. acc[k] = Augment(acc[k-1])
    BY <1>13, <1>15 DEF Step
  <2>4. CASE acc[k-1].j0 = 0
    <3>1. acc[k] = acc[k-1]
      BY <2>3, <2>4 DEF Augment
    <3> QED BY <2>1, <2>4, <3>1
  <2>5. CASE acc[k-1].j0 # 0
    <3>1. /\ rk[acc[k].j0] < rk[acc[k-1].j0] /\ rk[acc[k-1].j0] \in Nat
      BY <1>a, <2>2, <2>3, <2>5, AugmentKeeps
    <3>2. rk[acc[k].j0] \in Nat
      BY <1>a, <2>2, AugmentKeeps
    <3>3. rk[acc[k-1].j0] <= n - (k-1)
      BY <1>18, <2>5
    <3>4. rk[acc[k].j0] <= n - k
      BY <3>1, <3>2, <3>3
    <3> QED BY <2>1, <3>4
  <2> QED BY <2>4, <2>5
<1>19. 0 \in OnTrack
  <2>1. 0 \in 0..n
    OBVIOUS
  <2>2. rk[t.j0] = Cardinality(t.used)
    BY <1>a DEF Seeking, Ranked
  <2>3. Cardinality(t.used) \in Nat /\ Cardinality(t.used) < n + 1
    <3>1. IsFiniteSet(0..n) /\ Cardinality(0..n) = n + 1
      BY FS_Interval
    <3>2. t.used # 0..n
      BY <1>f
    <3>3. IsFiniteSet(t.used)
      BY <1>f, <3>1, FS_Subset
    <3>4. Cardinality(t.used) <= Cardinality(0..n) /\ Cardinality(t.used) # Cardinality(0..n)
      BY <1>f, <3>1, <3>2, FS_Subset
    <3> QED BY <3>1, <3>3, <3>4, FS_CardinalityType
  <2> QED BY <1>17, <2>1, <2>2, <2>3
<1>20. n \in OnTrack
  <2>1. PICK id : id = [k \in 0..n |-> k]
    OBVIOUS
  <2>2. id[0] \in OnTrack
    BY <1>19, <2>1
  <2>3. ASSUME NEW k \in 1..n, id[k-1] \in OnTrack PROVE id[k] \in OnTrack
    BY <1>18, <2>1, <2>3
  <2>4. \A k \in 0..n : id[k] \in OnTrack
    <3> HIDE DEF OnTrack
    <3> QED BY <2>2, <2>3, LoopInvariant
  <2> QED BY <2>1, <2>4
<1>21. PICK x : x = acc[n]
  OBVIOUS
<1>22. Augmenting(work, m, n, i, rk, t, x)
  BY <1>16, <1>21
<1>23. x.j0 = 0
  <2>1. SUFFICES ASSUME x.j0 # 0 PROVE FALSE
    OBVIOUS
  <2>2. rk[x.j0] <= 0 /\ rk[x.j0] \in Nat
    <3>1. rk[x.j0] <= n - n
      BY <1>20, <1>21, <2>1
    <3>2. rk[x.j0] \in Nat
      BY <1>a, <1>22, AugmentKeeps
    <3> QED BY <3>1, <3>2
  <2>3. rk[Augment(x).j0] < rk[x.j0]
    BY <1>a, <1>22, <2>1, AugmentKeeps
  <2>4. Augmenting(work, m, n, i, rk, t, Augment(x))
    BY <1>a, <1>22, AugmentKeeps
  <2>5. rk[Augment(x).j0] \in Nat
    BY <1>a, <2>4, AugmentKeeps
  <2> QED BY <2>2, <2>3, <2>5
<1>24. \A j \in 1..n : j \in (0..n) \ {x.j0}
  BY <1>23
<1>25. RowsGiven(n, i, x.p)
  <2>1. ASSUME NEW r \in 1..i PROVE \E j \in 1..n : x.p[j] = r
    <3>1. PICK j \in (0..n) \ {0} : x.p[j] = r
      BY <1>22, <1>23 DEF Augmenting
    <3> QED BY <3>1
  <2>2. \A j \in 1..n : x.p[j] \in 0..i
    BY <1>22, <1>24 DEF Augmenting
  <2>3. \A j, l \in 1..n : x.p[j] = x.p[l] /\ x.p[j] # 0 => j = l
    BY <1>22, <1>24 DEF Augmenting
  <2> QED BY <2>1, <2>2, <2>3 DEF RowsGiven
<1>26. Priced(work, n, i, x)
  <2>1. x.u = t.u /\ x.v = t.v
    BY <1>22 DEF Augmenting
  <2>2. ASSUME NEW r \in 1..i, NEW j \in 1..n PROVE Slack(work, x, r, j) >= 0
    <3>1. Slack(work, t, r, j) >= 0
      <4>1. CASE r = i
        <5>1. t.used # {}
          BY <1>f
        <5> QED BY <1>a, <4>1, <5>1 DEF Seeking, Tree
      <4>2. CASE r # i
        <5>1. r \in 1..i-1
          BY <4>2
        <5> QED BY <1>g, <5>1 DEF Priced
      <4> QED BY <4>1, <4>2
    <3> QED BY <2>1, <3>1 DEF Slack
  <2>3. ASSUME NEW j \in 1..n
        PROVE  /\ x.p[j] # 0 => Slack(work, x, x.p[j], j) = 0
               /\ x.p[j] = 0 => x.v[j] = 0
    <3>1. IF x.p[j] = 0 THEN t.v[j] = 0 ELSE Slack(work, t, x.p[j], j) = 0
      BY <1>22, <1>23 DEF Augmenting
    <3> QED BY <2>1, <3>1 DEF Slack
  <2>4. \A j \in 1..n : x.v[j] <= 0
    BY <1>g, <2>1 DEF Priced
  <2> QED BY <2>2, <2>3, <2>4 DEF Priced
<1>27. x \in SearchState(m, n)
  BY <1>22 DEF Augmenting
<1>28. Matched(work, s, i) = x
  BY <1>4, <1>15, <1>21
<1> QED
  BY <1>25, <1>26, <1>27, <1>28

-----------------------------------------------------------------------------
\* All rows.

\* The columns are given the first k rows, at potentials that show it to be least.
Given(work, n, k, s) == RowsGiven(n, k, s.p) /\ Priced(work, n, k, s)

LEMMA BlankGiven ==
  ASSUME NEW m \in Nat \ {0}, NEW n \in Nat \ {0}, NEW work \in Matrix(m, n),
         Blank(work) \in SearchState(m, n)
  PROVE  Given(work, n, 0, Blank(work))
<1>1. DOMAIN work = 1..m /\ DOMAIN work[1] = 1..n
  <2>1. 1 \in 1..m
    OBVIOUS
  <2> QED BY <2>1 DEF Matrix
<1>2. \A j \in 1..n : Blank(work).p[j] = 0 /\ Blank(work).v[j] = 0
  BY <1>1 DEF Blank
<1> QED
  BY <1>2 DEF Given, RowsGiven, Priced

LEMMA BlankState ==
  ASSUME NEW m \in Nat \ {0}, NEW n \in Nat \ {0}, NEW work \in Matrix(m, n)
  PROVE  Blank(work) \in SearchState(m, n)
<1>1. DOMAIN work = 1..m /\ DOMAIN work[1] = 1..n
  <2>1. 1 \in 1..m
    OBVIOUS
  <2> QED BY <2>1 DEF Matrix
<1>2. DOMAIN work[1] \union {0} = 0..n
  BY <1>1
<1> QED
  BY <1>1, <1>2 DEF Blank, SearchState

\* Row after row, all rows are given to columns.
LEMMA RowsMatched ==
  ASSUME NEW m \in Nat \ {0}, NEW n \in Nat \ {0}, NEW work \in Matrix(m, n), m <= n
  PROVE  \E s \in SearchState(m, n) : s.p = RowOfColumn(work) /\ Given(work, n, m, s)
<1> DEFINE Step(s, i) == Matched(work, s, i)
           S    == SearchState(m, n)
           Q    == 1..m
           F    == [x \in S \X Q |-> IF Given(work, n, x[2]-1, x[1]) THEN Step(x[1], x[2]) ELSE x[1]]
           init == Blank(work)
           q    == [k \in DOMAIN work |-> k]
           acc  == CHOOSE g : g = [k \in 0..Len(q) |-> IF k = 0 THEN init ELSE Step(g[k-1], q[k])]
<1>1. init \in S /\ q \in Seq(Q) /\ q = [k \in 1..m |-> k]
  <2>1. DOMAIN work = 1..m
    BY DEF Matrix
  <2> QED BY <2>1, BlankState
<1>2. ASSUME NEW s \in S, NEW i \in Q, Given(work, n, i-1, s)
      PROVE  Step(s, i) \in S /\ Given(work, n, i, Step(s, i))
  <2>1. i <= n
    OBVIOUS
  <2>2. RowsGiven(n, i-1, s.p) /\ Priced(work, n, i-1, s)
    BY <1>2 DEF Given
  <2> QED BY <2>1, <2>2, MatchedRow DEF Given
<1>3. ASSUME NEW s \in S, NEW i \in Q
      PROVE  /\ F[<<s, i>>] \in S
             /\ Given(work, n, i-1, s) => F[<<s, i>>] = Step(s, i)
  <2> HIDE DEF S, Q, Step
  <2> QED BY <1>2
<1>4. RowOfColumn(work) = acc[Len(q)].p
  BY DEF RowOfColumn, Iterate
<1>5. Given(work, n, 0, init)
  BY <1>1, BlankGiven
<1> HIDE DEF S, Step, init, q
<1>6. Len(q) = m /\ \A k \in 1..m : q[k] = k
  <2>1. q = [k \in 1..m |-> k]
    BY <1>1
  <2> QED BY <1>1, <2>1, LenProperties
<1> HIDE DEF F, Q
<1>7. PICK h : IsTypedRun(h, S, F, init, q)
  BY <1>1, <1>3, TypedRun
<1>8. /\ h \in [0..m -> S] /\ h[0] = init
      /\ \A k \in 1..m : h[k] = F[<<h[k-1], k>>]
  BY <1>6, <1>7 DEF IsTypedRun
<1>9. ASSUME NEW k \in 1..m, Given(work, n, k-1, h[k-1])
      PROVE  Given(work, n, k, h[k]) /\ h[k] = Step(h[k-1], k)
  <2>1. h[k-1] \in S
    <3>1. k-1 \in 0..m
      OBVIOUS
    <3> QED BY <1>8, <3>1
  <2>2. k \in Q
    BY DEF Q
  <2> QED BY <1>2, <1>3, <1>8, <1>9, <2>1, <2>2
<1>10. \A k \in 0..m : Given(work, n, k, h[k])
  <2>1. PICK G : G = {k \in 0..m : Given(work, n, k, h[k])}
    OBVIOUS
  <2>2. PICK id : id = [k \in 0..m |-> k]
    OBVIOUS
  <2>3. id[0] \in G
    BY <1>5, <1>8, <2>1, <2>2
  <2>4. ASSUME NEW k \in 1..m, id[k-1] \in G PROVE id[k] \in G
    BY <1>9, <2>1, <2>2, <2>4
  <2>5. \A k \in 0..m : id[k] \in G
    BY <2>3, <2>4, LoopInvariant
  <2> QED BY <2>1, <2>2, <2>5
<1>11. ASSUME NEW k \in 0..Len(q)
       PROVE  h[k] = IF k = 0 THEN init ELSE Step(h[k-1], q[k])
  <2>1. CASE k = 0
    BY <1>8, <2>1
  <2>2. CASE k # 0
    <3>1. k \in 1..m /\ k-1 \in 0..m
      BY <1>6, <2>2
    <3> QED BY <1>6, <1>9, <1>10, <2>2, <3>1
  <2> QED BY <2>1, <2>2
<1>12. h = [k \in 0..Len(q) |-> IF k = 0 THEN init ELSE Step(h[k-1], q[k])]
  BY <1>6, <1>8, <1>11
<1>13. acc = [k \in 0..Len(q) |-> IF k = 0 THEN init ELSE Step(acc[k-1], q[k])]
  BY <1>12
<1> HIDE DEF acc
<1>14. \A k \in 0..m : acc[k] = h[k]
  <2>1. PICK G : G = {k \in 0..m : acc[k] = h[k]}
    OBVIOUS
  <2>2. PICK id : id = [k \in 0..m |-> k]
    OBVIOUS
  <2>3. acc[0] = init
    BY <1>6, <1>13
  <2>4. id[0] \in G
    BY <1>8, <2>1, <2>2, <2>3
  <2>5. ASSUME NEW k \in 1..m, id[k-1] \in G PROVE id[k] \in G
    <3>1. k-1 \in 0..m /\ k \in 0..m /\ k # 0
      OBVIOUS
    <3>2. acc[k-1] = h[k-1]
      BY <2>1, <2>2, <2>5, <3>1
    <3>3. acc[k] = Step(acc[k-1], q[k])
      BY <1>6, <1>13, <3>1
    <3>4. h[k] = Step(h[k-1], q[k])
      BY <1>6, <1>11, <3>1
    <3> QED BY <2>1, <2>2, <3>1, <3>2, <3>3, <3>4
  <2>6. \A k \in 0..m : id[k] \in G
    BY <2>4, <2>5, LoopInvariant
  <2> QED BY <2>1, <2>2, <2>6
<1>15. h[m] \in S /\ Given(work, n, m, h[m]) /\ acc[m] = h[m]
  <2>1. m \in 0..m
    OBVIOUS
  <2> QED BY <1>8, <1>10, <1>14, <2>1
<1>16. RowOfColumn(work) = h[m].p
  BY <1>4, <1>6, <1>15
<1> QED
  BY <1>15, <1>16 DEF S

-----------------------------------------------------------------------------
\* Sums.

\* sum[A] is the sum of the weights w of the members of A, for every part A of U.
IsSum(sum, U, w) ==
  /\ sum \in [SUBSET U -> Int] /\ sum[{}] = 0
  /\ \A A \in SUBSET U : \A x \in A : sum[A] = sum[A \ {x}] + w[x]

LEMMA SumExists ==
  ASSUME NEW U, IsFiniteSet(U), NEW w \in [U -> Int]
  PROVE  \E sum : IsSum(sum, U, w)
<1>1. PICK n \in Nat : ExistsBijection(1..n, U)
  BY FS_NatBijection
<1>2. PICK g : g \in [1..n -> U] /\ (\A x \in U : \E k \in 1..n : g[k] = x)
               /\ \A k, l \in 1..n : g[k] = g[l] => k = l
  BY <1>1 DEF ExistsBijection, Bijection, Injection, Surjection, IsInjective
<1>3. PICK q : q = [k \in 1..n |-> k]
  OBVIOUS
<1>4. q \in Seq(1..n) /\ Len(q) = n
  BY <1>3, LenProperties
<1> DEFINE Part(A, h) ==
      /\ h \in [0..n -> Int] /\ h[0] = 0
      /\ \A k \in 1..n : h[k] = h[k-1] + (IF g[k] \in A THEN w[g[k]] ELSE 0)
<1>5. ASSUME NEW A \in SUBSET U PROVE \E h : Part(A, h)
  <2>1. PICK F : F = [x \in Int \X (1..n) |-> x[1] + (IF g[x[2]] \in A THEN w[g[x[2]]] ELSE 0)]
    OBVIOUS
  <2>2. \A s \in Int, k \in 1..n : /\ F[<<s, k>>] = s + (IF g[k] \in A THEN w[g[k]] ELSE 0)
                                   /\ F[<<s, k>>] \in Int
    <3>1. ASSUME NEW s \in Int, NEW k \in 1..n
          PROVE  F[<<s, k>>] = s + (IF g[k] \in A THEN w[g[k]] ELSE 0)
      BY <2>1
    <3>2. ASSUME NEW s \in Int, NEW k \in 1..n
          PROVE  s + (IF g[k] \in A THEN w[g[k]] ELSE 0) \in Int
      <4>1. g[k] \in U
        BY <1>2
      <4>2. w[g[k]] \in Int
        BY <4>1
      <4> QED BY <4>2
    <3>3. ASSUME NEW s \in Int, NEW k \in 1..n
          PROVE  /\ F[<<s, k>>] = s + (IF g[k] \in A THEN w[g[k]] ELSE 0)
                 /\ F[<<s, k>>] \in Int
      BY <3>1, <3>2, Zenon
    <3> QED BY <3>3, Zenon
  <2>i. PICK I, Q, zero : I = Int /\ Q = 1..n /\ zero = 0
    OBVIOUS
  <2>j. /\ zero \in I /\ q \in Seq(Q)
        /\ \A s \in I, k \in Q : F[<<s, k>>] \in I
    <3>1. ASSUME NEW s \in Int, NEW k \in 1..n PROVE F[<<s, k>>] \in Int
      BY <2>2
    <3>2. q \in Seq(Q) /\ 0 \in Int
      BY <1>4, <2>i
    <3>3. \A s \in I, k \in Q : F[<<s, k>>] \in I
      BY <2>i, <3>1, Zenon
    <3> QED BY <2>i, <3>2, <3>3, Zenon
  <2>k. \E h : IsTypedRun(h, I, F, zero, q)
    BY <2>j, TypedRun
  <2>3. PICK h : IsTypedRun(h, Int, F, 0, q)
    BY <2>i, <2>k
  <2>4. h \in [0..n -> Int] /\ h[0] = 0 /\ \A k \in 1..n : h[k] = F[<<h[k-1], k>>]
    BY <1>3, <1>4, <2>3 DEF IsTypedRun
  <2>5. \A k \in 1..n : h[k-1] \in Int
    <3>1. \A k \in 1..n : k-1 \in 0..n
      OBVIOUS
    <3> QED BY <2>4, <3>1
  <2>6. Part(A, h)
    BY <2>2, <2>4, <2>5
  <2> QED BY <2>6
<1>6. PICK run : run = [A \in SUBSET U |-> CHOOSE h : Part(A, h)]
  OBVIOUS
<1>7. \A A \in SUBSET U : Part(A, run[A])
  <2>1. ASSUME NEW A \in SUBSET U PROVE Part(A, run[A])
    <3>1. run[A] = CHOOSE h : Part(A, h)
      BY <1>6
    <3>2. \E h : Part(A, h)
      BY <1>5
    <3> HIDE DEF Part
    <3> QED BY <3>1, <3>2
  <2> QED BY <2>1
<1>8. PICK sum : sum = [A \in SUBSET U |-> run[A][n]]
  OBVIOUS
<1>9. sum \in [SUBSET U -> Int]
  <2>1. \A A \in SUBSET U : run[A][n] \in Int
    <3>1. n \in 0..n
      OBVIOUS
    <3> QED BY <1>7, <3>1
  <2> QED BY <1>8, <2>1
<1>10. sum[{}] = 0
  <2>1. {} \in SUBSET U
    OBVIOUS
  <2>2. PICK h : h = run[{}]
    OBVIOUS
  <2>3. Part({}, h)
    BY <1>7, <2>1, <2>2
  <2>z. PICK Z : Z = {0}
    OBVIOUS
  <2>4. h[0] \in Z
    BY <2>3, <2>z
  <2>5. ASSUME NEW k \in 1..n, h[k-1] \in Z PROVE h[k] \in Z
    BY <2>3, <2>5, <2>z
  <2>6. \A k \in 0..n : h[k] \in Z
    BY <2>4, <2>5, LoopInvariant
  <2> QED BY <1>8, <2>1, <2>2, <2>6, <2>z
<1>11. ASSUME NEW A \in SUBSET U, NEW x \in A
       PROVE  sum[A] = sum[A \ {x}] + w[x]
  <2>1. PICK B : B = A \ {x}
    OBVIOUS
  <2>2. B \in SUBSET U
    BY <2>1
  <2>3. PICK h, l : h = run[A] /\ l = run[B]
    OBVIOUS
  <2>4. Part(A, h) /\ Part(B, l)
    BY <1>7, <2>2, <2>3
  <2>5. PICK c \in 1..n : g[c] = x
    BY <1>2
  <2>6. w[x] \in Int /\ \A k \in 1..n : w[g[k]] \in Int
    BY <1>2
  <2>7. PICK e : e = [k \in 0..n |-> <<k, h[k] - l[k]>>]
    OBVIOUS
  <2>8. PICK G : G = {y \in (0..n) \X Int : y[2] = IF y[1] < c THEN 0 ELSE w[x]}
    OBVIOUS
  <2>9. e[0] \in G
    <3>1. 0 \in 0..n /\ h[0] = 0 /\ l[0] = 0
      BY <2>4
    <3>2. e[0] = <<0, 0>>
      BY <2>7, <3>1
    <3>3. <<0, 0>> \in (0..n) \X Int /\ 0 < c
      OBVIOUS
    <3> QED BY <2>8, <3>2, <3>3
  <2>10. ASSUME NEW k \in 1..n, e[k-1] \in G PROVE e[k] \in G
    <3>1. k-1 \in 0..n /\ k \in 0..n
      OBVIOUS
    <3>2. h[k-1] \in Int /\ l[k-1] \in Int /\ h[k] \in Int /\ l[k] \in Int
      BY <2>4, <3>1
    <3>3. h[k-1] - l[k-1] = IF k-1 < c THEN 0 ELSE w[x]
      BY <2>7, <2>8, <2>10, <3>1
    <3>4. /\ h[k] = h[k-1] + (IF g[k] \in A THEN w[g[k]] ELSE 0)
          /\ l[k] = l[k-1] + (IF g[k] \in B THEN w[g[k]] ELSE 0)
      BY <2>4
    <3>5. CASE k = c
      <4>1. g[k] \in A /\ g[k] \notin B /\ g[k] = x
        BY <2>1, <2>5, <3>5
      <4>2. h[k] = h[k-1] + w[x] /\ l[k] = l[k-1] + 0
        BY <3>4, <4>1
      <4>3. h[k] - l[k] = w[x]
        BY <2>6, <3>2, <3>3, <3>5, <4>2
      <4> QED BY <2>7, <2>8, <3>1, <3>2, <3>5, <4>3
    <3>6. CASE k # c
      <4>1. g[k] # x
        BY <1>2, <2>5, <3>6
      <4>2. g[k] \in A <=> g[k] \in B
        BY <2>1, <4>1
      <4>3. h[k] - l[k] = h[k-1] - l[k-1]
        BY <2>6, <3>2, <3>4, <4>2
      <4>4. h[k] - l[k] = IF k < c THEN 0 ELSE w[x]
        BY <2>5, <3>3, <3>6, <4>3
      <4> QED BY <2>7, <2>8, <3>1, <3>2, <4>4
    <3> QED BY <3>5, <3>6
  <2>11. \A k \in 0..n : e[k] \in G
    BY <2>9, <2>10, LoopInvariant
  <2>12. h[n] - l[n] = w[x] /\ h[n] \in Int /\ l[n] \in Int
    <3>1. n \in 0..n
      OBVIOUS
    <3> QED BY <2>4, <2>5, <2>7, <2>8, <2>11, <3>1
  <2>13. sum[A] = h[n] /\ sum[B] = l[n]
    BY <1>8, <2>2, <2>3
  <2> QED BY <2>1, <2>6, <2>12, <2>13
<1> QED
  BY <1>9, <1>10, <1>11 DEF IsSum

\* TotalCost is the sum of the pairs' costs.
LEMMA TotalIsSum ==
  ASSUME NEW cost, NEW P, IsFiniteSet(P), NEW w \in [P -> Int],
         \A p \in P : w[p] = cost[p[1]][p[2]],
         NEW sum, IsSum(sum, P, w), NEW A \in SUBSET P
  PROVE  TotalCost(cost, A) = sum[A]
<1> DEFINE Rec(f) == f = [s \in SUBSET A |->
             IF s = {} THEN 0
             ELSE f[s \ {CHOOSE x \in s : TRUE}]
                    + cost[(CHOOSE x \in s : TRUE)[1]][(CHOOSE x \in s : TRUE)[2]]]
           iter == CHOOSE f : Rec(f)
<1>1. TotalCost(cost, A) = iter[A]
  BY DEF TotalCost, FoldSet, MapThenFoldSet
<1>2. PICK r : r = [s \in SUBSET A |-> sum[s]]
  OBVIOUS
<1>3. ASSUME NEW s \in SUBSET A
      PROVE  r[s] = IF s = {} THEN 0
             ELSE r[s \ {CHOOSE x \in s : TRUE}]
                    + cost[(CHOOSE x \in s : TRUE)[1]][(CHOOSE x \in s : TRUE)[2]]
  <2>1. CASE s = {}
    BY <1>2, <2>1 DEF IsSum
  <2>2. CASE s # {}
    <3>1. PICK x : x = CHOOSE y \in s : TRUE
      OBVIOUS
    <3>2. x \in s
      BY <2>2, <3>1
    <3>3. s \ {x} \in SUBSET A /\ s \in SUBSET P /\ x \in P
      BY <3>2
    <3>4. sum[s] = sum[s \ {x}] + w[x]
      BY <3>2, <3>3 DEF IsSum
    <3>5. r[s] = r[s \ {x}] + cost[x[1]][x[2]]
      BY <1>2, <3>3, <3>4
    <3> QED BY <2>2, <3>1, <3>5
  <2> QED BY <2>1, <2>2
<1>4. Rec(r)
  BY <1>2, <1>3
<1>5. Rec(iter)
  <2> HIDE DEF Rec
  <2> QED BY <1>4
<1> HIDE DEF iter
<1>6. iter[{}] = 0
  <2>1. {} \in SUBSET A
    OBVIOUS
  <2> QED BY <1>5, <2>1
<1>7. ASSUME NEW s \in SUBSET A, s # {}
      PROVE  \E x \in s : iter[s] = iter[s \ {x}] + w[x] /\ s \ {x} \in SUBSET A
  <2>1. PICK x : x = CHOOSE y \in s : TRUE
    OBVIOUS
  <2>2. x \in s /\ x \in P
    BY <1>7, <2>1
  <2>3. iter[s] = iter[s \ {x}] + cost[x[1]][x[2]]
    BY <1>5, <1>7, <2>1
  <2>4. iter[s] = iter[s \ {x}] + w[x]
    BY <2>2, <2>3
  <2> QED BY <2>2, <2>4
<1> DEFINE Bad == {k \in Nat : \E s \in SUBSET A : Cardinality(s) = k /\ iter[s] # sum[s]}
<1>8. Bad = {}
  <2>1. SUFFICES ASSUME Bad # {} PROVE FALSE
    OBVIOUS
  <2>2. PICK k \in Bad : \A l \in Bad : k <= l
    <3>1. Bad \in SUBSET Nat
      OBVIOUS
    <3> HIDE DEF Bad
    <3> QED BY <2>1, <3>1, LeastNatural
  <2>3. PICK s \in SUBSET A : Cardinality(s) = k /\ iter[s] # sum[s]
    BY <2>2
  <2>4. s # {}
    BY <1>6, <2>3 DEF IsSum
  <2>5. PICK x \in s : iter[s] = iter[s \ {x}] + w[x] /\ s \ {x} \in SUBSET A
    BY <1>7, <2>4
  <2>6. sum[s] = sum[s \ {x}] + w[x]
    <3>1. s \in SUBSET P
      OBVIOUS
    <3> QED BY <3>1 DEF IsSum
  <2>7. IsFiniteSet(s)
    <3>1. s \in SUBSET P
      OBVIOUS
    <3> QED BY <3>1, FS_Subset
  <2>8. Cardinality(s \ {x}) = k-1 /\ Cardinality(s \ {x}) \in Nat
    BY <2>3, <2>7, FS_RemoveElement, FS_CardinalityType
  <2>9. iter[s \ {x}] = sum[s \ {x}]
    <3>1. ~ (k <= k-1)
      BY <2>2
    <3>2. k-1 \notin Bad
      <4> HIDE DEF Bad
      <4> QED BY <2>2, <3>1
    <3> QED BY <2>5, <2>8, <3>2
  <2> QED BY <2>3, <2>5, <2>6, <2>9
<1>9. IsFiniteSet(A) /\ Cardinality(A) \in Nat
  BY FS_Subset, FS_CardinalityType
<1>10. iter[A] = sum[A]
  BY <1>8, <1>9
<1> QED
  BY <1>1, <1>10

-----------------------------------------------------------------------------
\* Duality.

\* Each member of the finite U has a weight.
Weighed(w, U) == IsFiniteSet(U) /\ w \in [U -> Int]

\* No member weighs more than nothing, each weighs nothing.
Light(w, S) == \A x \in S : w[x] <= 0
Void(w, S) == \A x \in S : w[x] = 0

\* A sum does not grow by members that weigh nothing or less.
LEMMA SumOfPart ==
  ASSUME NEW U, NEW w, Weighed(w, U), NEW sum, IsSum(sum, U, w),
         NEW B, B \subseteq U, Light(w, U \ B)
  PROVE  /\ sum[U] <= sum[B]
         /\ Void(w, U \ B) => sum[U] = sum[B]
<1> DEFINE Least(A) == /\ sum[A] <= sum[B]
                       /\ (\A x \in U \ B : w[x] = 0) => sum[A] = sum[B]
           Bad == {k \in Nat : \E A \in SUBSET U : B \subseteq A /\ Cardinality(A) = k /\ ~Least(A)}
<1>w. IsFiniteSet(U) /\ w \in [U -> Int] /\ B \in SUBSET U
  BY DEF Weighed
<1>l. \A x \in U \ B : w[x] <= 0
  BY DEF Light
<1>1. sum \in [SUBSET U -> Int] /\ \A A \in SUBSET U : \A x \in A : sum[A] = sum[A \ {x}] + w[x]
  BY DEF IsSum
<1>2. Bad = {}
  <2>1. SUFFICES ASSUME Bad # {} PROVE FALSE
    OBVIOUS
  <2>2. PICK k \in Bad : \A l \in Bad : k <= l
    <3>1. Bad \in SUBSET Nat
      OBVIOUS
    <3> HIDE DEF Bad
    <3> QED BY <2>1, <3>1, LeastNatural
  <2>3. PICK A \in SUBSET U : B \subseteq A /\ Cardinality(A) = k /\ ~Least(A)
    BY <2>2
  <2>4. A # B
    <3>1. sum[B] \in Int
      BY <1>1, <1>w
    <3>2. Least(B)
      BY <3>1
    <3> QED BY <1>w, <2>3, <3>2
  <2>5. PICK x \in A : x \notin B
    BY <2>3, <2>4
  <2>6. sum[A] = sum[A \ {x}] + w[x]
    BY <1>1
  <2>7. IsFiniteSet(A)
    BY <1>w, FS_Subset
  <2>8. Cardinality(A \ {x}) = k-1 /\ Cardinality(A \ {x}) \in Nat
    BY <2>3, <2>7, FS_RemoveElement, FS_CardinalityType
  <2>9. A \ {x} \in SUBSET U /\ B \subseteq A \ {x}
    BY <2>3, <2>5
  <2>10. Least(A \ {x})
    <3>1. ~ (k <= k-1)
      BY <2>2
    <3>2. k-1 \notin Bad
      <4> HIDE DEF Bad
      <4> QED BY <2>2, <3>1
    <3> HIDE DEF Least
    <3> QED BY <2>8, <2>9, <3>2
  <2>11. w[x] \in Int /\ w[x] <= 0 /\ sum[A \ {x}] \in Int /\ sum[B] \in Int
    BY <1>1, <1>l, <1>w, <2>5, <2>9
  <2>12. sum[A] <= sum[B]
    BY <2>6, <2>10, <2>11
  <2>13. (\A y \in U \ B : w[y] = 0) => sum[A] = sum[B]
    <3>1. (\A y \in U \ B : w[y] = 0) => w[x] = 0
      BY <2>5
    <3> QED BY <2>6, <2>10, <2>11, <3>1
  <2> QED BY <2>3, <2>12, <2>13
<1>3. Cardinality(U) \in Nat
  BY <1>w, FS_CardinalityType
<1>4. Least(U)
  <2> HIDE DEF Least
  <2> QED BY <1>2, <1>3, <1>w
<1> QED
  BY <1>4 DEF Void

\* What f pairs costs no less than the potentials say, and just that if it is tight.
Bounded(m, work, u, v, pr, total, sumU, sumV, f) ==
  LET T == total[{pr[<<i, f[i]>>] : i \in 1..m}]
      D == sumU[1..m] + sumV[{f[i] : i \in 1..m}]
  IN  /\ T \in Int /\ D \in Int /\ sumU[1..m] \in Int /\ sumV[{f[i] : i \in 1..m}] \in Int
      /\ D <= T
      /\ (\A i \in 1..m : work[i][f[i]] - u[i] - v[f[i]] = 0) => T = D

\* What is paired costs at least the potentials of its rows and columns, and just
\* that if no pair has slack.  The pair of row i and column j is pr[<<i, j>>].
LEMMA PairedSum ==
  ASSUME NEW m \in Nat, NEW n \in Nat, NEW work \in Matrix(m, n),
         NEW u \in [1..m -> Int], NEW v \in [1..n -> Int],
         NEW P, NEW w \in [P -> Int], NEW pr \in [(1..m) \X (1..n) -> P],
         \A a, b \in (1..m) \X (1..n) : pr[a] = pr[b] => a = b,
         \A i \in 1..m, j \in 1..n : w[pr[<<i, j>>]] = work[i][j],
         NEW total, IsSum(total, P, w), NEW sumU, IsSum(sumU, 1..m, u),
         NEW sumV, IsSum(sumV, 1..n, v),
         NEW f \in [1..m -> 1..n], \A a, b \in 1..m : f[a] = f[b] => a = b,
         \A i \in 1..m : work[i][f[i]] - u[i] - v[f[i]] >= 0
  PROVE  Bounded(m, work, u, v, pr, total, sumU, sumV, f)
<1> DEFINE A(k) == {pr[<<i, f[i]>>] : i \in 1..k}
           B(k) == {f[i] : i \in 1..k}
           Tight == \A i \in 1..m : work[i][f[i]] - u[i] - v[f[i]] = 0
           Fine(k) == /\ total[A(k)] \in Int /\ sumU[1..k] \in Int /\ sumV[B(k)] \in Int
                      /\ sumU[1..k] + sumV[B(k)] <= total[A(k)]
                      /\ Tight => total[A(k)] = sumU[1..k] + sumV[B(k)]
<1>1. /\ total \in [SUBSET P -> Int] /\ total[{}] = 0
      /\ \A X \in SUBSET P : \A x \in X : total[X] = total[X \ {x}] + w[x]
  BY DEF IsSum
<1>2. /\ sumU \in [SUBSET (1..m) -> Int] /\ sumU[{}] = 0
      /\ \A X \in SUBSET (1..m) : \A x \in X : sumU[X] = sumU[X \ {x}] + u[x]
  BY DEF IsSum
<1>3. /\ sumV \in [SUBSET (1..n) -> Int] /\ sumV[{}] = 0
      /\ \A X \in SUBSET (1..n) : \A x \in X : sumV[X] = sumV[X \ {x}] + v[x]
  BY DEF IsSum
<1>4. Fine(0)
  <2>1. 1..0 = {}
    OBVIOUS
  <2>2. A(0) = {} /\ B(0) = {}
    BY <2>1
  <2> HIDE DEF A, B, Tight
  <2>3. total[A(0)] = 0 /\ sumU[1..0] = 0 /\ sumV[B(0)] = 0
    BY <1>1, <1>2, <1>3, <2>1, <2>2
  <2> QED BY <2>3
<1>5. ASSUME NEW k \in 1..m, Fine(k-1) PROVE Fine(k)
  <2>1. /\ \A i \in 1..k : i \in 1..m /\ f[i] \in 1..n
        /\ \A i \in 1..k : i \in 1..(k-1) \/ i = k
        /\ k-1 \in Nat /\ \A i \in 1..(k-1) : i \in 1..k /\ i # k
    OBVIOUS
  <2>2. PICK a : a = pr[<<k, f[k]>>]
    OBVIOUS
  <2>3. A(k) \in SUBSET P /\ a \in A(k)
    <3>1. \A i \in 1..k : pr[<<i, f[i]>>] \in P
      BY <2>1
    <3>2. k \in 1..k
      OBVIOUS
    <3>3. ASSUME NEW x \in A(k) PROVE x \in P
      <4>1. PICK i \in 1..k : x = pr[<<i, f[i]>>]
        OBVIOUS
      <4> QED BY <3>1, <4>1
    <3>4. a \in A(k)
      BY <2>2, <3>2
    <3> HIDE DEF A
    <3> QED BY <3>3, <3>4
  <2>4. A(k) \ {a} = A(k-1)
    <3>1. ASSUME NEW x \in A(k-1) PROVE x \in A(k) /\ x # a
      <4>1. PICK i \in 1..(k-1) : x = pr[<<i, f[i]>>]
        OBVIOUS
      <4>2. i \in 1..k /\ <<i, f[i]>> # <<k, f[k]>>
        BY <2>1
      <4>3. <<i, f[i]>> \in (1..m) \X (1..n) /\ <<k, f[k]>> \in (1..m) \X (1..n)
        BY <2>1, <4>2
      <4> QED BY <2>2, <4>1, <4>2, <4>3
    <3>2. ASSUME NEW x \in A(k), x # a PROVE x \in A(k-1)
      <4>1. PICK i \in 1..k : x = pr[<<i, f[i]>>]
        OBVIOUS
      <4> QED BY <2>1, <2>2, <3>2, <4>1
    <3> HIDE DEF A
    <3> QED BY <3>1, <3>2, <2>2
  <2>5. B(k) \in SUBSET (1..n) /\ f[k] \in B(k) /\ B(k) \ {f[k]} = B(k-1)
    <3>1. k \in 1..k
      OBVIOUS
    <3>2. \A i \in 1..(k-1) : f[i] # f[k]
      BY <2>1
    <3>3. \A x \in B(k) : x \in 1..n
      BY <2>1
    <3>4. f[k] \in B(k)
      BY <3>1
    <3>5. \A x \in B(k-1) : x \in B(k) /\ x # f[k]
      BY <2>1, <3>2
    <3>6. ASSUME NEW x \in B(k), x # f[k] PROVE x \in B(k-1)
      <4>1. PICK i \in 1..k : x = f[i]
        OBVIOUS
      <4> QED BY <2>1, <3>6, <4>1
    <3> HIDE DEF B
    <3> QED BY <3>3, <3>4, <3>5, <3>6
  <2>6. 1..k \in SUBSET (1..m) /\ k \in 1..k /\ (1..k) \ {k} = 1..(k-1)
    <3>1. PICK X, Y, Z : X = 1..k /\ Y = 1..(k-1) /\ Z = 1..m
      OBVIOUS
    <3>2. \A x \in X : x \in Z /\ (x \in Y \/ x = k)
      BY <2>1, <3>1
    <3>3. \A x \in Y : x \in X /\ x # k
      BY <2>1, <3>1
    <3>4. k \in X
      BY <3>1
    <3>5. X \in SUBSET Z /\ X \ {k} = Y
      BY <3>2, <3>3
    <3> QED BY <3>1, <3>4, <3>5
  <2>7. total[A(k)] = total[A(k-1)] + w[a]
    <3>1. PICK X, Y : X = A(k) /\ Y = A(k-1)
      OBVIOUS
    <3> HIDE DEF A
    <3>2. X \in SUBSET P /\ a \in X /\ Y = X \ {a}
      BY <2>3, <2>4, <3>1
    <3>4. \A Z \in SUBSET P : \A x \in Z : total[Z] = total[Z \ {x}] + w[x]
      BY <1>1
    <3>3. total[X] = total[X \ {a}] + w[a]
      BY <3>2, <3>4
    <3> QED BY <3>1, <3>2, <3>3
  <2>8. sumU[1..k] = sumU[1..(k-1)] + u[k]
    <3>1. PICK X, Y : X = 1..k /\ Y = 1..(k-1)
      OBVIOUS
    <3>2. X \in SUBSET (1..m) /\ k \in X /\ Y = X \ {k}
      BY <2>6, <3>1
    <3>4. \A Z \in SUBSET (1..m) : \A x \in Z : sumU[Z] = sumU[Z \ {x}] + u[x]
      BY <1>2
    <3>3. sumU[X] = sumU[X \ {k}] + u[k]
      BY <3>2, <3>4
    <3> QED BY <3>1, <3>2, <3>3
  <2>9. sumV[B(k)] = sumV[B(k-1)] + v[f[k]]
    <3>1. PICK X, Y : X = B(k) /\ Y = B(k-1)
      OBVIOUS
    <3> HIDE DEF B
    <3>2. PICK z : z = f[k]
      OBVIOUS
    <3>3. X \in SUBSET (1..n) /\ z \in X /\ Y = X \ {z}
      BY <2>5, <3>1, <3>2
    <3>4. \A Z \in SUBSET (1..n) : \A x \in Z : sumV[Z] = sumV[Z \ {x}] + v[x]
      BY <1>3
    <3>5. sumV[X] = sumV[X \ {z}] + v[z]
      BY <3>3, <3>4
    <3> QED BY <3>1, <3>2, <3>3, <3>5
  <2>10. w[a] = work[k][f[k]]
    BY <2>2
  <2>11. work[k][f[k]] \in Int /\ u[k] \in Int /\ v[f[k]] \in Int
    <3>1. work[k] \in [1..n -> Int] /\ f[k] \in 1..n
      BY DEF Matrix
    <3> QED BY <3>1
  <2>12. work[k][f[k]] - u[k] - v[f[k]] >= 0
    OBVIOUS
  <2>13. PICK c, x, y, t, r, q : /\ c = work[k][f[k]] /\ x = u[k] /\ y = v[f[k]]
           /\ t = total[A(k-1)] /\ r = sumU[1..(k-1)] /\ q = sumV[B(k-1)]
    OBVIOUS
  <2>14. c \in Int /\ x \in Int /\ y \in Int /\ t \in Int /\ r \in Int /\ q \in Int
    BY <1>5, <2>11, <2>13
  <2>15. total[A(k)] = t + c /\ sumU[1..k] = r + x /\ sumV[B(k)] = q + y
    <3> HIDE DEF A, B
    <3> QED BY <2>7, <2>8, <2>9, <2>10, <2>13
  <2>16. c - x - y >= 0 /\ r + q <= t
    BY <1>5, <2>12, <2>13
  <2>17. (r + x) + (q + y) <= t + c
    BY <2>14, <2>16
  <2>18. Tight => t + c = (r + x) + (q + y)
    <3>1. Tight => c - x - y = 0 /\ t = r + q
      BY <1>5, <2>13
    <3> HIDE DEF Tight
    <3> QED BY <2>14, <3>1
  <2> HIDE DEF A, B, Tight
  <2> QED BY <2>14, <2>15, <2>17, <2>18
<1>6. \A k \in 0..m : Fine(k)
  <2>1. PICK G : G = {k \in 0..m : Fine(k)}
    OBVIOUS
  <2>2. PICK id : id = [k \in 0..m |-> k]
    OBVIOUS
  <2> HIDE DEF Fine
  <2>3. id[0] \in G
    BY <1>4, <2>1, <2>2
  <2>4. ASSUME NEW k \in 1..m, id[k-1] \in G PROVE id[k] \in G
    BY <1>5, <2>1, <2>2, <2>4
  <2>5. \A k \in 0..m : id[k] \in G
    BY <2>3, <2>4, LoopInvariant
  <2> QED BY <2>1, <2>2, <2>5
<1>7. Fine(m)
  <2> HIDE DEF Fine
  <2> QED BY <1>6
<1>8. sumU[1..m] + sumV[B(m)] \in Int
  <2> HIDE DEF B
  <2> QED BY <1>7
<1> QED
  BY <1>7, <1>8 DEF Bounded

\* The pairs that f makes of the rows.
Made(pr, m, f) == {pr[<<i, f[i]>>] : i \in 1..m}

\* g gives row i the column j that has it by p, and no way costs less.
IsLeast(m, n, p, pr, total, g) ==
  /\ g \in Injection(1..m, 1..n)
  /\ \A i \in 1..m, j \in 1..n : g[i] = j <=> p[j] = i
  /\ \A f \in Injection(1..m, 1..n) : total[Made(pr, m, g)] <= total[Made(pr, m, f)]

\* The weights w of P are the costs of the matrix work, by pr.
IsCost(m, n, work, P, w, pr) ==
  /\ w \in [P -> Int] /\ pr \in [(1..m) \X (1..n) -> P]
  /\ \A a, b \in (1..m) \X (1..n) : pr[a] = pr[b] => a = b
  /\ \A i \in 1..m, j \in 1..n : w[pr[<<i, j>>]] = work[i][j]

\* The columns rows are given to cost no more than those any other f gives them.
LEMMA GivenIsLeast ==
  ASSUME NEW m \in Nat \ {0}, NEW n \in Nat \ {0}, NEW work \in Matrix(m, n),
         NEW s \in SearchState(m, n), Given(work, n, m, s),
         NEW P, NEW w, NEW pr, IsCost(m, n, work, P, w, pr),
         NEW total, IsSum(total, P, w)
  PROVE  \E g : IsLeast(m, n, s.p, pr, total, g)
<1>c. /\ w \in [P -> Int] /\ pr \in [(1..m) \X (1..n) -> P]
      /\ \A a, b \in (1..m) \X (1..n) : pr[a] = pr[b] => a = b
      /\ \A i \in 1..m, j \in 1..n : w[pr[<<i, j>>]] = work[i][j]
  BY DEF IsCost
<1>1. /\ \A j \in 1..n : s.p[j] \in 0..m
      /\ \A j, l \in 1..n : s.p[j] = s.p[l] /\ s.p[j] # 0 => j = l
      /\ \A r \in 1..m : \E j \in 1..n : s.p[j] = r
  BY DEF Given, RowsGiven
<1>2. /\ \A r \in 1..m, j \in 1..n : work[r][j] - s.u[r] - s.v[j] >= 0
      /\ \A j \in 1..n : s.p[j] # 0 => work[s.p[j]][j] - s.u[s.p[j]] - s.v[j] = 0
      /\ \A j \in 1..n : s.v[j] <= 0 /\ (s.p[j] = 0 => s.v[j] = 0)
  BY DEF Given, Priced, Slack
<1>3. PICK g : g = [i \in 1..m |-> CHOOSE j \in 1..n : s.p[j] = i]
  OBVIOUS
<1>4. \A i \in 1..m : g[i] \in 1..n /\ s.p[g[i]] = i
  BY <1>1, <1>3
<1>5. g \in [1..m -> 1..n]
  BY <1>3, <1>4
<1>6. \A a, b \in 1..m : g[a] = g[b] => a = b
  BY <1>4
<1>7. \A i \in 1..m, j \in 1..n : g[i] = j <=> s.p[j] = i
  <2>1. ASSUME NEW i \in 1..m, NEW j \in 1..n, s.p[j] = i PROVE g[i] = j
    <3>1. s.p[g[i]] = s.p[j] /\ s.p[g[i]] # 0 /\ g[i] \in 1..n
      BY <1>4, <2>1
    <3> QED BY <1>1, <3>1
  <2> QED BY <1>4, <2>1
<1>8. PICK v : v = [j \in 1..n |-> s.v[j]]
  OBVIOUS
<1>9. v \in [1..n -> Int] /\ s.u \in [1..m -> Int]
  <2>1. s.v \in [0..n -> Int] /\ s.u \in [1..m -> Int]
    BY DEF SearchState
  <2>2. \A j \in 1..n : s.v[j] \in Int
    <3>1. \A j \in 1..n : j \in 0..n
      OBVIOUS
    <3> QED BY <2>1, <3>1
  <2> QED BY <1>8, <2>1, <2>2
<1>10. PICK sumU : IsSum(sumU, 1..m, s.u)
  <2>1. IsFiniteSet(1..m)
    BY FS_Interval
  <2> QED BY <1>9, <2>1, SumExists
<1>11. IsFiniteSet(1..n)
  BY FS_Interval
<1>12. PICK sumV : IsSum(sumV, 1..n, v)
  BY <1>9, <1>11, SumExists
<1>13. \A f \in [1..m -> 1..n], i \in 1..m : work[i][f[i]] - s.u[i] - v[f[i]] >= 0
  BY <1>2, <1>8
<1>14. \A i \in 1..m : work[i][g[i]] - s.u[i] - v[g[i]] = 0
  <2>1. ASSUME NEW i \in 1..m PROVE work[i][g[i]] - s.u[i] - v[g[i]] = 0
    <3>1. g[i] \in 1..n /\ s.p[g[i]] = i /\ i # 0
      BY <1>4
    <3>2. work[i][g[i]] - s.u[i] - s.v[g[i]] = 0
      BY <1>2, <3>1
    <3> QED BY <1>8, <3>1, <3>2
  <2> QED BY <2>1
<1>15. ASSUME NEW f \in [1..m -> 1..n], \A a, b \in 1..m : f[a] = f[b] => a = b
       PROVE  Bounded(m, work, s.u, v, pr, total, sumU, sumV, f)
  <2>1. \A i \in 1..m : work[i][f[i]] - s.u[i] - v[f[i]] >= 0
    BY <1>13
  <2>2. m \in Nat /\ n \in Nat
    OBVIOUS
  <2>3. PICK u : u = s.u
    OBVIOUS
  <2>4. u \in [1..m -> Int] /\ IsSum(sumU, 1..m, u)
    BY <1>9, <1>10, <2>3
  <2>5. \A i \in 1..m : work[i][f[i]] - u[i] - v[f[i]] >= 0
    BY <2>1, <2>3
  <2>6. Bounded(m, work, u, v, pr, total, sumU, sumV, f)
    BY <1>9, <1>12, <1>15, <1>c, <2>2, <2>4, <2>5, PairedSum, Zenon
  <2> QED BY <2>3, <2>6
<1>16. ASSUME NEW f \in [1..m -> 1..n]
       PROVE  /\ sumV[1..n] <= sumV[{f[i] : i \in 1..m}]
              /\ (\A j \in 1..n : (\A i \in 1..m : f[i] # j) => v[j] = 0)
                   => sumV[1..n] = sumV[{f[i] : i \in 1..m}]
  <2>1. PICK B : B = {f[i] : i \in 1..m}
    OBVIOUS
  <2>2. B \in SUBSET (1..n) /\ \A x \in (1..n) \ B : v[x] <= 0
    BY <1>2, <1>8, <2>1
  <2>3. /\ sumV[1..n] <= sumV[B]
        /\ (\A x \in (1..n) \ B : v[x] = 0) => sumV[1..n] = sumV[B]
    <3>1. PICK U : U = 1..n
      OBVIOUS
    <3>2. Weighed(v, U) /\ IsSum(sumV, U, v)
      BY <1>9, <1>11, <1>12, <3>1 DEF Weighed
    <3>3. B \subseteq U /\ Light(v, U \ B)
      BY <2>2, <3>1 DEF Light
    <3>4. Weighed(v, U)
      BY <3>2
    <3>5. IsSum(sumV, U, v)
      BY <3>2
    <3>6. B \subseteq U
      BY <3>3
    <3>7. Light(v, U \ B)
      BY <3>3
    <3>8. sumV[U] <= sumV[B] /\ (Void(v, U \ B) => sumV[U] = sumV[B])
      BY <3>4, <3>5, <3>6, <3>7, SumOfPart
    <3> QED BY <3>1, <3>8 DEF Void
  <2>4. (\A j \in 1..n : (\A i \in 1..m : f[i] # j) => v[j] = 0)
          => \A x \in (1..n) \ B : v[x] = 0
    BY <2>1
  <2> QED BY <2>1, <2>3, <2>4
<1>17. ASSUME NEW j \in 1..n, \A i \in 1..m : g[i] # j PROVE v[j] = 0
  <2>1. s.p[j] = 0
    <3>1. s.p[j] \in 0..m /\ s.p[j] \notin 1..m
      BY <1>1, <1>7, <1>17
    <3> QED BY <3>1
  <2> QED BY <1>2, <1>8, <2>1
<1>18. sumV[1..n] = sumV[{g[i] : i \in 1..m}]
  BY <1>5, <1>16, <1>17
<1>19. ASSUME NEW f \in [1..m -> 1..n], \A a, b \in 1..m : f[a] = f[b] => a = b
       PROVE  total[{pr[<<i, g[i]>>] : i \in 1..m}] <= total[{pr[<<i, f[i]>>] : i \in 1..m}]
  <2>1. PICK Tg, Tf, U, Vg, Vf :
          /\ Tg = total[{pr[<<i, g[i]>>] : i \in 1..m}] /\ Tf = total[{pr[<<i, f[i]>>] : i \in 1..m}]
          /\ U = sumU[1..m] /\ Vg = sumV[{g[i] : i \in 1..m}] /\ Vf = sumV[{f[i] : i \in 1..m}]
    OBVIOUS
  <2>2. Tg \in Int /\ U \in Int /\ Vg \in Int /\ Tg = U + Vg
    BY <1>5, <1>6, <1>14, <1>15, <2>1 DEF Bounded
  <2>3. Tf \in Int /\ Vf \in Int /\ U + Vf <= Tf
    BY <1>15, <1>19, <2>1 DEF Bounded
  <2>4. Vg <= Vf
    BY <1>16, <1>18, <2>1
  <2>5. Tg <= Tf
    BY <2>2, <2>3, <2>4
  <2> QED BY <2>1, <2>5
<1>20. \A f \in Injection(1..m, 1..n) : total[Made(pr, m, g)] <= total[Made(pr, m, f)]
  BY <1>19 DEF Injection, IsInjective, Made
<1>21. g \in Injection(1..m, 1..n)
  BY <1>5, <1>6 DEF Injection, IsInjective
<1> QED
  BY <1>7, <1>20, <1>21 DEF IsLeast

-----------------------------------------------------------------------------
\* The result.

LEMMA TransposeMatrix ==
  ASSUME NEW m \in Nat \ {0}, NEW n \in Nat \ {0}, NEW cost \in Matrix(m, n)
  PROVE  /\ Transpose(cost) \in Matrix(n, m)
         /\ \A i \in 1..m, j \in 1..n : Transpose(cost)[j][i] = cost[i][j]
<1>1. DOMAIN cost = 1..m /\ DOMAIN cost[1] = 1..n
  <2>1. 1 \in 1..m
    OBVIOUS
  <2> QED BY <2>1 DEF Matrix
<1>2. Transpose(cost) = [j \in 1..n |-> [i \in 1..m |-> cost[i][j]]]
  BY <1>1 DEF Transpose
<1>3. \A i \in 1..m, j \in 1..n : cost[i][j] \in Int
  BY DEF Matrix
<1> QED
  BY <1>2, <1>3 DEF Matrix

LEMMA MatrixLengths ==
  ASSUME NEW m \in Nat \ {0}, NEW n \in Nat \ {0}, NEW cost \in Matrix(m, n)
  PROVE  /\ Len(cost) = m /\ Len(cost[1]) = n /\ cost[1] # <<>>
         /\ DOMAIN cost = 1..m /\ DOMAIN cost[1] = 1..n
<1>1. DOMAIN cost = 1..m /\ DOMAIN cost[1] = 1..n
  <2>1. 1 \in 1..m
    OBVIOUS
  <2> QED BY <2>1 DEF Matrix
<1>2. cost \in Seq([1..n -> Int]) /\ cost[1] \in Seq(Int)
  <2>1. 1 \in 1..m
    OBVIOUS
  <2>2. cost[1] \in [1..n -> Int]
    BY <2>1 DEF Matrix
  <2> QED BY <2>2 DEF Matrix
<1>3. Len(cost) = m /\ Len(cost[1]) = n
  BY <1>1, <1>2, LenProperties
<1>4. cost[1] # <<>>
  BY <1>3
<1> QED
  BY <1>1, <1>3, <1>4

\* w is the cost of every pair, total what any pairs cost together.
CostsSummed(m, n, cost, P, w, total) ==
  /\ P = (1..m) \X (1..n) /\ w \in [P -> Int] /\ IsSum(total, P, w)
  /\ \A i \in 1..m, j \in 1..n : w[<<i, j>>] = cost[i][j]
  /\ \A A \in SUBSET P : TotalCost(cost, A) = total[A]

LEMMA CostSums ==
  ASSUME NEW m \in Nat \ {0}, NEW n \in Nat \ {0}, NEW cost \in Matrix(m, n)
  PROVE  \E P, w, total : CostsSummed(m, n, cost, P, w, total)
<1>1. PICK P : P = (1..m) \X (1..n)
  OBVIOUS
<1>2. IsFiniteSet(P)
  <2>1. IsFiniteSet(1..m) /\ IsFiniteSet(1..n)
    BY FS_Interval
  <2> QED BY <1>1, <2>1, FS_Product
<1>3. PICK w : w = [x \in P |-> cost[x[1]][x[2]]]
  OBVIOUS
<1>4. \A p \in P : w[p] = cost[p[1]][p[2]]
  BY <1>3
<1>5. w \in [P -> Int]
  <2>1. ASSUME NEW x \in P PROVE cost[x[1]][x[2]] \in Int
    <3>1. x[1] \in 1..m /\ x[2] \in 1..n
      BY <1>1
    <3>2. cost[x[1]] \in [1..n -> Int]
      BY <3>1 DEF Matrix
    <3> QED BY <3>1, <3>2
  <2> QED BY <1>3, <2>1
<1>6. PICK total : IsSum(total, P, w)
  BY <1>2, <1>5, SumExists
<1>7. \A A \in SUBSET P : TotalCost(cost, A) = total[A]
  BY <1>2, <1>4, <1>5, <1>6, TotalIsSum
<1>8. \A i \in 1..m, j \in 1..n : w[<<i, j>>] = cost[i][j]
  BY <1>1, <1>3
<1> QED
  BY <1>1, <1>5, <1>6, <1>7, <1>8 DEF CostsSummed

\* MinCostAssignment pairs all rows, or all columns if they are fewer, at the least
\* cost (assignment.go:24-29), for every matrix of integers.
THEOREM MinCostAssignmentIsMin ==
  ASSUME NEW m \in Nat \ {0}, NEW n \in Nat \ {0}, NEW cost \in Matrix(m, n)
  PROVE  IsMinCost(cost, MinCostAssignment(cost))
<1>1. /\ Len(cost) = m /\ Len(cost[1]) = n /\ cost[1] # <<>>
      /\ DOMAIN cost = 1..m /\ DOMAIN cost[1] = 1..n
  BY MatrixLengths
<1>2. PICK P, w, total : CostsSummed(m, n, cost, P, w, total)
  BY CostSums
<1>4. /\ P = (1..m) \X (1..n) /\ w \in [P -> Int] /\ IsSum(total, P, w)
      /\ \A i \in 1..m, j \in 1..n : w[<<i, j>>] = cost[i][j]
      /\ \A A \in SUBSET P : TotalCost(cost, A) = total[A]
  BY <1>2 DEF CostsSummed
<1>5. w \in [P -> Int] /\ IsSum(total, P, w) /\ \A A \in SUBSET P : TotalCost(cost, A) = total[A]
  BY <1>4
<1>6. PICK pairs : pairs = MinCostAssignment(cost)
  OBVIOUS
<1>7. CASE m <= n
  <2>1. PICK s \in SearchState(m, n) : s.p = RowOfColumn(cost) /\ Given(cost, n, m, s)
    BY <1>7, RowsMatched
  <2>2. DOMAIN s.p = 0..n
    BY DEF SearchState
  <2>3. pairs = {<<s.p[j], j>> : j \in {j \in 1..n : s.p[j] # 0}}
    <3>1. ~ (Len(cost) > Len(cost[1])) /\ DOMAIN s.p \ {0} = 1..n
      BY <1>1, <1>7, <2>2
    <3> QED BY <1>1, <1>6, <2>1, <3>1 DEF MinCostAssignment
  <2>4. PICK pr : pr = [x \in (1..m) \X (1..n) |-> x]
    OBVIOUS
  <2>5. /\ pr \in [(1..m) \X (1..n) -> P]
        /\ \A a, b \in (1..m) \X (1..n) : pr[a] = pr[b] => a = b
        /\ \A i \in 1..m, j \in 1..n : pr[<<i, j>>] = <<i, j>> /\ w[pr[<<i, j>>]] = cost[i][j]
    BY <1>4, <2>4
  <2>c. IsCost(m, n, cost, P, w, pr)
    BY <1>4, <2>5 DEF IsCost
  <2>6. PICK g : IsLeast(m, n, s.p, pr, total, g)
    BY <1>5, <2>1, <2>c, GivenIsLeast
  <2>7. /\ g \in Injection(1..m, 1..n) /\ g \in [1..m -> 1..n]
        /\ \A i \in 1..m, j \in 1..n : g[i] = j <=> s.p[j] = i
        /\ \A f \in Injection(1..m, 1..n) : total[Made(pr, m, g)] <= total[Made(pr, m, f)]
    BY <2>6 DEF IsLeast, Injection, IsInjective
  <2>8. \A j \in 1..n : s.p[j] \in 0..m
    BY <2>1 DEF Given, RowsGiven
  <2>9. pairs = {<<i, g[i]>> : i \in 1..m}
    <3>1. ASSUME NEW x \in pairs PROVE x \in {<<i, g[i]>> : i \in 1..m}
      <4>1. PICK j \in 1..n : s.p[j] # 0 /\ x = <<s.p[j], j>>
        BY <2>3
      <4>2. s.p[j] \in 1..m
        BY <2>8, <4>1
      <4>3. g[s.p[j]] = j
        BY <2>7, <4>2
      <4> QED BY <4>1, <4>2, <4>3
    <3>2. ASSUME NEW i \in 1..m PROVE <<i, g[i]>> \in pairs
      <4>1. g[i] \in 1..n /\ s.p[g[i]] = i /\ i # 0
        BY <2>7
      <4> QED BY <2>3, <4>1
    <3> QED BY <3>1, <3>2
  <2>10. ASSUME NEW f \in Injection(1..m, 1..n)
         PROVE  TotalCost(cost, {<<i, f[i]>> : i \in 1..m}) = total[Made(pr, m, f)]
    <3>0. f \in [1..m -> 1..n]
      BY DEF Injection, IsInjective
    <3>1. \A i \in 1..m : <<i, f[i]>> \in P /\ pr[<<i, f[i]>>] = <<i, f[i]>>
      BY <1>4, <2>5, <3>0
    <3>2. {<<i, f[i]>> : i \in 1..m} = Made(pr, m, f)
      BY <3>1 DEF Made
    <3>3. {<<i, f[i]>> : i \in 1..m} \in SUBSET P
      BY <3>1
    <3> QED BY <1>5, <3>2, <3>3
  <2>11. Pairings(cost) = {{<<i, f[i]>> : i \in 1..m} : f \in Injection(1..m, 1..n)}
    <3>1. Len(cost) <= Len(cost[1])
      BY <1>1, <1>7
    <3> QED BY <1>1, <3>1 DEF Pairings
  <2>12. pairs \in Pairings(cost)
    BY <2>7, <2>9, <2>11
  <2>13. ASSUME NEW A \in Pairings(cost) PROVE TotalCost(cost, pairs) <= TotalCost(cost, A)
    <3>1. PICK f \in Injection(1..m, 1..n) : A = {<<i, f[i]>> : i \in 1..m}
      BY <2>11
    <3>2. TotalCost(cost, A) = total[Made(pr, m, f)]
      BY <2>10, <3>1
    <3>3. TotalCost(cost, pairs) = total[Made(pr, m, g)]
      BY <2>7, <2>9, <2>10
    <3> QED BY <2>7, <3>2, <3>3
  <2> QED BY <1>6, <2>12, <2>13 DEF IsMinCost
<1>8. CASE m > n
  <2>0. PICK work : work = Transpose(cost)
    OBVIOUS
  <2>00. work \in Matrix(n, m) /\ \A i \in 1..m, j \in 1..n : work[j][i] = cost[i][j]
    BY <2>0, TransposeMatrix
  <2>1. PICK s \in SearchState(n, m) : s.p = RowOfColumn(work) /\ Given(work, m, n, s)
    BY <1>8, <2>00, RowsMatched
  <2>2. DOMAIN s.p = 0..m
    BY DEF SearchState
  <2>3. pairs = {<<j, s.p[j]>> : j \in {j \in 1..m : s.p[j] # 0}}
    <3>1. Len(cost) > Len(cost[1]) /\ DOMAIN s.p \ {0} = 1..m
      BY <1>1, <1>8, <2>2
    <3> QED BY <1>1, <1>6, <2>0, <2>1, <3>1 DEF MinCostAssignment
  <2>4. PICK pr : pr = [x \in (1..n) \X (1..m) |-> <<x[2], x[1]>>]
    OBVIOUS
  <2>5. /\ pr \in [(1..n) \X (1..m) -> P]
        /\ \A a, b \in (1..n) \X (1..m) : pr[a] = pr[b] => a = b
        /\ \A i \in 1..n, j \in 1..m : pr[<<i, j>>] = <<j, i>> /\ w[pr[<<i, j>>]] = work[i][j]
    <3>1. pr \in [(1..n) \X (1..m) -> P]
      BY <1>4, <2>4
    <3>2. \A a, b \in (1..n) \X (1..m) : pr[a] = pr[b] => a = b
      BY <2>4
    <3>3. \A i \in 1..n, j \in 1..m : pr[<<i, j>>] = <<j, i>>
      BY <2>4
    <3>4. \A i \in 1..n, j \in 1..m : w[<<j, i>>] = work[i][j]
      BY <1>4, <2>00
    <3> QED BY <3>1, <3>2, <3>3, <3>4
  <2>c. IsCost(n, m, work, P, w, pr)
    BY <1>4, <2>5 DEF IsCost
  <2>6. PICK g : IsLeast(n, m, s.p, pr, total, g)
    BY <1>5, <2>00, <2>1, <2>c, GivenIsLeast
  <2>7. /\ g \in Injection(1..n, 1..m) /\ g \in [1..n -> 1..m]
        /\ \A i \in 1..n, j \in 1..m : g[i] = j <=> s.p[j] = i
        /\ \A f \in Injection(1..n, 1..m) : total[Made(pr, n, g)] <= total[Made(pr, n, f)]
    BY <2>6 DEF IsLeast, Injection, IsInjective
  <2>8. \A j \in 1..m : s.p[j] \in 0..n
    BY <2>1 DEF Given, RowsGiven
  <2>9. pairs = {<<g[i], i>> : i \in 1..n}
    <3>1. ASSUME NEW x \in pairs PROVE x \in {<<g[i], i>> : i \in 1..n}
      <4>1. PICK j \in 1..m : s.p[j] # 0 /\ x = <<j, s.p[j]>>
        BY <2>3
      <4>2. s.p[j] \in 1..n
        BY <2>8, <4>1
      <4>3. g[s.p[j]] = j
        BY <2>7, <4>2
      <4> QED BY <4>1, <4>2, <4>3
    <3>2. ASSUME NEW i \in 1..n PROVE <<g[i], i>> \in pairs
      <4>1. g[i] \in 1..m /\ s.p[g[i]] = i /\ i # 0
        BY <2>7
      <4> QED BY <2>3, <4>1
    <3> QED BY <3>1, <3>2
  <2>10. ASSUME NEW f \in Injection(1..n, 1..m)
         PROVE  TotalCost(cost, {<<f[i], i>> : i \in 1..n}) = total[Made(pr, n, f)]
    <3>0. f \in [1..n -> 1..m]
      BY DEF Injection, IsInjective
    <3>1. \A i \in 1..n : <<f[i], i>> \in P /\ pr[<<i, f[i]>>] = <<f[i], i>>
      BY <1>4, <2>5, <3>0
    <3>2. {<<f[i], i>> : i \in 1..n} = Made(pr, n, f)
      BY <3>1 DEF Made
    <3>3. {<<f[i], i>> : i \in 1..n} \in SUBSET P
      BY <3>1
    <3> QED BY <1>5, <3>2, <3>3
  <2>11. Pairings(cost) = {{<<f[i], i>> : i \in 1..n} : f \in Injection(1..n, 1..m)}
    <3>1. ~ (Len(cost) <= Len(cost[1]))
      BY <1>1, <1>8
    <3> QED BY <1>1, <3>1 DEF Pairings
  <2>12. pairs \in Pairings(cost)
    BY <2>7, <2>9, <2>11
  <2>13. ASSUME NEW A \in Pairings(cost) PROVE TotalCost(cost, pairs) <= TotalCost(cost, A)
    <3>1. PICK f \in Injection(1..n, 1..m) : A = {<<f[i], i>> : i \in 1..n}
      BY <2>11
    <3>2. TotalCost(cost, A) = total[Made(pr, n, f)]
      BY <2>10, <3>1
    <3>3. TotalCost(cost, pairs) = total[Made(pr, n, g)]
      BY <2>7, <2>9, <2>10
    <3> QED BY <2>7, <3>2, <3>3
  <2> QED BY <1>6, <2>12, <2>13 DEF IsMinCost
<1> QED
  BY <1>7, <1>8


-----------------------------------------------------------------------------
\* The costs that AssignmentOptimal ranges over make a matrix of integers.
THEOREM AssignmentAlwaysOptimal == DispatchSpec => []AssignmentOptimal
<1>1. AssignmentOptimal
  <2> SUFFICES ASSUME NEW rows \in 1..3, NEW cols \in 1..3,
                      NEW cost \in [1..rows -> [1..cols -> {0, 1, 3, Unreachable}]]
               PROVE  IsMinCost(cost, MinCostAssignment(cost))
    BY DEF AssignmentOptimal
  <2>1. {0, 1, 3, Unreachable} \subseteq Int
    BY DEF Unreachable
  <2> DEFINE Allowed == {0, 1, 3, Unreachable}
  <2> HIDE DEF Allowed
  <2>2. Allowed \subseteq Int
    BY <2>1 DEF Allowed
  <2>3. cost \in [1..rows -> [1..cols -> Allowed]]
    BY DEF Allowed
  <2>4. cost \in Matrix(rows, cols)
    BY <2>2, <2>3 DEF Matrix
  <2>5. rows \in Nat \ {0} /\ cols \in Nat \ {0}
    OBVIOUS
  <2> QED BY <2>4, <2>5, MinCostAssignmentIsMin
<1> QED BY <1>1, PTL

-----------------------------------------------------------------------------
\* Sorting.

\* R orders S strictly and totally.
Orders(R, S) ==
  /\ \A a \in S : <<a, a>> \notin R
  /\ \A a, b \in S : a # b => <<a, b>> \in R \/ <<b, a>> \in R
  /\ \A a, b, c \in S : <<a, b>> \in R /\ <<b, c>> \in R => <<a, c>> \in R

\* s lists S in the order R, each element once.
Lists(s, S, R) ==
  /\ s \in Seq(S)
  /\ Len(s) = Cardinality(S)
  /\ \A i, j \in DOMAIN s : s[i] = s[j] => i = j
  /\ \A x \in S : \E i \in DOMAIN s : s[i] = x
  /\ \A i, j \in DOMAIN s : i < j => <<s[i], s[j]>> \in R

\* The elements below x.
Below(R, S, x) == {y \in S : <<y, x>> \in R}

\* A finite set that is strictly and totally ordered can be listed in order.
LEMMA ListExists ==
  ASSUME NEW S, IsFiniteSet(S), NEW R, Orders(R, S)
  PROVE  \E s \in SetToSeqs(S) : \A i, j \in DOMAIN s : i < j => <<s[i], s[j]>> \in R
<1> DEFINE n == Cardinality(S)
           rank == [x \in S |-> Cardinality(Below(R, S, x)) + 1]
<1>1. n \in Nat
  BY FS_CardinalityType
<1>2. ASSUME NEW x \in S
      PROVE  /\ IsFiniteSet(Below(R, S, x))
             /\ Cardinality(Below(R, S, x)) \in Nat
             /\ Cardinality(Below(R, S, x)) < n
  <2>1. Below(R, S, x) \in SUBSET S
    BY DEF Below
  <2>2. x \notin Below(R, S, x)
    BY DEF Below, Orders
  <2>3. /\ IsFiniteSet(Below(R, S, x))
        /\ Cardinality(Below(R, S, x)) <= n
        /\ Cardinality(Below(R, S, x)) # n
    BY <2>1, <2>2, FS_Subset
  <2>4. Cardinality(Below(R, S, x)) \in Nat
    BY <2>3, FS_CardinalityType
  <2> QED BY <1>1, <2>3, <2>4
<1>3. ASSUME NEW x \in S, NEW y \in S, <<x, y>> \in R
      PROVE  rank[x] < rank[y]
  <2>1. Below(R, S, x) \in SUBSET Below(R, S, y)
    BY <1>3 DEF Below, Orders
  <2>2. x \in Below(R, S, y) /\ x \notin Below(R, S, x)
    BY <1>3 DEF Below, Orders
  <2>3. /\ Cardinality(Below(R, S, x)) <= Cardinality(Below(R, S, y))
        /\ Cardinality(Below(R, S, x)) # Cardinality(Below(R, S, y))
    <3>1. Below(R, S, x) # Below(R, S, y)
      BY <2>2
    <3>2. IsFiniteSet(Below(R, S, y))
      BY <1>2
    <3> QED BY <2>1, <3>1, <3>2, FS_Subset
  <2>4. Cardinality(Below(R, S, x)) \in Nat /\ Cardinality(Below(R, S, y)) \in Nat
    BY <1>2
  <2>5. rank[x] = Cardinality(Below(R, S, x)) + 1 /\ rank[y] = Cardinality(Below(R, S, y)) + 1
    OBVIOUS
  <2> HIDE DEF rank
  <2> QED BY <2>3, <2>4, <2>5
<1>4. rank \in [S -> 1..n]
  <2>1. \A x \in S : Cardinality(Below(R, S, x)) + 1 \in 1..n
    BY <1>1, <1>2
  <2> QED BY <2>1
<1> HIDE DEF rank
<1>5. \A x, y \in S : rank[x] = rank[y] => x = y
  <2> SUFFICES ASSUME NEW x \in S, NEW y \in S, rank[x] = rank[y], x # y PROVE FALSE
    OBVIOUS
  <2>1. rank[x] \in Int
    BY <1>4, <1>1
  <2>2. <<x, y>> \in R \/ <<y, x>> \in R
    BY DEF Orders
  <2>3. rank[x] < rank[y] \/ rank[y] < rank[x]
    BY <1>3, <2>2
  <2> QED BY <2>1, <2>3
<1>6. rank \in Injection(S, 1..n)
  BY <1>4, <1>5, Fun_IsInj
<1>7. rank \in Surjection(S, 1..n)
  <2>1. IsFiniteSet(1..n) /\ Cardinality(1..n) = n
    <3>1. IsFiniteSet(1..n) /\ Cardinality(1..n) = (IF 1 > n THEN 0 ELSE n-1+1)
      <4>1. 1 \in Int /\ n \in Int
        BY <1>1
      <4> HIDE DEF n
      <4> QED BY <4>1, FS_Interval
    <3> HIDE DEF n
    <3> QED BY <3>1, <1>1
  <2>2. Cardinality(S) = Cardinality(1..n)
    BY <2>1
  <2> QED BY <1>6, <2>1, <2>2, FS_Injection
<1>8. \A i \in 1..n : \E x \in S : rank[x] = i
  BY <1>7, Fun_SurjectionProperties
<1> DEFINE s == [i \in 1..n |-> CHOOSE x \in S : rank[x] = i]
<1>9. \A i \in 1..n : s[i] \in S /\ rank[s[i]] = i
  BY <1>8
<1>10. s \in [1..n -> S] /\ DOMAIN s = 1..n
  BY <1>8
<1> HIDE DEF s
<1>11. s \in SetToSeqs(S)
  <2>1. \A i, j \in 1..n : i # j => s[i] # s[j]
    BY <1>9
  <2> QED BY <1>10, <2>1 DEF SetToSeqs
<1>12. ASSUME NEW i \in DOMAIN s, NEW j \in DOMAIN s, i < j
       PROVE  <<s[i], s[j]>> \in R
  <2>1. i \in 1..n /\ j \in 1..n /\ i \in Int /\ j \in Int
    BY <1>10, <1>1
  <2>2. rank[s[i]] = i /\ rank[s[j]] = j /\ s[i] \in S /\ s[j] \in S
    BY <1>9, <2>1
  <2>3. ~ (<<s[j], s[i]>> \in R)
    <3>1. ~ (j < i)
      BY <2>1, <1>12
    <3> QED BY <1>3, <2>2, <3>1
  <2>4. s[i] # s[j]
    BY <2>1, <2>2, <1>12
  <2> QED BY <2>2, <2>3, <2>4 DEF Orders
<1> QED BY <1>11, <1>12

\* A list of a finite set that is in the order R lists it.
LEMMA ListOf ==
  ASSUME NEW S, IsFiniteSet(S), NEW R, NEW s \in SetToSeqs(S),
         \A i, j \in DOMAIN s : i < j => <<s[i], s[j]>> \in R
  PROVE  Lists(s, S, R)
<1>1. PICK n : n = Cardinality(S)
  OBVIOUS
<1>2. n \in Nat
  BY <1>1, FS_CardinalityType
<1>3. s \in [1..n -> S] /\ \A i, j \in 1..n : i # j => s[i] # s[j]
  BY <1>1 DEF SetToSeqs
<1>4. DOMAIN s = 1..n /\ s \in Seq(S) /\ Len(s) = n
  BY <1>2, <1>3
<1>5. s \in Injection(1..n, S)
  BY <1>3, Fun_IsInj
<1>6. Cardinality(1..n) = Cardinality(S)
  <2>1. Cardinality(1..n) = IF 1 > n THEN 0 ELSE n-1+1
    BY <1>2, FS_Interval
  <2> QED BY <1>1, <1>2, <2>1
<1>7. s \in Surjection(1..n, S)
  BY <1>5, <1>6, FS_Injection
<1>8. \A x \in S : \E i \in 1..n : s[i] = x
  BY <1>7 DEF Surjection
<1> QED BY <1>1, <1>3, <1>4, <1>8 DEF Lists

\* Sorted, of numbers in ascending order.
LEMMA SortedNumbers ==
  ASSUME NEW S \in SUBSET Int, IsFiniteSet(S)
  PROVE  Lists(Sorted(S, <), S, {p \in Int \X Int : p[1] < p[2]})
<1>1. PICK R : R = {p \in Int \X Int : p[1] < p[2]}
  OBVIOUS
<1>2. \A a, b \in Int : <<a, b>> \in R <=> a < b
  BY <1>1
<1>3. Orders(R, S)
  BY <1>2 DEF Orders
<1>4. PICK s \in SetToSeqs(S) : \A i, j \in DOMAIN s : i < j => <<s[i], s[j]>> \in R
  BY <1>3, ListExists
<1>5. ASSUME NEW t \in SetToSeqs(S)
      PROVE  (\A i, j \in DOMAIN t : i < j => <<t[i], t[j]>> \in R)
               <=> (\A i, j \in DOMAIN t : i < j => t[i] < t[j])
  <2>1. \A i \in DOMAIN t : t[i] \in S
    BY DEF SetToSeqs
  <2> QED BY <1>2, <2>1
<1>6. \A i, j \in DOMAIN s : i < j => s[i] < s[j]
  BY <1>4, <1>5
<1>7. PICK t : t = Sorted(S, <)
  OBVIOUS
<1>8. t \in SetToSeqs(S) /\ \A i, j \in DOMAIN t : i < j => t[i] < t[j]
  BY <1>4, <1>6, <1>7 DEF Sorted
<1>9. \A i, j \in DOMAIN t : i < j => <<t[i], t[j]>> \in R
  BY <1>5, <1>8
<1>10. Lists(t, S, R)
  BY <1>8, <1>9, ListOf
<1> QED BY <1>1, <1>7, <1>10

-----------------------------------------------------------------------------
\* The ring search of the candidate index.

\* The plane.
Point == Int \X Int

\* The cells of two points are a number of rings apart.
LEMMA RingsType ==
  ASSUME NEW a \in Point, NEW b \in Point
  PROVE  Rings(a, b) \in Nat
<1>1. a[1] \in Int /\ a[2] \in Int /\ b[1] \in Int /\ b[2] \in Int
  BY DEF Point
<1>2. CellSize \in Int /\ CellSize # 0
  BY CellAssumption
<1>3. PICK x1, x2, y1, y2 \in Int :
        /\ x1 = a[1] \div CellSize /\ x2 = a[2] \div CellSize
        /\ y1 = b[1] \div CellSize /\ y2 = b[2] \div CellSize
  <2>1. \A x \in Int : x \div CellSize \in Int
    BY <1>2, CellAssumption
  <2> QED BY <1>1, <2>1
<1>4. CellOf(a)[1] = x1 /\ CellOf(a)[2] = x2 /\ CellOf(b)[1] = y1 /\ CellOf(b)[2] = y2
  BY <1>3 DEF CellOf
<1> QED BY <1>4 DEF Rings

\* The square of a distance is a number.
LEMMA DistSqType ==
  ASSUME NEW a \in Point, NEW b \in Point
  PROVE  DistSq(a, b) \in Int
<1>1. a[1] \in Int /\ a[2] \in Int /\ b[1] \in Int /\ b[2] \in Int
  BY DEF Point
<1>2. \A x, y \in Int : (x - y) * (x - y) \in Int
  OBVIOUS
<1> QED BY <1>1, <1>2 DEF DistSq

\* The ids within r rings.
Within(ids, rings, r) == {id \in ids : rings[id] <= r}

\* What is found in `got`: enough ids, and none as near as those passed over.
Reaches(got, ids, rings, max) ==
  /\ got \in SUBSET ids
  /\ Cardinality(got) >= max \/ got = ids
  /\ \A a \in got, b \in ids \ got : rings[a] < rings[b]

\* The ring of some id holds them all: the last one in order of their rings.
LEMMA LastRing ==
  ASSUME NEW ids \in SUBSET Int, IsFiniteSet(ids), ids # {}, NEW rings \in [ids -> Nat]
  PROVE  \E last \in ids : Within(ids, rings, rings[last]) = ids
<1>1. PICK R : R = {p \in ids \X ids : rings[p[1]] < rings[p[2]]
                                       \/ (rings[p[1]] = rings[p[2]] /\ p[1] < p[2])}
  OBVIOUS
<1>2. \A a, b \in ids : <<a, b>> \in R <=> rings[a] < rings[b] \/ (rings[a] = rings[b] /\ a < b)
  BY <1>1
<1>3. \A a \in ids : rings[a] \in Int /\ a \in Int
  OBVIOUS
<1>4. Orders(R, ids)
  BY <1>2, <1>3 DEF Orders
<1>5. PICK s \in SetToSeqs(ids) : \A i, j \in DOMAIN s : i < j => <<s[i], s[j]>> \in R
  BY <1>4, ListExists
<1>6. Lists(s, ids, R)
  BY <1>5, ListOf
<1>7. /\ s \in Seq(ids)
      /\ \A x \in ids : \E i \in DOMAIN s : s[i] = x
      /\ \A i, j \in DOMAIN s : i < j => <<s[i], s[j]>> \in R
  BY <1>6 DEF Lists
<1>8. PICK n \in Nat : DOMAIN s = 1..n
  <2>1. Len(s) \in Nat /\ DOMAIN s = 1..Len(s)
    BY <1>7
  <2> QED BY <2>1
<1>9. n \in DOMAIN s
  BY <1>7, <1>8
<1>10. s[n] \in ids
  BY <1>7, <1>9
<1>11. ASSUME NEW x \in ids
       PROVE  rings[x] <= rings[s[n]]
  <2>1. PICK i \in DOMAIN s : s[i] = x
    BY <1>7
  <2>2. i = n \/ i < n
    BY <1>8
  <2>3. i < n => <<x, s[n]>> \in R
    BY <1>7, <1>9, <2>1
  <2>4. PICK y \in ids : y = s[n]
    BY <1>10
  <2>5. <<x, y>> \in R => rings[x] <= rings[y]
    BY <1>2, <1>3
  <2> QED BY <1>3, <2>1, <2>2, <2>3, <2>4, <2>5
<1>12. Within(ids, rings, rings[s[n]]) = ids
  BY <1>11 DEF Within
<1> QED BY <1>10, <1>12

\* Found ends at the first ring that holds enough of the ids.
LEMMA FoundReaches ==
  ASSUME NEW ix, DOMAIN ix \in SUBSET Int, IsFiniteSet(DOMAIN ix), DOMAIN ix # {},
         \A id \in DOMAIN ix : ix[id] \in Point,
         NEW query \in Point, NEW max \in Nat
  PROVE  Reaches(Found(ix, query, max), DOMAIN ix,
                 [id \in DOMAIN ix |-> Rings(ix[id], query)], max)
<1>1. PICK ids : ids = DOMAIN ix
  OBVIOUS
<1>2. PICK rings : rings = [id \in ids |-> Rings(ix[id], query)]
  OBVIOUS
<1>3. rings \in [ids -> Nat] /\ \A id \in ids : rings[id] = Rings(ix[id], query)
  BY <1>1, <1>2, RingsType
<1>4. ids \in SUBSET Int /\ IsFiniteSet(ids) /\ ids # {}
  BY <1>1
<1> DEFINE all == {Rings(ix[id], query) : id \in DOMAIN ix}
           W(r) == {id \in DOMAIN ix : Rings(ix[id], query) <= r}
           enough == {r \in all : Cardinality(W(r)) >= max \/ W(r) = DOMAIN ix}
<1>5. all = {rings[id] : id \in ids} /\ all \in SUBSET Nat
  BY <1>1, <1>3
<1>6. ASSUME NEW r PROVE W(r) = Within(ids, rings, r)
  BY <1>1, <1>3 DEF Within
<1>7. PICK last \in ids : Within(ids, rings, rings[last]) = ids
  BY <1>3, <1>4, LastRing
<1>8. enough \in SUBSET Nat /\ rings[last] \in enough
  <2>1. rings[last] \in all
    BY <1>5
  <2>2. W(rings[last]) = DOMAIN ix
    BY <1>1, <1>6, <1>7
  <2> HIDE DEF W, all
  <2> QED BY <1>5, <2>1, <2>2
<1>9. PICK r0 : r0 = CHOOSE r \in enough : \A s \in enough : r <= s
  OBVIOUS
<1>10. r0 \in enough
  <2>1. \E r \in enough : \A s \in enough : r <= s
    <3> HIDE DEF enough
    <3> QED BY <1>8, LeastNatural
  <2> HIDE DEF enough
  <2> QED BY <1>9, <2>1
<1>11. Found(ix, query, max) = W(r0)
  BY <1>9 DEF Found
<1>12. PICK got : got = Within(ids, rings, r0)
  OBVIOUS
<1>13. Found(ix, query, max) = got
  BY <1>6, <1>11, <1>12
<1>14. r0 \in Nat /\ (Cardinality(got) >= max \/ got = ids)
  <2>1. Cardinality(W(r0)) >= max \/ W(r0) = DOMAIN ix
    BY <1>10
  <2>2. W(r0) = got
    BY <1>6, <1>12
  <2>3. r0 \in Nat
    <3> HIDE DEF enough
    <3> QED BY <1>8, <1>10
  <2> HIDE DEF W
  <2> QED BY <1>1, <2>1, <2>2, <2>3
<1>15. \A a \in got, b \in ids \ got : rings[a] < rings[b]
  BY <1>3, <1>12, <1>14 DEF Within
<1>16. got \in SUBSET ids
  BY <1>12 DEF Within
<1>17. Reaches(got, ids, rings, max)
  BY <1>14, <1>15, <1>16 DEF Reaches
<1> QED BY <1>1, <1>2, <1>13, <1>17

\* Nearer to the query, or as near and of smaller id.
Nearer(ix, query) ==
  {p \in (DOMAIN ix) \X (DOMAIN ix) :
     \/ DistSq(ix[p[1]], query) < DistSq(ix[p[2]], query)
     \/ DistSq(ix[p[1]], query) = DistSq(ix[p[2]], query) /\ p[1] < p[2]}

\* The order in which NearestOf sorts the ids it has found.
LEMMA FoundSorted ==
  ASSUME NEW ix, DOMAIN ix \in SUBSET Int, IsFiniteSet(DOMAIN ix),
         \A id \in DOMAIN ix : ix[id] \in Point,
         NEW query \in Point, NEW S \in SUBSET DOMAIN ix
  PROVE  LET Before(a, b) ==
               \/ DistSq(ix[a], query) < DistSq(ix[b], query)
               \/ DistSq(ix[a], query) = DistSq(ix[b], query) /\ a < b
         IN  Lists(Sorted(S, Before), S, Nearer(ix, query))
<1> DEFINE Before(a, b) == \/ DistSq(ix[a], query) < DistSq(ix[b], query)
                           \/ DistSq(ix[a], query) = DistSq(ix[b], query) /\ a < b
<1>1. PICK dist : dist = [id \in DOMAIN ix |-> DistSq(ix[id], query)]
  OBVIOUS
<1>2. \A id \in DOMAIN ix : dist[id] = DistSq(ix[id], query) /\ dist[id] \in Int /\ id \in Int
  BY <1>1, DistSqType
<1>3. PICK R : R = Nearer(ix, query)
  OBVIOUS
<1>4. \A a, b \in S : <<a, b>> \in R <=> dist[a] < dist[b] \/ (dist[a] = dist[b] /\ a < b)
  <2>1. \A a, b \in S : a \in DOMAIN ix /\ b \in DOMAIN ix
    OBVIOUS
  <2> QED BY <1>2, <1>3, <2>1 DEF Nearer
<1>5. \A a \in S : dist[a] \in Int /\ a \in Int
  BY <1>2
<1>6. IsFiniteSet(S)
  BY FS_Subset
<1>7. Orders(R, S)
  BY <1>4, <1>5 DEF Orders
<1>8. PICK s \in SetToSeqs(S) : \A i, j \in DOMAIN s : i < j => <<s[i], s[j]>> \in R
  BY <1>6, <1>7, ListExists
<1>9. \A a, b \in S : <<a, b>> \in R <=> Before(a, b)
  <2> SUFFICES ASSUME NEW a \in S, NEW b \in S PROVE <<a, b>> \in R <=> Before(a, b)
    OBVIOUS
  <2>1. dist[a] = DistSq(ix[a], query) /\ dist[b] = DistSq(ix[b], query)
    BY <1>2
  <2>2. <<a, b>> \in R <=> dist[a] < dist[b] \/ (dist[a] = dist[b] /\ a < b)
    BY <1>4
  <2> QED BY <2>1, <2>2
<1>10. ASSUME NEW t \in SetToSeqs(S)
       PROVE  (\A i, j \in DOMAIN t : i < j => <<t[i], t[j]>> \in R)
                <=> (\A i, j \in DOMAIN t : i < j => Before(t[i], t[j]))
  <2>1. \A i \in DOMAIN t : t[i] \in S
    BY DEF SetToSeqs
  <2> HIDE DEF Before
  <2> QED BY <1>9, <2>1
<1>11. PICK t : t = Sorted(S, Before)
  OBVIOUS
<1>12. t \in SetToSeqs(S) /\ \A i, j \in DOMAIN t : i < j => Before(t[i], t[j])
  <2>1. \A i, j \in DOMAIN s : i < j => Before(s[i], s[j])
    <3> HIDE DEF Before
    <3> QED BY <1>8, <1>10
  <2>2. t = CHOOSE u \in SetToSeqs(S) : \A i, j \in DOMAIN u : i < j => Before(u[i], u[j])
    BY <1>11 DEF Sorted
  <2> HIDE DEF Before
  <2> QED BY <1>8, <2>1, <2>2
<1>13. \A i, j \in DOMAIN t : i < j => <<t[i], t[j]>> \in R
  <2> HIDE DEF Before
  <2> QED BY <1>10, <1>12
<1>14. Lists(t, S, R)
  BY <1>6, <1>12, <1>13, ListOf
<1> QED BY <1>3, <1>11, <1>14

\* The m elements of t, those of `got`, come before the other elements of S.
Leads(t, m, got, S, R) ==
  /\ t \in Seq(S) /\ Len(t) = m
  /\ got \in SUBSET S
  /\ Cardinality(got) = m
  /\ \A a \in got, b \in S \ got : <<a, b>> \in R

\* The first elements of a list.
LEMMA Prefix ==
  ASSUME NEW S, IsFiniteSet(S), NEW R, NEW s, Lists(s, S, R), NEW m \in 0..Len(s),
         NEW t, t = SubSeq(s, 1, m)
  PROVE  Leads(t, m, ToSet(t), S, R)
<1>1. PICK n \in Nat : n = Len(s)
  BY DEF Lists
<1>2. /\ s \in Seq(S) /\ DOMAIN s = 1..n /\ m \in 0..n
      /\ \A i, j \in 1..n : s[i] = s[j] => i = j
      /\ \A x \in S : \E i \in 1..n : s[i] = x
      /\ \A i, j \in 1..n : i < j => <<s[i], s[j]>> \in R
  <2>1. s \in Seq(S) /\ DOMAIN s = 1..n
    BY <1>1 DEF Lists
  <2> QED BY <1>1, <2>1 DEF Lists
<1>4. t \in Seq(S) /\ Len(t) = m /\ DOMAIN t = 1..m /\ \A i \in 1..m : t[i] = s[i]
  <2>1. m \in Int /\ m <= Len(s) /\ m >= 0
    BY <1>1, <1>2
  <2>2. Len(t) = m /\ \A i \in 1..m : t[i] = s[i]
    BY <1>2, <2>1
  <2>3. \A i \in 1..m : i \in 1..n
    BY <1>2
  <2>4. t \in Seq(S)
    BY <1>2, <2>1, <2>3, <1>1
  <2> QED BY <2>2, <2>4
<1>5. PICK got : got = {t[i] : i \in DOMAIN t}
  OBVIOUS
<1>6. got = {s[i] : i \in 1..m}
  BY <1>4, <1>5
<1>7. \A i \in 1..m : i \in 1..n /\ s[i] \in S
  <2>1. \A i \in 1..m : i \in 1..n
    BY <1>2
  <2> QED BY <1>2, <2>1
<1>8. got \in SUBSET S
  BY <1>6, <1>7
<1>9. Cardinality(got) = m
  <2> DEFINE f == [i \in 1..m |-> s[i]]
  <2>1. f \in Surjection(1..m, got)
    BY <1>6 DEF Surjection
  <2>2. f \in Injection(1..m, got)
    <3>1. f \in [1..m -> got]
      BY <1>6
    <3>2. \A i, j \in 1..m : f[i] = f[j] => i = j
      BY <1>2, <1>7
    <3> HIDE DEF f
    <3>3. IsInjective(f)
      BY <3>1, <3>2 DEF IsInjective
    <3> QED BY <3>1, <3>3 DEF Injection
  <2> HIDE DEF f
  <2>3. IsFiniteSet(1..m) /\ Cardinality(1..m) = m
    <3>1. m \in Int /\ 1 \in Int /\ m \in Nat
      BY <1>2
    <3>2. IsFiniteSet(1..m) /\ Cardinality(1..m) = (IF 1 > m THEN 0 ELSE m-1+1)
      BY <3>1, FS_Interval
    <3> QED BY <3>1, <3>2
  <2>4. Cardinality(got) = Cardinality(1..m) <=> f \in Injection(1..m, got)
    BY <2>1, <2>3, FS_Surjection
  <2> QED BY <2>2, <2>3, <2>4
<1>10. ASSUME NEW a \in got, NEW b \in S \ got
       PROVE  <<a, b>> \in R
  <2>1. PICK i \in 1..m : a = s[i]
    BY <1>6
  <2>2. PICK j \in 1..n : b = s[j]
    BY <1>2
  <2>3. j \notin 1..m
    BY <1>6, <2>2
  <2>4. i < j
    BY <1>1, <1>2, <2>3
  <2> QED BY <1>2, <1>7, <2>1, <2>2, <2>4
<1>11. got = ToSet(t)
  BY <1>5 DEF ToSet
<1> QED BY <1>4, <1>8, <1>9, <1>10, <1>11 DEF Leads

\* Candidates returns the nearest ids, up to those in farther rings.
THEOREM RingSearchCorrect ==
  ASSUME NEW ix, DOMAIN ix \in SUBSET Int, IsFiniteSet(DOMAIN ix),
         \A id \in DOMAIN ix : ix[id] \in Point,
         NEW query \in Point, NEW max \in Nat
  PROVE  /\ IsNearbySearch(ix, query, max, NearestOf(ix, query, max))
         /\ NearestOf(ix, query, max) \in Seq(DOMAIN ix)
<1>1. PICK result : result = NearestOf(ix, query, max)
  OBVIOUS
<1>2. PICK got : got = {result[i] : i \in DOMAIN result}
  OBVIOUS
<1>3. SUFFICES
        /\ result \in Seq(DOMAIN ix)
        /\ Cardinality(got) = Len(result)
        /\ got \in SUBSET DOMAIN ix
        /\ Len(result) = (IF Cardinality(DOMAIN ix) < max THEN Cardinality(DOMAIN ix) ELSE max)
        /\ \A a \in got, b \in DOMAIN ix \ got :
             DistSq(ix[b], query) < DistSq(ix[a], query)
               => Rings(ix[b], query) > Rings(ix[a], query)
  BY <1>1, <1>2 DEF IsNearbySearch
<1>4. CASE DOMAIN ix = {}
  <2>1. result = <<>>
    BY <1>1, <1>4 DEF NearestOf
  <2>2. got = {} /\ Len(result) = 0 /\ result \in Seq(DOMAIN ix)
    BY <1>2, <2>1
  <2>3. Cardinality(got) = 0 /\ Cardinality(DOMAIN ix) = 0
    BY <1>4, <2>2, FS_EmptySet
  <2> QED BY <2>2, <2>3
<1>5. CASE DOMAIN ix # {}
  <2>1. PICK ids : ids = DOMAIN ix
    OBVIOUS
  <2>2. PICK rings : rings = [id \in ids |-> Rings(ix[id], query)]
    OBVIOUS
  <2>3. PICK F : F = Found(ix, query, max)
    OBVIOUS
  <2>4. Reaches(F, ids, rings, max)
    BY <1>5, <2>1, <2>2, <2>3, FoundReaches
  <2>5. /\ F \in SUBSET ids
        /\ Cardinality(F) >= max \/ F = ids
        /\ \A a \in F, b \in ids \ F : rings[a] < rings[b]
    BY <2>4 DEF Reaches
  <2> DEFINE Before(a, b) == \/ DistSq(ix[a], query) < DistSq(ix[b], query)
                             \/ DistSq(ix[a], query) = DistSq(ix[b], query) /\ a < b
  <2>6. PICK s : s = Sorted(F, Before)
    OBVIOUS
  <2>7. PICK R : R = Nearer(ix, query)
    OBVIOUS
  <2>8. Lists(s, F, R)
    BY <2>1, <2>5, <2>6, <2>7, FoundSorted
  <2>9. PICK m : m = IF Len(s) < max THEN Len(s) ELSE max
    OBVIOUS
  <2>10. result = SubSeq(s, 1, m)
    BY <1>1, <1>5, <2>3, <2>6, <2>9 DEF NearestOf
  <2> HIDE DEF Before
  <2>11. /\ IsFiniteSet(F) /\ IsFiniteSet(ids)
         /\ Cardinality(F) \in Nat /\ Cardinality(ids) \in Nat
         /\ Cardinality(F) <= Cardinality(ids)
    <3>1. IsFiniteSet(ids)
      BY <2>1
    <3>2. IsFiniteSet(F) /\ Cardinality(F) <= Cardinality(ids)
      BY <2>5, <3>1, FS_Subset
    <3> QED BY <3>1, <3>2, FS_CardinalityType
  <2>12. Len(s) = Cardinality(F)
    BY <2>8 DEF Lists
  <2>13. m \in 0..Len(s)
    BY <2>9, <2>11, <2>12
  <2>14. /\ Len(result) = m /\ result \in Seq(F)
         /\ got \in SUBSET F
         /\ Cardinality(got) = m
         /\ \A a \in got, b \in F \ got : <<a, b>> \in R
    <3>1. Leads(result, m, ToSet(result), F, R)
      BY <2>8, <2>10, <2>11, <2>13, Prefix
    <3>2. got = ToSet(result)
      BY <1>2 DEF ToSet
    <3> QED BY <3>1, <3>2 DEF Leads
  <2>15. m = IF Cardinality(ids) < max THEN Cardinality(ids) ELSE max
    <3>1. CASE F = ids
      BY <2>9, <2>12, <3>1
    <3>2. CASE Cardinality(F) >= max
      BY <2>9, <2>11, <2>12, <3>2
    <3> QED BY <2>5, <3>1, <3>2
  <2>16. ASSUME NEW a \in got, NEW b \in ids \ got,
                DistSq(ix[b], query) < DistSq(ix[a], query)
         PROVE  Rings(ix[b], query) > Rings(ix[a], query)
    <3>1. a \in ids /\ b \in ids /\ a \in F
      BY <2>5, <2>14
    <3>2. DistSq(ix[a], query) \in Int /\ DistSq(ix[b], query) \in Int
      BY <2>1, <3>1, DistSqType
    <3>3. b \notin F
      <4>1. ~ (<<a, b>> \in R)
        <5>1. /\ ~ (DistSq(ix[a], query) < DistSq(ix[b], query))
              /\ ~ (DistSq(ix[a], query) = DistSq(ix[b], query))
          BY <2>16, <3>2
        <5> QED BY <2>7, <5>1 DEF Nearer
      <4> QED BY <2>14, <4>1
    <3>4. rings[a] < rings[b]
      BY <2>5, <3>1, <3>3
    <3>5. Rings(ix[a], query) \in Nat /\ Rings(ix[b], query) \in Nat
      BY <2>1, <3>1, RingsType
    <3>6. rings[a] = Rings(ix[a], query) /\ rings[b] = Rings(ix[b], query)
      BY <2>2, <3>1
    <3> QED BY <3>4, <3>5, <3>6
  <2>17. got \in SUBSET ids /\ result \in Seq(ids)
    BY <2>5, <2>14
  <2> QED BY <2>1, <2>14, <2>15, <2>16, <2>17
<1> QED BY <1>4, <1>5

-----------------------------------------------------------------------------
\* What one assignment does to a world.

\* Driver record c is on its course for order record o, over open roads.
Underway(c, o) == Clear(c, shut) /\ Course(c, o)

\* v is w with pending order o matched with the idle driver d, or turned away as
\* it has no way to its destination.
Applied(n, v, w, o, d) ==
  /\ v \in Good(n)
  /\ v.queue = w.queue
  /\ \A p \in 1..n : p # o => v.orders[p] = w.orders[p]
  /\ \A e \in Driver : e # d => v.drivers[e] = w.drivers[e]
  /\ v.orders[o].pickup = w.orders[o].pickup /\ v.orders[o].dest = w.orders[o].dest
  /\ \/ /\ v.drivers[d].status # "idle"
        /\ v.drivers[d].pos = w.drivers[d].pos
        /\ v.drivers[d].order = o
        /\ Underway(v.drivers[d], w.orders[o])
        /\ v.orders[o].status \in {"assigned", "en_route"}
     \/ /\ v.drivers[d] = w.drivers[d]
        /\ v.orders[o].status = "unassignable"
        /\ ~Reachable(shut, w.orders[o].pickup, w.orders[o].dest)

\* A trip that is not reachable has no route, and the converse.
LEMMA RouteIfReachable ==
  ASSUME NEW closed, NEW a \in Node, NEW b \in Node
  PROVE  FindRoute(closed, a, b) = NoRoute <=> ~Reachable(closed, a, b)
<1>1. Reachable(closed, a, b) => FindRoute(closed, a, b) # NoRoute
  BY RouteType
<1>2. ~Reachable(closed, a, b) => FindRoute(closed, a, b) = NoRoute
  BY DEF FindRoute, Reachable
<1> QED BY <1>1, <1>2

\* applyAssignment does one or the other.
LEMMA ApplyOutcome ==
  ASSUME NEW n \in 0..MaxOrders, NEW w \in Good(n), NEW o \in 1..n,
         w.orders[o].status = "pending",
         NEW d \in Candidates(w, w.orders[o].pickup)
  PROVE  Applied(n, ApplyAssignment(w, o, d), w, o, d)
<1>0. d \in Driver /\ w.drivers[d].status = "idle"
  BY DEF Candidates, IdleDrivers
<1>1. PICK v : v = ApplyAssignment(w, o, d)
  OBVIOUS
<1>2. v \in Good(n)
  BY <1>0, <1>1, ApplyGood
<1>3. /\ w \in Typed(n)
      /\ w.orders \in [1..n -> OrderRecord]
      /\ w.drivers \in [Driver -> DriverRecord]
  BY GoodWorld
<1>4. PICK pickup \in Node, dest \in Node : pickup = w.orders[o].pickup /\ dest = w.orders[o].dest
  BY <1>3 DEF OrderRecord
<1>5. PICK r : r = FindRoute(shut, pickup, dest)
  OBVIOUS
<1>6. CASE r = NoRoute
  <2>1. v = Reject(w, o)
    BY <1>1, <1>4, <1>5, <1>6 DEF ApplyAssignment
  <2>2. v = [w EXCEPT !.orders = [w.orders EXCEPT ![o] = [@ EXCEPT !.status = "unassignable"]]]
    BY <2>1 DEF Reject
  <2>3. v.queue = w.queue /\ v.drivers = w.drivers
    BY <1>3, <2>2 DEF Typed
  <2>4. v.orders = [w.orders EXCEPT ![o] = [@ EXCEPT !.status = "unassignable"]]
    BY <1>3, <2>2 DEF Typed
  <2>5. \A p \in 1..n : p # o => v.orders[p] = w.orders[p]
    BY <1>3, <2>4
  <2>6. v.orders[o] = [w.orders[o] EXCEPT !.status = "unassignable"]
    BY <1>3, <2>4
  <2>7. /\ v.orders[o].pickup = w.orders[o].pickup
        /\ v.orders[o].dest = w.orders[o].dest
        /\ v.orders[o].status = "unassignable"
    BY <1>3, <2>6 DEF OrderRecord
  <2>8. ~Reachable(shut, w.orders[o].pickup, w.orders[o].dest)
    BY <1>4, <1>5, <1>6, RouteIfReachable
  <2> QED BY <1>1, <1>2, <2>3, <2>5, <2>7, <2>8 DEF Applied
<1>7. CASE r # NoRoute
  <2> DEFINE at == w.drivers[d].pos = pickup
  <2>1. PICK carrying :
          /\ v = [drivers |-> [w.drivers EXCEPT ![d] = carrying],
                  orders  |-> [w.orders EXCEPT ![o] =
                                 [@ EXCEPT !.driver = d,
                                           !.status = IF at THEN "en_route" ELSE "assigned"]],
                  queue   |-> w.queue]
          /\ carrying.status # "idle"
          /\ carrying.pos = w.drivers[d].pos
          /\ carrying.order = o
    <3> DEFINE c == [status |-> IF at THEN "delivering" ELSE "en_route_to_pickup",
                     pos |-> w.drivers[d].pos,
                     route |-> FindRoute(shut, w.drivers[d].pos, pickup) \o Tail(r),
                     index |-> 1, progress |-> w.drivers[d].progress, order |-> o]
    <3>1. v = [drivers |-> [w.drivers EXCEPT ![d] = c],
               orders  |-> [w.orders EXCEPT ![o] =
                              [@ EXCEPT !.driver = d,
                                        !.status = IF at THEN "en_route" ELSE "assigned"]],
               queue   |-> w.queue]
      BY <1>1, <1>4, <1>5, <1>7 DEF ApplyAssignment
    <3>2. c.status # "idle" /\ c.pos = w.drivers[d].pos /\ c.order = o
      OBVIOUS
    <3> HIDE DEF c
    <3> QED BY <3>1, <3>2
  <2>2. /\ v.queue = w.queue
        /\ v.drivers = [w.drivers EXCEPT ![d] = carrying]
        /\ v.orders = [w.orders EXCEPT ![o] =
                         [@ EXCEPT !.driver = d,
                                   !.status = IF at THEN "en_route" ELSE "assigned"]]
    BY <2>1
  <2>3. v.drivers[d] = carrying /\ \A e \in Driver : e # d => v.drivers[e] = w.drivers[e]
    BY <1>0, <1>3, <2>2
  <2>4. \A p \in 1..n : p # o => v.orders[p] = w.orders[p]
    BY <1>3, <2>2
  <2>5. v.orders[o] = [w.orders[o] EXCEPT !.driver = d,
                                          !.status = IF at THEN "en_route" ELSE "assigned"]
    BY <1>3, <2>2
  <2>6. /\ v.orders[o].pickup = w.orders[o].pickup
        /\ v.orders[o].dest = w.orders[o].dest
        /\ v.orders[o].status \in {"assigned", "en_route"}
    BY <1>3, <2>5 DEF OrderRecord
  <2>7. Underway(v.drivers[d], w.orders[o])
    <3>1. FindRoute(shut, w.orders[o].pickup, w.orders[o].dest) # NoRoute
      BY <1>4, <1>5, <1>7
    <3> QED BY <1>1, <3>1, ApplyUnderway DEF Underway
  <2> QED BY <1>1, <1>2, <2>1, <2>2, <2>3, <2>4, <2>6, <2>7 DEF Applied
<1> QED BY <1>6, <1>7

-----------------------------------------------------------------------------
\* What a round of dispatch may do to the drivers and the orders.

\* v is w with some pending orders given to idle drivers, which have not moved
\* and have their way before them, and some turned away; every other order is as
\* it was.
Dispatched(n, v, w) ==
  /\ v \in Good(n)
  /\ \A d \in Driver :
       \/ v.drivers[d] = w.drivers[d]
       \/ /\ w.drivers[d].status = "idle"
          /\ v.drivers[d].status # "idle"
          /\ v.drivers[d].pos = w.drivers[d].pos
          /\ v.drivers[d].order \in 1..n
          /\ w.orders[v.drivers[d].order].status = "pending"
          /\ Underway(v.drivers[d], w.orders[v.drivers[d].order])
  /\ \A p \in 1..n :
       /\ v.orders[p].pickup = w.orders[p].pickup
       /\ v.orders[p].dest = w.orders[p].dest
       /\ \/ v.orders[p] = w.orders[p]
          \/ /\ w.orders[p].status = "pending"
             /\ v.orders[p].status \in {"assigned", "en_route", "unassignable"}

\* Why order p may be turned away in w: it has no way to its destination, or some
\* idle driver cannot come to it.
Cause(w, p) ==
  \/ ~Reachable(shut, w.orders[p].pickup, w.orders[p].dest)
  \/ \E d \in Driver : /\ w.drivers[d].status = "idle"
                       /\ ~Reachable(shut, w.drivers[d].pos, w.orders[p].pickup)

\* Every order that v turns away and w does not has its cause in w.
Caused(n, v, w) ==
  \A p \in 1..n :
    w.orders[p].status = "pending" /\ v.orders[p].status = "unassignable" => Cause(w, p)

\* Nothing done is a dispatch.
LEMMA DispatchedSelf ==
  ASSUME NEW n \in 0..MaxOrders, NEW w \in Good(n)
  PROVE  Dispatched(n, w, w) /\ Caused(n, w, w)
BY DEF Dispatched, Caused

\* One assignment is a dispatch.
LEMMA AppliedDispatches ==
  ASSUME NEW n \in 0..MaxOrders, NEW w \in Good(n), NEW o \in 1..n,
         w.orders[o].status = "pending",
         NEW d \in Driver, w.drivers[d].status = "idle",
         NEW v, Applied(n, v, w, o, d)
  PROVE  Dispatched(n, v, w) /\ Caused(n, v, w)
<1>1. /\ v \in Good(n)
      /\ \A p \in 1..n : p # o => v.orders[p] = w.orders[p]
      /\ \A e \in Driver : e # d => v.drivers[e] = w.drivers[e]
      /\ v.orders[o].pickup = w.orders[o].pickup /\ v.orders[o].dest = w.orders[o].dest
  BY DEF Applied
<1>2. \/ /\ v.drivers[d].status # "idle"
         /\ v.drivers[d].pos = w.drivers[d].pos
         /\ v.drivers[d].order = o
         /\ Underway(v.drivers[d], w.orders[o])
         /\ v.orders[o].status \in {"assigned", "en_route"}
      \/ /\ v.drivers[d] = w.drivers[d]
         /\ v.orders[o].status = "unassignable"
         /\ ~Reachable(shut, w.orders[o].pickup, w.orders[o].dest)
  BY DEF Applied
<1>3. Dispatched(n, v, w)
  BY <1>1, <1>2 DEF Dispatched
<1>4. Caused(n, v, w)
  BY <1>1, <1>2 DEF Caused, Cause
<1> QED BY <1>3, <1>4

\* The baseline's answer to one order, queued elsewhere or not, is a dispatch.
LEMMA BaselineDispatches ==
  ASSUME NEW n \in 0..MaxOrders, NEW w \in Good(n), NEW o \in 1..n,
         w.orders[o].status = "pending"
  PROVE  Dispatched(n, AssignBaseline(w, o), w) /\ Caused(n, AssignBaseline(w, o), w)
<1>1. PICK v : v = AssignBaseline(w, o)
  OBVIOUS
<1>2. v \in Good(n)
  BY <1>1, AssignGood
<1>3. /\ w \in Typed(n)
      /\ w.orders \in [1..n -> OrderRecord]
      /\ w.drivers \in [Driver -> DriverRecord]
  BY GoodWorld
<1>4. PICK pickup \in Node : pickup = w.orders[o].pickup
  BY <1>3 DEF OrderRecord
<1>5. CASE Candidates(w, pickup) # {}
  <2>1. PICK d \in Candidates(w, pickup) : d = Nearest(w, pickup)
    BY <1>5, NearestType
  <2>2. d \in Driver /\ w.drivers[d].status = "idle"
    BY DEF Candidates, IdleDrivers
  <2>3. v = ApplyAssignment(w, o, d)
    BY <1>1, <1>4, <1>5, <2>1 DEF AssignBaseline
  <2>4. Applied(n, v, w, o, d)
    BY <1>4, <2>3, ApplyOutcome
  <2> QED BY <1>1, <2>2, <2>4, AppliedDispatches
<1>6. CASE Candidates(w, pickup) = {} /\ IdleDrivers(w) # {}
  <2>1. v = Reject(w, o)
    BY <1>1, <1>4, <1>6 DEF AssignBaseline
  <2>2. v = [w EXCEPT !.orders = [w.orders EXCEPT ![o] = [@ EXCEPT !.status = "unassignable"]]]
    BY <2>1 DEF Reject
  <2>3. v.drivers = w.drivers
    BY <1>3, <2>2 DEF Typed
  <2>4. v.orders = [w.orders EXCEPT ![o] = [@ EXCEPT !.status = "unassignable"]]
    BY <1>3, <2>2 DEF Typed
  <2>5. \A p \in 1..n : p # o => v.orders[p] = w.orders[p]
    BY <1>3, <2>4
  <2>6. v.orders[o] = [w.orders[o] EXCEPT !.status = "unassignable"]
    BY <1>3, <2>4
  <2>7. /\ v.orders[o].pickup = w.orders[o].pickup /\ v.orders[o].dest = w.orders[o].dest
        /\ v.orders[o].status = "unassignable"
    BY <1>3, <2>6 DEF OrderRecord
  <2>8. Dispatched(n, v, w)
    BY <1>2, <2>3, <2>5, <2>7 DEF Dispatched
  <2>9. Cause(w, o)
    <3>1. PICK d \in Driver : w.drivers[d].status = "idle"
      BY <1>6 DEF IdleDrivers
    <3>2. ~Reachable(shut, w.drivers[d].pos, w.orders[o].pickup)
      BY <1>4, <1>6, <3>1 DEF Candidates, IdleDrivers
    <3> QED BY <3>1, <3>2 DEF Cause
  <2>10. Caused(n, v, w)
    BY <2>5, <2>9 DEF Caused
  <2> QED BY <1>1, <2>8, <2>10
<1>7. CASE Candidates(w, pickup) = {} /\ IdleDrivers(w) = {}
  <2>1. v = [w EXCEPT !.queue = Append(@, o)]
    BY <1>1, <1>4, <1>7 DEF AssignBaseline
  <2>2. v.drivers = w.drivers /\ v.orders = w.orders
    BY <1>3, <2>1 DEF Typed
  <2> QED BY <1>1, <1>2, <2>2 DEF Dispatched, Caused
<1> QED BY <1>5, <1>6, <1>7

\* dispatchImmediateBaseline on a queue of one order.
LEMMA ImmediateDispatches ==
  ASSUME NEW n \in 0..MaxOrders, NEW w \in Good(n), ExactQueue(w), Len(w.queue) = 1
  PROVE  LET v == DispatchImmediate(w)
         IN  Dispatched(n, v, w) /\ Caused(n, v, w) /\ ExactQueue(v)
<1>1. PICK v : v = DispatchImmediate(w)
  OBVIOUS
<1>2. w \in Typed(n) /\ w.queue \in Seq(1..n) /\ w.orders \in [1..n -> OrderRecord]
  BY GoodWorld
<1>3. PICK o \in 1..n : o = w.queue[1] /\ w.queue = <<o>>
  <2>1. w.queue[1] \in 1..n
    BY <1>2
  <2>2. w.queue = <<w.queue[1]>>
    BY <1>2
  <2> QED BY <2>1, <2>2
<1>4. Unresolved(w) = {o}
  BY <1>3 DEF ExactQueue
<1>5. w.orders[o].status = "pending"
  BY <1>4 DEF Unresolved
<1>6. PICK u : u = [w EXCEPT !.queue = Tail(@)]
  OBVIOUS
<1>7. u = [w EXCEPT !.queue = <<>>]
  BY <1>3, <1>6
<1>8. u \in Good(n) /\ u.orders = w.orders /\ u.drivers = w.drivers /\ u.queue = <<>>
  BY <1>2, <1>7, EmptiedGood DEF Typed
<1>9. v = AssignBaseline(u, o)
  BY <1>1, <1>3, <1>6 DEF DispatchImmediate
<1>10. Dispatched(n, v, u) /\ Caused(n, v, u)
  BY <1>5, <1>8, <1>9, BaselineDispatches
<1>11. Dispatched(n, v, w)
  BY <1>8, <1>10 DEF Dispatched
<1>12. Caused(n, v, w)
  BY <1>8, <1>10 DEF Caused, Cause
<1>13. ExactQueue(v)
  <2>1. CASE IdleDrivers(u) = {}
    <3>1. v.queue = Append(u.queue, o) /\ v.orders = u.orders
      BY <1>5, <1>8, <1>9, <2>1, AssignResolvesOrQueues
    <3>2. v.queue = w.queue /\ v.orders = w.orders
      BY <1>3, <1>8, <3>1
    <3>3. Unresolved(v) = Unresolved(w)
      BY <3>2 DEF Unresolved
    <3> QED BY <3>2, <3>3, SameQueue
  <2>2. CASE IdleDrivers(u) # {}
    <3>1. v.queue = u.queue /\ Unresolved(v) = Unresolved(u) \ {o}
      BY <1>5, <1>8, <1>9, <2>2, AssignResolvesOrQueues
    <3>2. Unresolved(u) = Unresolved(w)
      BY <1>8 DEF Unresolved
    <3>3. v.queue = <<>> /\ Unresolved(v) = {}
      BY <1>4, <1>8, <3>1, <3>2
    <3> QED BY <3>3 DEF ExactQueue
  <2> QED BY <2>1, <2>2
<1> QED BY <1>1, <1>11, <1>12, <1>13

-----------------------------------------------------------------------------
\* runBatch.

\* What a batch decides for w: pairs of pending orders and idle drivers that can
\* come, none twice, and pending orders of no pair to be turned away for a cause.
Plan(n, w, pairs, infeasible) ==
  /\ pairs \in Seq((1..n) \X Driver)
  /\ \A k \in DOMAIN pairs : /\ w.orders[pairs[k][1]].status = "pending"
                             /\ pairs[k][2] \in Candidates(w, w.orders[pairs[k][1]].pickup)
                             /\ pairs[k][1] \notin infeasible
  /\ \A k, l \in DOMAIN pairs :
       pairs[k][1] = pairs[l][1] \/ pairs[k][2] = pairs[l][2] => k = l
  /\ \A o \in infeasible : o \in 1..n /\ w.orders[o].status = "pending" /\ Cause(w, o)

\* The pair of order o and driver d has been dealt with in v: the driver is
\* taken, or the order turned away as it has no way to its destination.
Settles(v, w, o, d) ==
  \/ v.drivers[d].status # "idle" /\ v.orders[o].status # "pending"
  \/ /\ v.orders[o].status = "unassignable"
     /\ ~Reachable(shut, w.orders[o].pickup, w.orders[o].dest)

\* The first k pairs have been applied to w.
PairsApplied(n, w, pairs, k, v) ==
  /\ Dispatched(n, v, w) /\ Caused(n, v, w)
  /\ v.queue = w.queue
  /\ \A j \in 1..k : Settles(v, w, pairs[j][1], pairs[j][2])
  /\ \A p \in 1..n : (\A j \in 1..k : pairs[j][1] # p) => v.orders[p] = w.orders[p]
  /\ \A e \in Driver : (\A j \in 1..k : pairs[j][2] # e) => v.drivers[e] = w.drivers[e]

\* One more pair: no earlier one has touched its order or its driver.
LEMMA PairApplied ==
  ASSUME NEW n \in 0..MaxOrders, NEW w \in Good(n), NEW pairs, NEW infeasible,
         Plan(n, w, pairs, infeasible),
         NEW k \in DOMAIN pairs, NEW u, PairsApplied(n, w, pairs, k-1, u)
  PROVE  PairsApplied(n, w, pairs, k, ApplyAssignment(u, pairs[k][1], pairs[k][2]))
<1>1. PICK o, d : o = pairs[k][1] /\ d = pairs[k][2]
  OBVIOUS
<1>2. PICK L \in Nat : DOMAIN pairs = 1..L
  <2>1. pairs \in Seq((1..n) \X Driver)
    BY DEF Plan
  <2> QED BY <2>1, LenProperties
<1>3. o \in 1..n /\ d \in Driver
  <2>1. pairs \in Seq((1..n) \X Driver)
    BY DEF Plan
  <2>2. pairs[k] \in (1..n) \X Driver
    BY <2>1
  <2> QED BY <1>1, <2>2
<1>4. k \in 1..L /\ k-1 \in 0..L
  BY <1>2
<1>5. /\ w.orders[o].status = "pending" /\ w.drivers[d].status = "idle"
      /\ Reachable(shut, w.drivers[d].pos, w.orders[o].pickup)
      /\ \A j \in 1..k-1 : pairs[j][1] # o /\ pairs[j][2] # d
  <2>1. /\ w.orders[o].status = "pending" /\ w.drivers[d].status = "idle"
        /\ Reachable(shut, w.drivers[d].pos, w.orders[o].pickup)
    <3>1. w.orders[o].status = "pending" /\ d \in Candidates(w, w.orders[o].pickup)
      BY <1>1 DEF Plan
    <3> QED BY <3>1 DEF Candidates, IdleDrivers
  <2>2. ASSUME NEW j \in 1..k-1 PROVE pairs[j][1] # o /\ pairs[j][2] # d
    <3>1. j \in DOMAIN pairs /\ j # k
      BY <1>2, <1>4
    <3> QED BY <1>1, <3>1 DEF Plan
  <2> QED BY <2>1, <2>2
<1>6. /\ Dispatched(n, u, w) /\ Caused(n, u, w)
      /\ u.queue = w.queue
      /\ \A j \in 1..k-1 : Settles(u, w, pairs[j][1], pairs[j][2])
      /\ \A p \in 1..n : (\A j \in 1..k-1 : pairs[j][1] # p) => u.orders[p] = w.orders[p]
      /\ \A e \in Driver : (\A j \in 1..k-1 : pairs[j][2] # e) => u.drivers[e] = w.drivers[e]
  BY DEF PairsApplied
<1>7. u.orders[o] = w.orders[o] /\ u.drivers[d] = w.drivers[d] /\ u \in Good(n)
  <2>1. u \in Good(n)
    BY <1>6 DEF Dispatched
  <2> QED BY <1>3, <1>5, <1>6, <2>1
<1>8. PICK v : v = ApplyAssignment(u, o, d)
  OBVIOUS
<1>9. Applied(n, v, u, o, d)
  <2>1. d \in Candidates(u, u.orders[o].pickup)
    BY <1>3, <1>5, <1>7 DEF Candidates, IdleDrivers
  <2> QED BY <1>3, <1>5, <1>7, <1>8, <2>1, ApplyOutcome
<1>10. /\ v \in Good(n)
       /\ v.queue = w.queue
       /\ \A p \in 1..n : p # o => v.orders[p] = u.orders[p]
       /\ \A e \in Driver : e # d => v.drivers[e] = u.drivers[e]
       /\ v.orders[o].pickup = w.orders[o].pickup /\ v.orders[o].dest = w.orders[o].dest
       /\ \/ /\ v.drivers[d].status # "idle"
             /\ v.drivers[d].pos = w.drivers[d].pos
             /\ v.drivers[d].order = o
             /\ Underway(v.drivers[d], w.orders[o])
             /\ v.orders[o].status \in {"assigned", "en_route"}
          \/ /\ v.drivers[d] = w.drivers[d]
             /\ v.orders[o].status = "unassignable"
             /\ ~Reachable(shut, w.orders[o].pickup, w.orders[o].dest)
  <2>1. u.orders[o].pickup = w.orders[o].pickup /\ u.orders[o].dest = w.orders[o].dest
    BY <1>7
  <2> QED BY <1>6, <1>7, <1>9, <2>1 DEF Applied
<1>11. Dispatched(n, v, w)
  <2>1. ASSUME NEW e \in Driver
        PROVE  \/ v.drivers[e] = w.drivers[e]
               \/ /\ w.drivers[e].status = "idle"
                  /\ v.drivers[e].status # "idle"
                  /\ v.drivers[e].pos = w.drivers[e].pos
                  /\ v.drivers[e].order \in 1..n
                  /\ w.orders[v.drivers[e].order].status = "pending"
                  /\ Underway(v.drivers[e], w.orders[v.drivers[e].order])
    <3>1. CASE e = d
      BY <1>3, <1>5, <1>10, <3>1
    <3>2. CASE e # d
      <4>1. v.drivers[e] = u.drivers[e]
        BY <1>10, <3>2
      <4> QED BY <1>6, <4>1 DEF Dispatched
    <3> QED BY <3>1, <3>2
  <2>2. ASSUME NEW p \in 1..n
        PROVE  /\ v.orders[p].pickup = w.orders[p].pickup
               /\ v.orders[p].dest = w.orders[p].dest
               /\ \/ v.orders[p] = w.orders[p]
                  \/ /\ w.orders[p].status = "pending"
                     /\ v.orders[p].status \in {"assigned", "en_route", "unassignable"}
    <3>1. CASE p = o
      BY <1>5, <1>10, <3>1
    <3>2. CASE p # o
      <4>1. v.orders[p] = u.orders[p]
        BY <1>10, <3>2
      <4> QED BY <1>6, <4>1 DEF Dispatched
    <3> QED BY <3>1, <3>2
  <2> QED BY <1>10, <2>1, <2>2 DEF Dispatched
<1>12. Caused(n, v, w)
  <2> SUFFICES ASSUME NEW p \in 1..n, w.orders[p].status = "pending", v.orders[p].status = "unassignable"
               PROVE  Cause(w, p)
    BY DEF Caused
  <2>1. CASE p = o
    BY <1>10, <2>1 DEF Cause
  <2>2. CASE p # o
    <3>1. u.orders[p].status = "unassignable"
      BY <1>10, <2>2
    <3> QED BY <1>6, <3>1 DEF Caused
  <2> QED BY <2>1, <2>2
<1>13. ASSUME NEW j \in 1..k
       PROVE  Settles(v, w, pairs[j][1], pairs[j][2])
  <2>1. CASE j = k
    BY <1>1, <1>10, <2>1 DEF Settles
  <2>2. CASE j # k
    <3>1. j \in 1..k-1 /\ j \in DOMAIN pairs
      BY <1>2, <1>4, <2>2
    <3>2. PICK p, e : p = pairs[j][1] /\ e = pairs[j][2]
      OBVIOUS
    <3>3. p # o /\ e # d
      BY <1>5, <3>1, <3>2
    <3>4. p \in 1..n /\ e \in Driver
      <4>1. pairs \in Seq((1..n) \X Driver)
        BY DEF Plan
      <4>2. pairs[j] \in (1..n) \X Driver
        BY <3>1, <4>1
      <4> QED BY <3>2, <4>2
    <3>5. v.orders[p] = u.orders[p] /\ v.drivers[e] = u.drivers[e]
      BY <1>10, <3>3, <3>4
    <3>6. Settles(u, w, p, e)
      BY <1>6, <3>1, <3>2
    <3> QED BY <3>2, <3>5, <3>6 DEF Settles
  <2> QED BY <2>1, <2>2
<1>14. k \in 1..k /\ \A j \in 1..k-1 : j \in 1..k
  BY <1>4
<1>15. ASSUME NEW p \in 1..n, \A j \in 1..k : pairs[j][1] # p
       PROVE  v.orders[p] = w.orders[p]
  <2>1. p # o
    BY <1>1, <1>14, <1>15
  <2>2. u.orders[p] = w.orders[p]
    BY <1>6, <1>14, <1>15
  <2> QED BY <1>10, <2>1, <2>2
<1>16. ASSUME NEW e \in Driver, \A j \in 1..k : pairs[j][2] # e
       PROVE  v.drivers[e] = w.drivers[e]
  <2>1. e # d
    BY <1>1, <1>14, <1>16
  <2>2. u.drivers[e] = w.drivers[e]
    BY <1>6, <1>14, <1>16
  <2> QED BY <1>10, <2>1, <2>2
<1>17. PairsApplied(n, w, pairs, k, v)
  BY <1>10, <1>11, <1>12, <1>13, <1>15, <1>16 DEF PairsApplied
<1> QED BY <1>1, <1>8, <1>17

\* The loop over the pairs.
LEMMA AllPairsApplied ==
  ASSUME NEW n \in 0..MaxOrders, NEW w \in Good(n), NEW pairs, NEW infeasible,
         Plan(n, w, pairs, infeasible)
  PROVE  LET Apply(v, pair) == ApplyAssignment(v, pair[1], pair[2])
         IN  PairsApplied(n, w, pairs, Len(pairs), Iterate(Apply, w, pairs))
<1> DEFINE Apply(v, pair) == ApplyAssignment(v, pair[1], pair[2])
           S    == Good(n)
           Q    == (1..n) \X Driver
           F    == [x \in S \X Q |-> Apply(x[1], x[2])]
           L    == Len(pairs)
           acc  == CHOOSE g : g = [k \in 0..L |-> IF k = 0 THEN w ELSE Apply(g[k-1], pairs[k])]
<1>1. pairs \in Seq(Q) /\ L \in Nat /\ DOMAIN pairs = 1..L /\ \A k \in 1..L : pairs[k] \in Q
  <2>1. pairs \in Seq(Q)
    BY DEF Plan
  <2> HIDE DEF Q
  <2> QED BY <2>1, LenProperties, ElementOfSeq
<1>2. Iterate(Apply, w, pairs) = acc[L]
  BY DEF Iterate
<1>3. PICK h : IsRun(h, F, w, pairs, L)
  BY <1>1, RunExists
<1>4. ASSUME NEW v \in S, NEW x \in Q
      PROVE  F[<<v, x>>] = Apply(v, x)
  <2> HIDE DEF S, Q, Apply
  <2> QED OBVIOUS
<1>5. \A v, x : Apply(v, x) = ApplyAssignment(v, x[1], x[2])
  OBVIOUS
<1> HIDE DEF F, Apply, L, Q
<1>6. ASSUME NEW k \in 0..L
      PROVE  h[k] = IF k = 0 THEN w ELSE F[<<h[k-1], pairs[k]>>]
  BY <1>1, <1>3 DEF IsRun
<1>7. PairsApplied(n, w, pairs, 0, w)
  <2>1. Dispatched(n, w, w) /\ Caused(n, w, w)
    BY DispatchedSelf
  <2> QED BY <2>1 DEF PairsApplied
<1>8. ASSUME NEW k \in 1..L, PairsApplied(n, w, pairs, k-1, h[k-1])
      PROVE  PairsApplied(n, w, pairs, k, h[k]) /\ h[k] = Apply(h[k-1], pairs[k])
  <2>1. h[k-1] \in S
    BY <1>8 DEF PairsApplied, Dispatched
  <2>2. k \in 0..L /\ k # 0 /\ k \in DOMAIN pairs
    BY <1>1
  <2>3. h[k] = Apply(h[k-1], pairs[k])
    BY <1>1, <1>4, <1>6, <2>1, <2>2
  <2>4. PairsApplied(n, w, pairs, k, Apply(h[k-1], pairs[k]))
    BY <1>5, <1>8, <2>2, PairApplied
  <2> QED BY <2>3, <2>4
<1>9. \A k \in 0..L : PairsApplied(n, w, pairs, k, h[k])
  <2>1. PICK G : G = {k \in 0..L : PairsApplied(n, w, pairs, k, h[k])}
    OBVIOUS
  <2>2. PICK id : id = [k \in 0..L |-> k]
    OBVIOUS
  <2>6. 0 \in 0..L
    BY <1>1
  <2>7. h[0] = w
    BY <1>6, <2>6
  <2>3. id[0] \in G
    BY <1>7, <2>1, <2>2, <2>6, <2>7
  <2>4. ASSUME NEW k \in 1..L, id[k-1] \in G PROVE id[k] \in G
    <3>1. k-1 \in 0..L /\ k \in 0..L
      BY <1>1
    <3> QED BY <1>8, <2>1, <2>2, <2>4, <3>1
  <2>5. \A k \in 0..L : id[k] \in G
    BY <1>1, <2>3, <2>4, LoopInvariant
  <2> QED BY <2>1, <2>2, <2>5
<1>10. ASSUME NEW k \in 0..L
       PROVE  h[k] = IF k = 0 THEN w ELSE Apply(h[k-1], pairs[k])
  <2>1. CASE k = 0
    BY <1>6, <2>1
  <2>2. CASE k # 0
    <3>1. k \in 1..L /\ k-1 \in 0..L
      BY <1>1, <2>2
    <3> QED BY <1>8, <1>9, <2>2, <3>1
  <2> QED BY <2>1, <2>2
<1>11. h = [k \in 0..L |-> IF k = 0 THEN w ELSE Apply(h[k-1], pairs[k])]
  BY <1>3, <1>10 DEF IsRun
<1>12. acc = [k \in 0..L |-> IF k = 0 THEN w ELSE Apply(acc[k-1], pairs[k])]
  BY <1>11
<1> HIDE DEF acc
<1>13. ASSUME NEW k \in 0..L
       PROVE  acc[k] = IF k = 0 THEN w ELSE Apply(acc[k-1], pairs[k])
  BY <1>12
<1>14. \A k \in 0..L : acc[k] = h[k]
  <2>1. PICK G : G = {k \in 0..L : acc[k] = h[k]}
    OBVIOUS
  <2>2. PICK id : id = [k \in 0..L |-> k]
    OBVIOUS
  <2>3. id[0] \in G
    BY <1>1, <1>10, <1>13, <2>1, <2>2
  <2>4. ASSUME NEW k \in 1..L, id[k-1] \in G PROVE id[k] \in G
    <3>1. k-1 \in 0..L /\ k \in 0..L /\ k # 0
      BY <1>1
    <3>2. acc[k-1] = h[k-1]
      BY <2>1, <2>2, <2>4, <3>1
    <3>3. acc[k] = Apply(acc[k-1], pairs[k]) /\ h[k] = Apply(h[k-1], pairs[k])
      BY <1>10, <1>13, <3>1
    <3> QED BY <2>1, <2>2, <3>1, <3>2, <3>3
  <2>5. \A k \in 0..L : id[k] \in G
    BY <1>1, <2>3, <2>4, LoopInvariant
  <2> QED BY <2>1, <2>2, <2>5
<1>15. L \in 0..L
  BY <1>1
<1>16. PairsApplied(n, w, pairs, L, acc[L])
  BY <1>9, <1>14, <1>15
<1>17. PairsApplied(n, w, pairs, Len(pairs), Iterate(Apply, w, pairs))
  BY <1>2, <1>16 DEF L
<1> QED BY <1>17 DEF Apply

\* s is what is left of the first k elements of q without those of `out`, in
\* ascending order.
Kept(n, s, q, out, k) ==
  /\ s \in Seq(1..n)
  /\ \A i, j \in 1..Len(s) : i < j => s[i] < s[j]
  /\ {s[i] : i \in 1..Len(s)} = {q[j] : j \in 1..k} \ out

\* One more element of the queue.
LEMMA OneMoreKept ==
  ASSUME NEW n \in Nat, NEW q \in Seq(1..n), NEW out, NEW k \in 1..Len(q),
         \A i, j \in 1..Len(q) : i < j => q[i] < q[j],
         NEW s, Kept(n, s, q, out, k-1)
  PROVE  Kept(n, IF q[k] \in out THEN s ELSE Append(s, q[k]), q, out, k)
<1>1. PICK L \in Nat : L = Len(q) /\ k \in 1..L
  OBVIOUS
<1>2. /\ s \in Seq(1..n) /\ Len(s) \in Nat /\ DOMAIN s = 1..Len(s)
      /\ \A i, j \in 1..Len(s) : i < j => s[i] < s[j]
      /\ {s[i] : i \in 1..Len(s)} = {q[j] : j \in 1..k-1} \ out
  <2>1. s \in Seq(1..n)
    BY DEF Kept
  <2>2. Len(s) \in Nat /\ DOMAIN s = 1..Len(s)
    BY <2>1
  <2> QED BY <2>1, <2>2 DEF Kept
<1>3. {q[j] : j \in 1..k} = {q[j] : j \in 1..k-1} \union {q[k]}
  <2>1. \A j \in 1..k : j \in 1..k-1 \/ j = k
    BY <1>1
  <2>2. k \in 1..k /\ \A j \in 1..k-1 : j \in 1..k
    BY <1>1
  <2> QED BY <2>1, <2>2
<1>4. CASE q[k] \in out
  BY <1>2, <1>3, <1>4 DEF Kept
<1>5. CASE q[k] \notin out
  <2>1. PICK t : t = Append(s, q[k])
    OBVIOUS
  <2>2. q[k] \in 1..n
    BY <1>1
  <2>3. PICK l \in Nat : l = Len(s)
    BY <1>2
  <2>4. /\ t \in Seq(1..n) /\ Len(t) = l+1
        /\ t[l+1] = q[k] /\ \A i \in 1..l : t[i] = s[i]
    BY <1>2, <2>1, <2>2, <2>3
  <2>5. \A i \in 1..l+1 : i \in 1..l \/ i = l+1
    BY <2>3
  <2>6. l+1 \in 1..l+1 /\ \A i \in 1..l : i \in 1..l+1
    BY <2>3
  <2>7. {t[i] : i \in 1..l+1} = {s[i] : i \in 1..l} \union {q[k]}
    BY <2>4, <2>5, <2>6
  <2>8. {t[i] : i \in 1..Len(t)} = {q[j] : j \in 1..k} \ out
    BY <1>2, <1>3, <1>5, <2>3, <2>4, <2>7
  <2>9. \A i \in 1..l : s[i] < q[k]
    <3> SUFFICES ASSUME NEW i \in 1..l PROVE s[i] < q[k]
      OBVIOUS
    <3>1. s[i] \in {q[j] : j \in 1..k-1}
      BY <1>2, <2>3
    <3>2. PICK j \in 1..k-1 : s[i] = q[j]
      BY <3>1
    <3>3. j \in 1..Len(q) /\ k \in 1..Len(q) /\ j < k
      BY <1>1
    <3> QED BY <3>2, <3>3
  <2>10. ASSUME NEW i \in 1..Len(t), NEW j \in 1..Len(t), i < j
         PROVE  t[i] < t[j]
    <3>1. i \in 1..l
      BY <2>3, <2>4, <2>10
    <3>2. CASE j = l+1
      BY <2>4, <2>9, <3>1, <3>2
    <3>3. CASE j # l+1
      <4>1. j \in 1..l
        BY <2>3, <2>4, <3>3
      <4> QED BY <1>2, <2>3, <2>4, <2>10, <3>1, <4>1
    <3> QED BY <3>2, <3>3
  <2>11. Kept(n, t, q, out, k)
    BY <2>4, <2>8, <2>10 DEF Kept
  <2> QED BY <1>5, <2>1, <2>11
<1> QED BY <1>4, <1>5

\* The queue without the orders of `out`, as runBatch rebuilds it.
Filtered(queued, out) ==
  LET Keep(v, o) == IF o \in out THEN v ELSE Append(v, o)
  IN  Iterate(Keep, <<>>, queued)

\* What a batch has resolved leaves the queue, the rest stays in order.
LEMMA QueueFiltered ==
  ASSUME NEW n \in Nat, NEW queued \in Seq(1..n), NEW out,
         \A i, j \in 1..Len(queued) : i < j => queued[i] < queued[j]
  PROVE  Kept(n, Filtered(queued, out), queued, out, Len(queued))
<1> DEFINE Step(v, o) == IF o \in out THEN v ELSE Append(v, o)
           S    == Seq(1..n)
           Q    == 1..n
           F    == [x \in S \X Q |-> Step(x[1], x[2])]
           init == <<>>
           q    == queued
           acc  == CHOOSE g : g = [k \in 0..Len(q) |-> IF k = 0 THEN init ELSE Step(g[k-1], q[k])]
<1>1. init \in S /\ q \in Seq(Q)
  OBVIOUS
<1>2. ASSUME NEW v \in S, NEW o \in Q
      PROVE  Step(v, o) \in S
  <2>1. Append(v, o) \in Seq(1..n)
    OBVIOUS
  <2> QED BY <2>1
<1>3. ASSUME NEW v \in S, NEW o \in Q
      PROVE  F[<<v, o>>] = Step(v, o)
  <2> HIDE DEF S, Q, Step
  <2> QED OBVIOUS
<1>4. Filtered(queued, out) = acc[Len(q)]
  BY DEF Filtered, Iterate
<1> HIDE DEF S, Q, Step, init, q
<1>5. \A v \in S, o \in Q : F[<<v, o>>] \in S
  BY <1>2, <1>3
<1>6. Len(q) \in Nat /\ \A k \in 1..Len(q) : q[k] \in Q
  BY <1>1, LenProperties, ElementOfSeq
<1> HIDE DEF F
<1>7. PICK h : IsTypedRun(h, S, F, init, q)
  BY <1>1, <1>5, TypedRun
<1>8. /\ h \in [0..Len(q) -> S]
      /\ \A k \in 0..Len(q) : h[k] = IF k = 0 THEN init ELSE Step(h[k-1], q[k])
  <2>1. ASSUME NEW k \in 0..Len(q)
        PROVE  h[k] = IF k = 0 THEN init ELSE Step(h[k-1], q[k])
    <3>1. CASE k = 0
      BY <1>7, <3>1 DEF IsTypedRun
    <3>2. CASE k # 0
      <4>1. k \in 1..Len(q) /\ k-1 \in 0..Len(q) /\ q[k] \in Q
        BY <1>6, <3>2
      <4>2. h[k-1] \in S /\ h[k] = F[<<h[k-1], q[k]>>]
        BY <4>1, <1>7 DEF IsTypedRun
      <4> QED BY <3>2, <4>1, <4>2, <1>3
    <3> QED BY <3>1, <3>2
  <2> QED BY <1>7, <2>1 DEF IsTypedRun
<1>9. h = [k \in 0..Len(q) |-> IF k = 0 THEN init ELSE Step(h[k-1], q[k])]
  BY <1>8
<1>10. acc = [k \in 0..Len(q) |-> IF k = 0 THEN init ELSE Step(acc[k-1], q[k])]
  BY <1>9
<1> HIDE DEF acc
<1>11. ASSUME NEW k \in 0..Len(q)
       PROVE  acc[k] = IF k = 0 THEN init ELSE Step(acc[k-1], q[k])
  BY <1>10
<1>12. acc[0] = init
  <2>1. 0 \in 0..Len(q)
    BY <1>6
  <2> QED BY <1>11, <2>1
<1>13. ASSUME NEW k \in 1..Len(q)
       PROVE  acc[k] = Step(acc[k-1], q[k])
  <2>1. k \in 0..Len(q) /\ k # 0
    BY <1>6
  <2> QED BY <1>11, <2>1
<1>14. \A k \in 0..Len(q) : acc[k] \in S
  <2>1. ASSUME NEW k \in 1..Len(q), acc[k-1] \in S
        PROVE  acc[k] \in S
    BY <1>2, <1>6, <1>13, <2>1
  <2> QED BY <1>1, <1>6, <1>12, <2>1, LoopInvariant
<1>15. \A v, o : Step(v, o) = IF o \in out THEN v ELSE Append(v, o)
  BY DEF Step
<1>16. q = queued /\ init = <<>>
  BY DEF q, init
<1>17. PICK m \in Nat : m = Len(q)
  BY <1>6
<1>18. \A k \in 0..m : Kept(n, acc[k], q, out, k)
  <2>1. PICK G : G = {k \in 0..m : Kept(n, acc[k], q, out, k)}
    OBVIOUS
  <2>2. PICK id : id = [k \in 0..m |-> k]
    OBVIOUS
  <2>3. id[0] \in G
    <3>1. acc[0] = <<>>
      BY <1>12, <1>16
    <3>2. Kept(n, <<>>, q, out, 0)
      BY DEF Kept
    <3>3. 0 \in 0..m
      OBVIOUS
    <3> QED BY <2>1, <2>2, <3>1, <3>2, <3>3
  <2>4. ASSUME NEW k \in 1..m, id[k-1] \in G PROVE id[k] \in G
    <3>1. k-1 \in 0..m /\ k \in 0..m /\ k \in 1..Len(q)
      BY <1>17
    <3>2. Kept(n, acc[k-1], q, out, k-1)
      BY <2>1, <2>2, <2>4, <3>1
    <3>3. acc[k] = IF q[k] \in out THEN acc[k-1] ELSE Append(acc[k-1], q[k])
      BY <1>13, <1>15, <3>1
    <3>4. Kept(n, acc[k], q, out, k)
      BY <1>16, <3>1, <3>2, <3>3, OneMoreKept
    <3> QED BY <2>1, <2>2, <3>1, <3>4
  <2>5. \A k \in 0..m : id[k] \in G
    BY <2>3, <2>4, LoopInvariant
  <2> QED BY <2>1, <2>2, <2>5
<1>19. Kept(n, acc[m], q, out, m)
  <2>1. m \in 0..m
    OBVIOUS
  <2> QED BY <1>18, <2>1
<1>20. Kept(n, Filtered(queued, out), queued, out, Len(queued))
  BY <1>4, <1>16, <1>17, <1>19
<1> QED BY <1>20

\* What a batch leaves of w.
BatchDone(n, v, w, result) ==
  /\ Dispatched(n, v, w) /\ Caused(n, v, w) /\ ExactQueue(v)
  /\ \A k \in DOMAIN result.assigned :
       Settles(v, w, result.assigned[k][1], result.assigned[k][2])
  /\ \A o \in Unresolved(v) : /\ o \in Unresolved(w)
                              /\ o \notin result.infeasible
                              /\ \A k \in DOMAIN result.assigned : result.assigned[k][1] # o
  /\ \A e \in Driver : (\A k \in DOMAIN result.assigned : result.assigned[k][2] # e)
                          => v.drivers[e] = w.drivers[e]

\* runBatch carries out what can be carried out.
LEMMA RunBatchDone ==
  ASSUME NEW n \in 0..MaxOrders, NEW w \in Good(n), ExactQueue(w), NEW result,
         Plan(n, w, result.assigned, result.infeasible)
  PROVE  BatchDone(n, RunBatch(w, result), w, result)
<1> DEFINE Apply(u, pair) == ApplyAssignment(u, pair[1], pair[2])
<1>1. PICK pairs, out : pairs = result.assigned /\ out = result.infeasible
  OBVIOUS
<1>2. Plan(n, w, pairs, out)
  BY <1>1
<1>3. PICK L \in Nat : L = Len(pairs) /\ DOMAIN pairs = 1..L
  <2>1. pairs \in Seq((1..n) \X Driver)
    BY <1>2 DEF Plan
  <2> QED BY <2>1, LenProperties
<1>4. PICK m : m = Iterate(Apply, w, result.assigned)
  OBVIOUS
<1>5. PairsApplied(n, w, pairs, L, m)
  <2>1. PairsApplied(n, w, pairs, Len(pairs), Iterate(Apply, w, pairs))
    BY <1>2, AllPairsApplied
  <2>2. m = Iterate(Apply, w, pairs)
    BY <1>1, <1>4
  <2> QED BY <1>3, <2>1, <2>2
<1>6. /\ Dispatched(n, m, w) /\ Caused(n, m, w)
      /\ m.queue = w.queue
      /\ \A j \in 1..L : Settles(m, w, pairs[j][1], pairs[j][2])
      /\ \A p \in 1..n : (\A j \in 1..L : pairs[j][1] # p) => m.orders[p] = w.orders[p]
      /\ \A e \in Driver : (\A j \in 1..L : pairs[j][2] # e) => m.drivers[e] = w.drivers[e]
  BY <1>5 DEF PairsApplied
<1>7. /\ m \in Good(n) /\ m \in Typed(n) /\ m.orders \in [1..n -> OrderRecord]
      /\ w.orders \in [1..n -> OrderRecord] /\ DOMAIN m.orders = 1..n /\ DOMAIN w.orders = 1..n
      /\ m.drivers \in [Driver -> DriverRecord]
      /\ w.queue \in Seq(1..n) /\ n \in Nat
  <2>1. m \in Good(n)
    BY <1>6 DEF Dispatched
  <2>2. n \in Nat
    BY SimulationAssumption
  <2> QED BY <2>1, <2>2, GoodWorld
<1>8. PICK resolved : resolved = {pair[1] : pair \in ToSet(pairs)} \union out
  OBVIOUS
<1>9. \A p : p \in resolved <=> p \in out \/ \E j \in 1..L : p = pairs[j][1]
  BY <1>3, <1>8 DEF ToSet
<1>10. PICK q : q = Filtered(w.queue, resolved)
  OBVIOUS
<1>11. Kept(n, q, w.queue, resolved, Len(w.queue))
  <2>1. \A i, j \in 1..Len(w.queue) : i < j => w.queue[i] < w.queue[j]
    <3>1. \A i, j \in DOMAIN w.queue : i < j => w.queue[i] < w.queue[j]
      BY DEF ExactQueue
    <3>2. w.queue \in Seq(1..n)
      BY GoodWorld
    <3>3. DOMAIN w.queue = 1..Len(w.queue)
      BY <3>2, LenProperties
    <3> QED BY <3>1, <3>3
  <2> QED BY <1>7, <1>10, <2>1, QueueFiltered
<1>12. PICK v : v = RunBatch(w, result)
  OBVIOUS
<1> DEFINE Turned(orders0) ==
             [o \in DOMAIN orders0 |->
                IF o \in result.infeasible THEN [orders0[o] EXCEPT !.status = "unassignable"]
                ELSE orders0[o]]
<1>13. v = [m EXCEPT !.orders = Turned(@),
                     !.queue = Filtered(@, {pair[1] : pair \in ToSet(result.assigned)}
                                             \union result.infeasible)]
  BY <1>4, <1>12 DEF RunBatch, Filtered
<1> HIDE DEF Apply
<1>14. /\ v.drivers = m.drivers
       /\ v.queue = Filtered(m.queue, resolved)
       /\ v.orders = [o \in DOMAIN m.orders |->
                        IF o \in out THEN [m.orders[o] EXCEPT !.status = "unassignable"]
                        ELSE m.orders[o]]
       /\ v = [drivers |-> v.drivers, orders |-> v.orders, queue |-> v.queue]
  <2>1. Turned(m.orders) = [o \in DOMAIN m.orders |->
                              IF o \in out THEN [m.orders[o] EXCEPT !.status = "unassignable"]
                              ELSE m.orders[o]]
    BY <1>1
  <2> HIDE DEF Turned
  <2>2. v = [m EXCEPT !.orders = Turned(m.orders), !.queue = Filtered(m.queue, resolved)]
    BY <1>1, <1>7, <1>8, <1>13 DEF Typed
  <2> QED BY <1>7, <2>1, <2>2 DEF Typed
<1>15. v.queue = q
  BY <1>6, <1>10, <1>14
<1>16. ASSUME NEW p \in 1..n
       PROVE  /\ p \notin out => v.orders[p] = m.orders[p]
              /\ p \in out => v.orders[p] = [m.orders[p] EXCEPT !.status = "unassignable"]
  BY <1>7, <1>14
<1>17. ASSUME NEW o \in out
       PROVE  /\ o \in 1..n
              /\ m.orders[o] = w.orders[o] /\ m.orders[o].status = "pending"
              /\ Cause(w, o)
  <2>1. o \in 1..n /\ w.orders[o].status = "pending" /\ Cause(w, o)
    BY <1>2 DEF Plan
  <2>2. \A j \in 1..L : pairs[j][1] # o
    <3>1. \A j \in DOMAIN pairs : pairs[j][1] \notin out
      BY <1>2 DEF Plan
    <3> QED BY <1>3, <3>1
  <2> QED BY <1>6, <2>1, <2>2
<1>18. ASSUME NEW p \in 1..n
       PROVE  /\ v.orders[p] \in OrderRecord
              /\ v.orders[p].pickup = m.orders[p].pickup
              /\ v.orders[p].dest = m.orders[p].dest
              /\ v.orders[p].driver = m.orders[p].driver
              /\ p \in out => v.orders[p].status = "unassignable"
  <2>1. m.orders[p] \in OrderRecord
    BY <1>7
  <2>2. CASE p \in out
    BY <1>16, <2>1, <2>2 DEF OrderRecord, OrderStatus
  <2>3. CASE p \notin out
    BY <1>16, <2>1, <2>3
  <2> QED BY <2>2, <2>3
<1>19. v.orders \in [1..n -> OrderRecord] /\ DOMAIN v.orders = 1..n
  BY <1>7, <1>14, <1>18
<1>20. q \in Seq(1..n)
  BY <1>11 DEF Kept
<1>21. v \in Typed(n)
  BY <1>7, <1>14, <1>15, <1>19, <1>20 DEF Typed
<1>22. Paired(v.drivers, v.orders)
  <2>1. Paired(m.drivers, m.orders)
    BY <1>7 DEF Good
  <2>2. ASSUME NEW d \in Driver, m.drivers[d].status # "idle"
        PROVE  /\ m.drivers[d].order \in 1..n
               /\ v.orders[m.drivers[d].order] = m.orders[m.drivers[d].order]
    <3>1. /\ m.drivers[d].order \in 1..n
          /\ m.orders[m.drivers[d].order].status \in {"assigned", "en_route"}
      BY <1>7, <2>2, BusyDriver
    <3>2. m.drivers[d].order \notin out
      BY <1>17, <3>1
    <3> QED BY <1>16, <3>1, <3>2
  <2>3. ASSUME NEW d \in Driver
        PROVE  IF v.drivers[d].status = "idle"
               THEN v.drivers[d].order = NoOrder /\ v.drivers[d].route = NoRoute
                      /\ v.drivers[d].index = 1
               ELSE /\ v.drivers[d].order \in DOMAIN v.orders
                    /\ v.orders[v.drivers[d].order].driver = d
                    /\ v.orders[v.drivers[d].order].status = OrderStatusOf[v.drivers[d].status]
    <3>1. v.drivers[d] = m.drivers[d]
      BY <1>14
    <3>2. CASE m.drivers[d].status = "idle"
      BY <2>1, <3>1, <3>2 DEF Paired
    <3>3. CASE m.drivers[d].status # "idle"
      BY <1>19, <2>1, <2>2, <3>1, <3>3 DEF Paired
    <3> QED BY <3>2, <3>3
  <2>4. ASSUME NEW o \in DOMAIN v.orders, v.orders[o].status \in {"assigned", "en_route"}
        PROVE  /\ v.orders[o].driver \in Driver
               /\ v.drivers[v.orders[o].driver].status # "idle"
               /\ v.drivers[v.orders[o].driver].order = o
    <3>1. o \in 1..n
      BY <1>19
    <3>2. o \notin out
      BY <1>18, <2>4, <3>1
    <3>3. v.orders[o] = m.orders[o]
      BY <1>16, <3>1, <3>2
    <3> QED BY <1>7, <1>14, <2>4, <3>1, <3>3, CarriedOrder
  <2> QED BY <2>3, <2>4 DEF Paired
<1>23. v \in Good(n)
  BY <1>21, <1>22 DEF Good
<1>24. Dispatched(n, v, w)
  <2>1. ASSUME NEW p \in 1..n
        PROVE  /\ v.orders[p].pickup = w.orders[p].pickup
               /\ v.orders[p].dest = w.orders[p].dest
               /\ \/ v.orders[p] = w.orders[p]
                  \/ /\ w.orders[p].status = "pending"
                     /\ v.orders[p].status \in {"assigned", "en_route", "unassignable"}
    <3>1. /\ m.orders[p].pickup = w.orders[p].pickup
          /\ m.orders[p].dest = w.orders[p].dest
          /\ \/ m.orders[p] = w.orders[p]
             \/ /\ w.orders[p].status = "pending"
                /\ m.orders[p].status \in {"assigned", "en_route", "unassignable"}
      BY <1>6 DEF Dispatched
    <3>2. p \in out => w.orders[p].status = "pending"
      BY <1>17
    <3> QED BY <1>16, <1>18, <3>1, <3>2
  <2>2. ASSUME NEW d \in Driver
        PROVE  \/ v.drivers[d] = w.drivers[d]
               \/ /\ w.drivers[d].status = "idle"
                  /\ v.drivers[d].status # "idle"
                  /\ v.drivers[d].pos = w.drivers[d].pos
                  /\ v.drivers[d].order \in 1..n
                  /\ w.orders[v.drivers[d].order].status = "pending"
                  /\ Underway(v.drivers[d], w.orders[v.drivers[d].order])
    BY <1>6, <1>14 DEF Dispatched
  <2> QED BY <1>23, <2>1, <2>2 DEF Dispatched
<1>25. Caused(n, v, w)
  <2> SUFFICES ASSUME NEW p \in 1..n, w.orders[p].status = "pending", v.orders[p].status = "unassignable"
               PROVE  Cause(w, p)
    BY DEF Caused
  <2>1. CASE p \in out
    BY <1>17, <2>1
  <2>2. CASE p \notin out
    <3>1. m.orders[p].status = "unassignable"
      BY <1>16, <2>2
    <3> QED BY <1>6, <3>1 DEF Caused
  <2> QED BY <2>1, <2>2
<1>26. ASSUME NEW k \in 1..L
       PROVE  Settles(v, w, pairs[k][1], pairs[k][2])
  <2>1. pairs[k][1] \in 1..n /\ pairs[k][1] \notin out
    <3>1. pairs \in Seq((1..n) \X Driver)
      BY <1>2 DEF Plan
    <3>2. pairs[k] \in (1..n) \X Driver
      BY <1>3, <3>1
    <3>3. pairs[k][1] \notin out
      BY <1>2, <1>3 DEF Plan
    <3> QED BY <3>2, <3>3
  <2>2. v.orders[pairs[k][1]] = m.orders[pairs[k][1]]
    BY <1>16, <2>1
  <2>3. Settles(m, w, pairs[k][1], pairs[k][2])
    BY <1>6
  <2> QED BY <1>14, <2>2, <2>3 DEF Settles
<1>27. Unresolved(v) = Unresolved(w) \ resolved
  <2>1. ASSUME NEW p \in 1..n
        PROVE  p \in Unresolved(v) <=> p \in Unresolved(w) /\ p \notin resolved
    <3>1. CASE p \in out
      BY <1>9, <1>18, <1>19, <3>1 DEF Unresolved
    <3>2. CASE p \notin out /\ \E j \in 1..L : p = pairs[j][1]
      <4>1. v.orders[p].status # "pending"
        BY <1>26, <3>2 DEF Settles
      <4> QED BY <1>9, <3>2, <4>1 DEF Unresolved
    <3>3. CASE p \notin out /\ \A j \in 1..L : p # pairs[j][1]
      <4>1. v.orders[p] = w.orders[p]
        BY <1>6, <1>16, <3>3
      <4> QED BY <1>7, <1>9, <1>19, <3>3, <4>1 DEF Unresolved
    <3> QED BY <3>1, <3>2, <3>3
  <2>2. Unresolved(v) \in SUBSET (1..n) /\ Unresolved(w) \in SUBSET (1..n)
    BY <1>7, <1>19 DEF Unresolved
  <2> QED BY <2>1, <2>2
<1>28. ExactQueue(v)
  <2>1. {w.queue[i] : i \in 1..Len(w.queue)} = Unresolved(w)
    <3>1. DOMAIN w.queue = 1..Len(w.queue)
      BY <1>7
    <3> QED BY <3>1 DEF ExactQueue
  <2>2. {q[i] : i \in 1..Len(q)} = Unresolved(v)
    BY <1>11, <1>27, <2>1 DEF Kept
  <2>3. DOMAIN q = 1..Len(q) /\ \A i, j \in 1..Len(q) : i < j => q[i] < q[j]
    BY <1>11, <1>20 DEF Kept
  <2> QED BY <1>15, <2>2, <2>3 DEF ExactQueue
<1>29. ASSUME NEW o \in Unresolved(v)
       PROVE  o \in Unresolved(w) /\ o \notin out /\ \A k \in 1..L : pairs[k][1] # o
  BY <1>9, <1>27
<1>30. \A e \in Driver : (\A k \in 1..L : pairs[k][2] # e) => v.drivers[e] = w.drivers[e]
  BY <1>6, <1>14
<1> QED BY <1>1, <1>3, <1>12, <1>24, <1>25, <1>26, <1>28, <1>29, <1>30 DEF BatchDone

-----------------------------------------------------------------------------
\* Optimized: the columns, the costs and the pairs.

\* The index ix of world w: some idle drivers, at points of the plane.
Indexed(ix, w) ==
  /\ DOMAIN ix \in SUBSET Driver
  /\ \A d \in DOMAIN ix : w.drivers[d].status = "idle" /\ ix[d] \in Point

\* What is known of the ages and the bonuses.
Counted(w, aged, bonus) ==
  /\ \A o \in Unresolved(w) : aged[o] \in Nat
  /\ bonus \in [Driver -> 0..IdleBonus]

\* Drivers are a finite set of numbers.
LEMMA DriversFinite ==
  ASSUME NEW S \in SUBSET Driver
  PROVE  IsFiniteSet(S) /\ S \in SUBSET Int
<1>1. DriverCount \in Int /\ 1 \in Int
  BY SimulationAssumption
<1>2. IsFiniteSet(1..DriverCount)
  BY <1>1, FS_Interval
<1>3. IsFiniteSet(S)
  BY <1>2, FS_Subset DEF Driver
<1>4. S \in SUBSET Int
  BY <1>1 DEF Driver
<1> QED BY <1>3, <1>4

\* The queue holds orders.
LEMMA QueuedOrders ==
  ASSUME NEW n, NEW w \in Good(n)
  PROVE  /\ \A i \in DOMAIN w.queue : w.queue[i] \in 1..n
         /\ \A o \in Queued(w) : o \in 1..n
         /\ Len(w.queue) \in Nat /\ DOMAIN w.queue = 1..Len(w.queue)
<1>1. PICK q : q = w.queue
  OBVIOUS
<1>2. q \in Seq(1..n)
  BY <1>1, GoodWorld
<1>3. /\ \A i \in DOMAIN q : q[i] \in 1..n
      /\ Len(q) \in Nat /\ DOMAIN q = 1..Len(q)
  <2>1. Len(q) \in Nat /\ DOMAIN q = 1..Len(q)
    BY <1>2, LenProperties
  <2>2. \A i \in 1..Len(q) : q[i] \in 1..n
    BY <1>2, ElementOfSeq
  <2> QED BY <2>1, <2>2
<1>4. Queued(w) = {q[i] : i \in DOMAIN q}
  BY <1>1 DEF Queued
<1> QED BY <1>1, <1>3, <1>4

\* An exact queue holds the pending orders, each once.
LEMMA QueuedPending ==
  ASSUME NEW n, NEW w \in Good(n), ExactQueue(w)
  PROVE  /\ \A i \in DOMAIN w.queue :
              /\ w.queue[i] \in 1..n
              /\ w.orders[w.queue[i]].status = "pending"
              /\ \A j \in DOMAIN w.queue : w.queue[i] = w.queue[j] => i = j
         /\ \A o \in 1..n : w.orders[o].status = "pending" => o \in Queued(w)
<1>1. PICK q : q = w.queue
  OBVIOUS
<1>2. PICK L \in Nat : DOMAIN q = 1..L
  BY <1>1, QueuedOrders
<1>3. \A i \in 1..L : q[i] \in 1..n
  BY <1>1, <1>2, QueuedOrders
<1>4. \A i, j \in 1..L : i < j => q[i] < q[j]
  BY <1>1, <1>2 DEF ExactQueue
<1>5. \A i, j \in 1..L : q[i] = q[j] => i = j
  BY <1>3, <1>4
<1>6. {q[i] : i \in 1..L} = Unresolved(w)
  BY <1>1, <1>2 DEF ExactQueue
<1>7. Queued(w) = {q[i] : i \in 1..L}
  BY <1>1, <1>2 DEF Queued
<1>8. DOMAIN w.orders = 1..n
  BY GoodWorld
<1> QED BY <1>1, <1>2, <1>3, <1>5, <1>6, <1>7, <1>8 DEF Unresolved

\* The candidates of an order are drivers of the index.
LEMMA CandidatesIndexed ==
  ASSUME NEW n, NEW w \in Good(n), NEW ix, Indexed(ix, w), NEW o \in 1..n
  PROVE  /\ ToSet(CandidatesOf(w, ix, o)) \in SUBSET DOMAIN ix
         /\ CandidatesOf(w, ix, o) # <<>> =>
              \E d \in DOMAIN ix : d \in ToSet(CandidatesOf(w, ix, o))
<1>1. PICK D : D = DOMAIN ix
  OBVIOUS
<1>2. D \in SUBSET Driver /\ \A d \in D : ix[d] \in Point
  BY <1>1 DEF Indexed
<1>3. IsFiniteSet(D) /\ D \in SUBSET Int
  BY <1>2, DriversFinite
<1>4. Coord[w.orders[o].pickup] \in Point
  <2>1. w.orders[o].pickup \in Node
    <3>1. w.orders \in [1..n -> OrderRecord]
      BY GoodWorld
    <3> QED BY <3>1 DEF OrderRecord
  <2> QED BY <2>1, CoordAssumption DEF Point
<1>5. PICK s : s = CandidatesOf(w, ix, o)
  OBVIOUS
<1>6. IsNearbySearch(ix, Coord[w.orders[o].pickup], CandidatesPerOrder, s) /\ s \in Seq(DOMAIN ix)
  <2>1. CandidatesPerOrder \in Nat
    BY DispatchAssumption
  <2>2. LET t == NearestOf(ix, Coord[w.orders[o].pickup], CandidatesPerOrder)
        IN  /\ IsNearbySearch(ix, Coord[w.orders[o].pickup], CandidatesPerOrder, t)
            /\ t \in Seq(DOMAIN ix)
    BY <1>1, <1>2, <1>3, <1>4, <2>1, RingSearchCorrect
  <2> QED BY <1>5, <2>2 DEF CandidatesOf
<1>7. PICK got : got = ToSet(s)
  OBVIOUS
<1>8. got \in SUBSET D /\ Cardinality(got) = Len(s)
  BY <1>1, <1>6, <1>7 DEF IsNearbySearch, ToSet
<1>9. s # <<>> => \E d \in D : d \in got
  <2> SUFFICES ASSUME got = {} PROVE s = <<>>
    BY <1>8
  <2>1. Len(s) = 0
    BY <1>8, FS_EmptySet
  <2>2. s \in Seq(D)
    BY <1>1, <1>6
  <2> QED BY <2>1, <2>2
<1> QED BY <1>1, <1>5, <1>7, <1>8, <1>9

\* The columns are the candidates, each once.
LEMMA ColumnsList ==
  ASSUME NEW n, NEW w \in Good(n), NEW ix, Indexed(ix, w)
  PROVE  /\ Columns(w, ix) \in Seq(DOMAIN ix)
         /\ \A i, j \in DOMAIN Columns(w, ix) : Columns(w, ix)[i] = Columns(w, ix)[j] => i = j
         /\ \A o \in Queued(w) : \A d \in ToSet(CandidatesOf(w, ix, o)) :
              \E j \in DOMAIN Columns(w, ix) : Columns(w, ix)[j] = d
<1>1. PICK C : C = UNION {ToSet(CandidatesOf(w, ix, o)) : o \in Queued(w)}
  OBVIOUS
<1>2. PICK s : s = Columns(w, ix)
  OBVIOUS
<1>3. s = Sorted(C, <)
  BY <1>1, <1>2 DEF Columns
<1>4. \A o \in Queued(w) : o \in 1..n
  BY QueuedOrders
<1>5. C \in SUBSET DOMAIN ix
  BY <1>1, <1>4, CandidatesIndexed
<1>6. DOMAIN ix \in SUBSET Driver
  BY DEF Indexed
<1>7. IsFiniteSet(C) /\ C \in SUBSET Int
  BY <1>5, <1>6, DriversFinite
<1>8. Lists(s, C, {p \in Int \X Int : p[1] < p[2]})
  BY <1>3, <1>7, SortedNumbers
<1>9. /\ s \in Seq(C)
      /\ \A i, j \in DOMAIN s : s[i] = s[j] => i = j
      /\ \A x \in C : \E i \in DOMAIN s : s[i] = x
  BY <1>8 DEF Lists
<1>10. s \in Seq(DOMAIN ix)
  BY <1>5, <1>9
<1>11. \A o \in Queued(w) : \A d \in ToSet(CandidatesOf(w, ix, o)) : d \in C
  BY <1>1
<1> QED BY <1>2, <1>9, <1>10, <1>11

\* The cost of a pair is a number below Unreachable.
LEMMA PairCostSmall ==
  ASSUME NEW n, NEW w \in Good(n), NEW aged, NEW bonus, Counted(w, aged, bonus),
         NEW o \in 1..n, w.orders[o].status = "pending", NEW d \in Driver,
         Reachable(shut, w.drivers[d].pos, w.orders[o].pickup)
  PROVE  PairCost(w, aged, bonus, o, d) \in Int /\ PairCost(w, aged, bonus, o, d) < Unreachable
<1>1. w.drivers[d].pos \in Node /\ w.orders[o].pickup \in Node
  <2>1. w.orders \in [1..n -> OrderRecord] /\ w.drivers \in [Driver -> DriverRecord]
    BY GoodWorld
  <2> QED BY <2>1 DEF OrderRecord, DriverRecord
<1>2. PICK p : p = FindRoute(shut, w.drivers[d].pos, w.orders[o].pickup)
  OBVIOUS
<1>3. p \in SimplePath
  <2>1. p \in OpenPaths(shut, w.drivers[d].pos, w.orders[o].pickup)
    BY <1>1, <1>2, FindRouteCorrect
  <2> QED BY <2>1 DEF OpenPaths
<1>4. PICK far \in Nat : far = Distance(p)
  BY <1>3, DistanceType
<1>5. PickupWeight \in Nat /\ WaitWeight \in Nat /\ PickupWeight * far < Unreachable
  BY <1>3, <1>4, DispatchAssumption
<1>6. PICK a \in Nat : a = aged[o]
  <2>1. o \in Unresolved(w)
    <3>1. DOMAIN w.orders = 1..n
      BY GoodWorld
    <3> QED BY <3>1 DEF Unresolved
  <2> QED BY <2>1 DEF Counted
<1>7. PICK b \in Nat : b = bonus[d]
  <2>1. bonus[d] \in 0..IdleBonus
    BY DEF Counted
  <2> QED BY <2>1, DispatchAssumption
<1>8. PICK x \in Nat, y \in Nat : x = PickupWeight * far /\ y = WaitWeight * a
  <2>1. \A i, j \in Nat : i * j \in Nat
    OBVIOUS
  <2> QED BY <1>5, <2>1
<1>9. PairCost(w, aged, bonus, o, d) = x - y - b
  BY <1>2, <1>4, <1>6, <1>7, <1>8 DEF PairCost
<1>10. x < Unreachable /\ Unreachable \in Int
  BY <1>5, <1>8 DEF Unreachable
<1> QED BY <1>9, <1>10

\* The costs of the batch: numbers, below Unreachable where a candidate of the
\* order can come to it.
Costs(w, ix, columns, cost) ==
  /\ cost \in [DOMAIN w.queue -> [DOMAIN columns -> Int]]
  /\ \A i \in DOMAIN w.queue, j \in DOMAIN columns :
       IF /\ columns[j] \in ToSet(CandidatesOf(w, ix, w.queue[i]))
          /\ Reachable(shut, w.drivers[columns[j]].pos, w.orders[w.queue[i]].pickup)
       THEN cost[i][j] < Unreachable
       ELSE cost[i][j] = Unreachable

\* The matrix of the batch has these costs.
LEMMA CostsOfBatch ==
  ASSUME NEW n, NEW w \in Good(n), ExactQueue(w), NEW ix, Indexed(ix, w),
         NEW aged, NEW bonus, Counted(w, aged, bonus),
         NEW columns \in Seq(DOMAIN ix)
  PROVE  Costs(w, ix, columns, CostMatrix(w, ix, aged, bonus, columns))
<1>1. PICK cost : cost = CostMatrix(w, ix, aged, bonus, columns)
  OBVIOUS
<1>2. cost = [i \in DOMAIN w.queue |-> cost[i]]
  BY <1>1 DEF CostMatrix
<1>3. ASSUME NEW i \in DOMAIN w.queue, NEW j \in DOMAIN columns
      PROVE  /\ cost[i][j] \in Int
             /\ IF /\ columns[j] \in ToSet(CandidatesOf(w, ix, w.queue[i]))
                   /\ Reachable(shut, w.drivers[columns[j]].pos, w.orders[w.queue[i]].pickup)
                THEN cost[i][j] < Unreachable
                ELSE cost[i][j] = Unreachable
  <2>1. PICK o, d : o = w.queue[i] /\ d = columns[j]
    OBVIOUS
  <2>2. o \in 1..n /\ w.orders[o].status = "pending"
    BY <2>1, QueuedPending
  <2>3. d \in Driver
    BY <2>1 DEF Indexed
  <2>4. cost[i][j] = IF /\ d \in ToSet(CandidatesOf(w, ix, o))
                        /\ Reachable(shut, w.drivers[d].pos, w.orders[o].pickup)
                     THEN PairCost(w, aged, bonus, o, d) ELSE Unreachable
    BY <1>1, <2>1 DEF CostMatrix
  <2>5. Unreachable \in Int
    BY DEF Unreachable
  <2>6. CASE /\ d \in ToSet(CandidatesOf(w, ix, o))
             /\ Reachable(shut, w.drivers[d].pos, w.orders[o].pickup)
    <3>1. PairCost(w, aged, bonus, o, d) \in Int /\ PairCost(w, aged, bonus, o, d) < Unreachable
      BY <2>2, <2>3, <2>6, PairCostSmall
    <3> QED BY <2>1, <2>4, <2>6, <3>1
  <2>7. CASE ~ (/\ d \in ToSet(CandidatesOf(w, ix, o))
                /\ Reachable(shut, w.drivers[d].pos, w.orders[o].pickup))
    BY <2>1, <2>4, <2>5, <2>7
  <2> QED BY <2>6, <2>7
<1>4. ASSUME NEW i \in DOMAIN w.queue
      PROVE  cost[i] \in [DOMAIN columns -> Int]
  <2>1. cost[i] = [j \in DOMAIN columns |-> cost[i][j]]
    BY <1>1 DEF CostMatrix
  <2> QED BY <1>3, <2>1
<1>5. cost \in [DOMAIN w.queue -> [DOMAIN columns -> Int]]
  BY <1>2, <1>4
<1> QED BY <1>1, <1>3, <1>5 DEF Costs

\* No row and no column is matched twice.
Matching(M, m, n) ==
  /\ M \in SUBSET ((1..m) \X (1..n))
  /\ \A p, r \in M : p[1] = r[1] \/ p[2] = r[2] => p = r

\* A pairing matches all rows, or all columns if there are fewer.
LEMMA PairingMatches ==
  ASSUME NEW m \in Nat \ {0}, NEW n \in Nat \ {0}, NEW cost \in Matrix(m, n),
         NEW M \in Pairings(cost)
  PROVE  /\ Matching(M, m, n)
         /\ (\A i \in 1..m : \E p \in M : p[1] = i) \/ (\A j \in 1..n : \E p \in M : p[2] = j)
<1>1. /\ Len(cost) = m /\ Len(cost[1]) = n
      /\ DOMAIN cost = 1..m /\ DOMAIN cost[1] = 1..n
  BY MatrixLengths
<1>2. CASE m <= n
  <2>1. PICK f \in Injection(1..m, 1..n) : M = {<<i, f[i]>> : i \in 1..m}
    BY <1>1, <1>2 DEF Pairings
  <2>2. f \in [1..m -> 1..n] /\ \A i, j \in 1..m : f[i] = f[j] => i = j
    BY DEF Injection, IsInjective
  <2>3. \A p \in M : p \in (1..m) \X (1..n) /\ p[2] = f[p[1]]
    BY <2>1, <2>2
  <2>4. ASSUME NEW p \in M, NEW r \in M, p[1] = r[1] \/ p[2] = r[2] PROVE p = r
    <3>1. p[1] \in 1..m /\ r[1] \in 1..m /\ p = <<p[1], p[2]>> /\ r = <<r[1], r[2]>>
      BY <2>3
    <3>2. p[2] = f[p[1]] /\ r[2] = f[r[1]]
      BY <2>3
    <3>3. p[1] = r[1]
      BY <2>2, <2>4, <3>1, <3>2
    <3> QED BY <3>1, <3>2, <3>3
  <2>5. \A i \in 1..m : <<i, f[i]>> \in M
    BY <2>1
  <2>6. \A i \in 1..m : \E p \in M : p[1] = i
    BY <2>5
  <2> QED BY <2>3, <2>4, <2>6 DEF Matching
<1>3. CASE ~(m <= n)
  <2>1. PICK f \in Injection(1..n, 1..m) : M = {<<f[j], j>> : j \in 1..n}
    BY <1>1, <1>3 DEF Pairings
  <2>2. f \in [1..n -> 1..m] /\ \A i, j \in 1..n : f[i] = f[j] => i = j
    BY DEF Injection, IsInjective
  <2>3. \A p \in M : p \in (1..m) \X (1..n) /\ p[1] = f[p[2]]
    BY <2>1, <2>2
  <2>4. ASSUME NEW p \in M, NEW r \in M, p[1] = r[1] \/ p[2] = r[2] PROVE p = r
    <3>1. p[2] \in 1..n /\ r[2] \in 1..n /\ p = <<p[1], p[2]>> /\ r = <<r[1], r[2]>>
      BY <2>3
    <3>2. p[1] = f[p[2]] /\ r[1] = f[r[2]]
      BY <2>3
    <3>3. p[2] = r[2]
      BY <2>2, <2>4, <3>1, <3>2
    <3> QED BY <3>1, <3>2, <3>3
  <2>5. \A j \in 1..n : <<f[j], j>> \in M
    BY <2>1
  <2>6. \A j \in 1..n : \E p \in M : p[2] = j
    BY <2>5
  <2> QED BY <2>3, <2>4, <2>6 DEF Matching
<1> QED BY <1>2, <1>3

\* The costs of a batch that has orders and columns are a matrix; without columns
\* nothing is matched.
LEMMA BatchMatrix ==
  ASSUME NEW n, NEW w \in Good(n), w.queue # <<>>, NEW ix, NEW columns \in Seq(DOMAIN ix),
         NEW cost, Costs(w, ix, columns, cost)
  PROVE  LET m == Len(w.queue)
             c == Len(columns)
         IN  /\ m \in Nat \ {0} /\ c \in Nat
             /\ DOMAIN w.queue = 1..m /\ DOMAIN columns = 1..c
             /\ IF c = 0 THEN MinCostAssignment(cost) = {}
                ELSE cost \in Matrix(m, c) /\ IsMinCost(cost, MinCostAssignment(cost))
<1>1. PICK m \in Nat : m = Len(w.queue) /\ DOMAIN w.queue = 1..m
  BY QueuedOrders
<1>2. PICK c \in Nat : c = Len(columns) /\ DOMAIN columns = 1..c
  <2>1. Len(columns) \in Nat /\ DOMAIN columns = 1..Len(columns)
    BY LenProperties
  <2> QED BY <2>1
<1>3. m # 0
  <2>1. w.queue \in Seq(1..n)
    BY GoodWorld
  <2> QED BY <1>1, <2>1
<1>4. cost \in [1..m -> [1..c -> Int]]
  BY <1>1, <1>2 DEF Costs
<1>5. CASE c = 0
  <2>1. 1 \in 1..m
    BY <1>3
  <2>2. cost[1] \in [1..0 -> Int]
    BY <1>4, <1>5, <2>1
  <2>3. cost[1] = <<>>
    BY <2>2
  <2>4. MinCostAssignment(cost) = {}
    BY <2>3 DEF MinCostAssignment
  <2> QED BY <1>1, <1>2, <1>3, <1>5, <2>4
<1>6. CASE c # 0
  <2>3. cost \in Matrix(m, c)
    BY <1>4 DEF Matrix
  <2>4. m \in Nat \ {0} /\ c \in Nat \ {0}
    BY <1>3, <1>6
  <2>5. IsMinCost(cost, MinCostAssignment(cost))
    BY <2>3, <2>4, MinCostAssignmentIsMin
  <2> QED BY <1>1, <1>2, <1>6, <2>3, <2>4, <2>5
<1> QED BY <1>5, <1>6

\* Which pair the batch gives the k-th place.
Placed(w, columns, P, A) ==
  /\ A \in Seq(Queued(w) \X ToSet(columns))
  /\ \A k \in DOMAIN A : \E p \in P : A[k] = <<w.queue[p[1]], columns[p[2]]>>
  /\ \A p \in P : \E k \in DOMAIN A : A[k] = <<w.queue[p[1]], columns[p[2]]>>
  /\ \A k, l \in DOMAIN A : A[k] = A[l] => k = l

\* Accepted lists the pairs, each once.
LEMMA AcceptedPlaced ==
  ASSUME NEW w, NEW columns, NEW cost, NEW m \in Nat, NEW c \in Nat,
         DOMAIN w.queue = 1..m, DOMAIN columns = 1..c,
         \A i, j \in 1..m : w.queue[i] = w.queue[j] => i = j,
         NEW P, Matching(P, m, c)
  PROVE  Placed(w, columns, P, Accepted(w, columns, cost, P))
<1>1. PICK R : R = {p[1] : p \in P}
  OBVIOUS
<1>2. /\ \A p \in P : p \in (1..m) \X (1..c) /\ p[1] \in 1..m /\ p[2] \in 1..c
      /\ \A p, r \in P : p[1] = r[1] \/ p[2] = r[2] => p = r
  BY DEF Matching
<1>3. R \in SUBSET (1..m) /\ R \in SUBSET Int /\ IsFiniteSet(R)
  <2>1. R \in SUBSET (1..m)
    BY <1>1, <1>2
  <2>2. IsFiniteSet(1..m)
    <3>1. m \in Int /\ 1 \in Int
      OBVIOUS
    <3> QED BY <3>1, FS_Interval
  <2>3. IsFiniteSet(R)
    BY <2>1, <2>2, FS_Subset
  <2>4. R \in SUBSET Int
    BY <2>1
  <2> QED BY <2>1, <2>3, <2>4
<1>4. PICK rows : rows = Sorted(R, <)
  OBVIOUS
<1>5. Lists(rows, R, {p \in Int \X Int : p[1] < p[2]})
  BY <1>3, <1>4, SortedNumbers
<1>6. /\ rows \in Seq(R)
      /\ \A i, j \in DOMAIN rows : rows[i] = rows[j] => i = j
      /\ \A x \in R : \E i \in DOMAIN rows : rows[i] = x
  BY <1>5 DEF Lists
<1>7. PICK L \in Nat : DOMAIN rows = 1..L /\ \A k \in 1..L : rows[k] \in R
  <2>1. Len(rows) \in Nat /\ DOMAIN rows = 1..Len(rows)
    BY <1>6, LenProperties
  <2>2. \A k \in 1..Len(rows) : rows[k] \in R
    BY <1>6, ElementOfSeq
  <2> QED BY <2>1, <2>2
<1> DEFINE Pair(i) == CHOOSE p \in P : p[1] = i
<1>8. PICK A : A = Accepted(w, columns, cost, P)
  OBVIOUS
<1>9. A = [k \in 1..L |-> <<w.queue[rows[k]], columns[Pair(rows[k])[2]]>>]
  <2> DEFINE rows0 == Sorted({p[1] : p \in P}, <)
  <2>1. A = [k \in DOMAIN rows0 |-> <<w.queue[rows0[k]], columns[Pair(rows0[k])[2]]>>]
    BY <1>8 DEF Accepted
  <2>2. rows0 = rows
    BY <1>1, <1>4
  <2> HIDE DEF rows0, Pair
  <2> QED BY <1>7, <2>1, <2>2
<1>10. \A i \in R : Pair(i) \in P /\ Pair(i)[1] = i
  BY <1>1
<1> HIDE DEF Pair
<1>11. ASSUME NEW k \in 1..L
       PROVE  /\ Pair(rows[k]) \in P /\ Pair(rows[k])[1] = rows[k]
              /\ A[k] = <<w.queue[Pair(rows[k])[1]], columns[Pair(rows[k])[2]]>>
              /\ A[k] \in Queued(w) \X ToSet(columns)
  <2>1. PICK p \in P : p = Pair(rows[k]) /\ p[1] = rows[k]
    BY <1>7, <1>10
  <2>2. A[k] = <<w.queue[p[1]], columns[p[2]]>>
    BY <1>9, <2>1
  <2>3. p[1] \in 1..m /\ p[2] \in 1..c
    BY <1>2
  <2>4. w.queue[p[1]] \in Queued(w) /\ columns[p[2]] \in ToSet(columns)
    BY <2>3 DEF Queued, ToSet
  <2> QED BY <2>1, <2>2, <2>4
<1>12. A \in Seq(Queued(w) \X ToSet(columns)) /\ DOMAIN A = 1..L
  <2>1. PICK T : T = Queued(w) \X ToSet(columns)
    OBVIOUS
  <2>2. \A k \in 1..L : A[k] \in T
    BY <1>11, <2>1
  <2>3. A \in [1..L -> T]
    BY <1>9, <2>2
  <2>4. A \in Seq(T) /\ DOMAIN A = 1..L
    BY <2>3
  <2> QED BY <2>1, <2>4
<1>13. \A k \in 1..L : \E p \in P : A[k] = <<w.queue[p[1]], columns[p[2]]>>
  BY <1>11
<1>14. ASSUME NEW p \in P
       PROVE  \E k \in 1..L : A[k] = <<w.queue[p[1]], columns[p[2]]>>
  <2>1. p[1] \in R
    BY <1>1
  <2>2. PICK k \in 1..L : rows[k] = p[1]
    BY <1>6, <1>7, <2>1
  <2>3. PICK r \in P : r = Pair(rows[k]) /\ r[1] = rows[k]
    BY <1>11
  <2>4. r = p
    BY <1>2, <2>2, <2>3
  <2>5. A[k] = <<w.queue[Pair(rows[k])[1]], columns[Pair(rows[k])[2]]>>
    BY <1>11
  <2>6. A[k] = <<w.queue[p[1]], columns[p[2]]>>
    BY <2>3, <2>4, <2>5
  <2> QED BY <2>6
<1>15. ASSUME NEW k \in 1..L, NEW l \in 1..L, A[k] = A[l]
       PROVE  k = l
  <2>1. PICK i, j : i = rows[k] /\ j = rows[l]
    OBVIOUS
  <2>2. i \in 1..m /\ j \in 1..m
    BY <1>3, <1>7, <2>1
  <2>3. w.queue[i] = w.queue[j]
    BY <1>9, <1>15, <2>1
  <2>4. i = j
    BY <2>2, <2>3
  <2> QED BY <1>6, <1>7, <2>1, <2>4
<1> QED BY <1>8, <1>12, <1>13, <1>14, <1>15 DEF Placed

\* Every row is matched, or every column if they are fewer.
Complete(M, m, n) ==
  IF m <= n THEN \A i \in 1..m : \E p \in M : p[1] = i
  ELSE \A j \in 1..n : \E p \in M : p[2] = j

\* The pairings are the complete matchings.
LEMMA PairingsComplete ==
  ASSUME NEW m \in Nat \ {0}, NEW n \in Nat \ {0}, NEW cost \in Matrix(m, n), NEW M
  PROVE  M \in Pairings(cost) <=> Matching(M, m, n) /\ Complete(M, m, n)
<1>1. /\ Len(cost) = m /\ Len(cost[1]) = n
      /\ DOMAIN cost = 1..m /\ DOMAIN cost[1] = 1..n
  BY MatrixLengths
<1>2. ASSUME M \in Pairings(cost)
      PROVE  Matching(M, m, n) /\ Complete(M, m, n)
  <2>1. Matching(M, m, n)
    BY <1>2, PairingMatches
  <2>2. CASE m <= n
    <3>1. PICK f \in Injection(1..m, 1..n) : M = {<<i, f[i]>> : i \in 1..m}
      BY <1>1, <1>2, <2>2 DEF Pairings
    <3>2. \A i \in 1..m : <<i, f[i]>> \in M
      BY <3>1
    <3> QED BY <2>1, <2>2, <3>2 DEF Complete
  <2>3. CASE ~(m <= n)
    <3>1. PICK f \in Injection(1..n, 1..m) : M = {<<f[j], j>> : j \in 1..n}
      BY <1>1, <1>2, <2>3 DEF Pairings
    <3>2. \A j \in 1..n : <<f[j], j>> \in M
      BY <3>1
    <3> QED BY <2>1, <2>3, <3>2 DEF Complete
  <2> QED BY <2>2, <2>3
<1>3. ASSUME Matching(M, m, n), Complete(M, m, n)
      PROVE  M \in Pairings(cost)
  <2>1. /\ \A p \in M : p \in (1..m) \X (1..n) /\ p = <<p[1], p[2]>>
                          /\ p[1] \in 1..m /\ p[2] \in 1..n
        /\ \A p, r \in M : p[1] = r[1] \/ p[2] = r[2] => p = r
    BY <1>3 DEF Matching
  <2>2. CASE m <= n
    <3>1. \A i \in 1..m : \E j \in 1..n : <<i, j>> \in M
      <4>1. \A i \in 1..m : \E p \in M : p[1] = i
        BY <1>3, <2>2 DEF Complete
      <4> QED BY <2>1, <4>1
    <3>2. PICK f : f = [i \in 1..m |-> CHOOSE j \in 1..n : <<i, j>> \in M]
      OBVIOUS
    <3>3. f \in [1..m -> 1..n] /\ \A i \in 1..m : <<i, f[i]>> \in M
      BY <3>1, <3>2
    <3>4. \A i, j \in 1..m : f[i] = f[j] => i = j
      <4> SUFFICES ASSUME NEW i \in 1..m, NEW j \in 1..m, f[i] = f[j] PROVE i = j
        OBVIOUS
      <4>1. <<i, f[i]>> \in M /\ <<j, f[j]>> \in M
        BY <3>3
      <4>2. <<i, f[i]>> = <<j, f[j]>>
        BY <2>1, <4>1
      <4> QED BY <4>2
    <3>5. f \in Injection(1..m, 1..n)
      <4>1. IsInjective(f)
        BY <3>3, <3>4 DEF IsInjective
      <4> QED BY <3>3, <4>1 DEF Injection
    <3>6. M = {<<i, f[i]>> : i \in 1..m}
      <4>1. ASSUME NEW p \in M PROVE p = <<p[1], f[p[1]]>> /\ p[1] \in 1..m
        <5>1. p[1] \in 1..m
          BY <2>1
        <5>2. <<p[1], f[p[1]]>> \in M
          BY <3>3, <5>1
        <5> QED BY <2>1, <5>1, <5>2
      <4> QED BY <3>3, <4>1
    <3> QED BY <1>1, <2>2, <3>5, <3>6 DEF Pairings
  <2>3. CASE ~(m <= n)
    <3>1. \A j \in 1..n : \E i \in 1..m : <<i, j>> \in M
      <4>1. \A j \in 1..n : \E p \in M : p[2] = j
        BY <1>3, <2>3 DEF Complete
      <4> QED BY <2>1, <4>1
    <3>2. PICK f : f = [j \in 1..n |-> CHOOSE i \in 1..m : <<i, j>> \in M]
      OBVIOUS
    <3>3. f \in [1..n -> 1..m] /\ \A j \in 1..n : <<f[j], j>> \in M
      BY <3>1, <3>2
    <3>4. \A i, j \in 1..n : f[i] = f[j] => i = j
      <4> SUFFICES ASSUME NEW i \in 1..n, NEW j \in 1..n, f[i] = f[j] PROVE i = j
        OBVIOUS
      <4>1. <<f[i], i>> \in M /\ <<f[j], j>> \in M
        BY <3>3
      <4>2. <<f[i], i>> = <<f[j], j>>
        BY <2>1, <4>1
      <4> QED BY <4>2
    <3>5. f \in Injection(1..n, 1..m)
      <4>1. IsInjective(f)
        BY <3>3, <3>4 DEF IsInjective
      <4> QED BY <3>3, <4>1 DEF Injection
    <3>6. M = {<<f[j], j>> : j \in 1..n}
      <4>1. ASSUME NEW p \in M PROVE p = <<f[p[2]], p[2]>> /\ p[2] \in 1..n
        <5>1. p[2] \in 1..n
          BY <2>1
        <5>2. <<f[p[2]], p[2]>> \in M
          BY <3>3, <5>1
        <5> QED BY <2>1, <5>1, <5>2
      <4> QED BY <3>3, <4>1
    <3> QED BY <1>1, <2>3, <3>5, <3>6 DEF Pairings
  <2> QED BY <2>2, <2>3
<1> QED BY <1>2, <1>3

\* Exchanging the pair t for x, where t is the only pair in x's row or column.
LEMMA OneExchanged ==
  ASSUME NEW m \in Nat \ {0}, NEW n \in Nat \ {0}, NEW M,
         Matching(M, m, n), Complete(M, m, n),
         NEW x \in (1..m) \X (1..n), x \notin M, NEW t \in M,
         \A p \in M : p[1] = x[1] \/ p[2] = x[2] => p = t,
         NEW N, N = (M \ {t}) \union {x}
  PROVE  Matching(N, m, n) /\ Complete(N, m, n)
<1>1. N = (M \ {t}) \union {x}
  OBVIOUS
<1>2. /\ M \in SUBSET ((1..m) \X (1..n))
      /\ \A p, r \in M : p[1] = r[1] \/ p[2] = r[2] => p = r
  BY DEF Matching
<1>3. N \in SUBSET ((1..m) \X (1..n)) /\ x \in N /\ \A p \in M : p # t => p \in N
  BY <1>1, <1>2
<1>4. ASSUME NEW p \in N, NEW r \in N, p[1] = r[1] \/ p[2] = r[2] PROVE p = r
  <2>1. CASE p = x
    BY <1>1, <1>4, <2>1
  <2>2. CASE r = x
    BY <1>1, <1>4, <2>2
  <2>3. CASE p # x /\ r # x
    BY <1>1, <1>2, <1>4, <2>3
  <2> QED BY <2>1, <2>2, <2>3
<1>5. Matching(N, m, n)
  BY <1>3, <1>4 DEF Matching
<1>6. x[1] \in 1..m /\ x[2] \in 1..n
  OBVIOUS
<1>7. CASE m <= n
  <2>1. \A i \in 1..m : \E p \in M : p[1] = i
    BY <1>7 DEF Complete
  <2>2. t[1] = x[1]
    BY <1>6, <2>1
  <2>3. \A i \in 1..m : \E p \in N : p[1] = i
    BY <1>3, <2>1, <2>2
  <2> QED BY <1>1, <1>5, <1>7, <2>3 DEF Complete
<1>8. CASE ~(m <= n)
  <2>1. \A i \in 1..n : \E p \in M : p[2] = i
    BY <1>8 DEF Complete
  <2>2. t[2] = x[2]
    BY <1>6, <2>1
  <2>3. \A i \in 1..n : \E p \in N : p[2] = i
    BY <1>3, <2>1, <2>2
  <2> QED BY <1>1, <1>5, <1>8, <2>3 DEF Complete
<1> QED BY <1>7, <1>8

\* N is a complete matching like M, with x and y in place of t and s.
Exchanged(M, N, x, y, t, s, m, n) ==
  /\ Matching(N, m, n) /\ Complete(N, m, n)
  /\ y \in (1..m) \X (1..n) /\ y # x /\ y \notin M /\ t # s

\* Exchanging the pairs t in the row of x and s in its column for x and the pair
\* y of the other row and column.
LEMMA TwoExchanged ==
  ASSUME NEW m \in Nat \ {0}, NEW n \in Nat \ {0}, NEW M,
         Matching(M, m, n), Complete(M, m, n),
         NEW x \in (1..m) \X (1..n), x \notin M, NEW t \in M, NEW s \in M,
         t[1] = x[1], s[2] = x[2], NEW y, y = <<s[1], t[2]>>,
         NEW N, N = (M \ {t, s}) \union {x, y}
  PROVE  Exchanged(M, N, x, y, t, s, m, n)
<1>1. N = (M \ {t, s}) \union {x, y}
  OBVIOUS
<1>2. /\ M \in SUBSET ((1..m) \X (1..n))
      /\ \A p, r \in M : p[1] = r[1] \/ p[2] = r[2] => p = r
  BY DEF Matching
<1>3. /\ t \in (1..m) \X (1..n) /\ s \in (1..m) \X (1..n)
      /\ t = <<t[1], t[2]>> /\ s = <<s[1], s[2]>> /\ x = <<x[1], x[2]>>
      /\ y \in (1..m) \X (1..n) /\ y[1] = s[1] /\ y[2] = t[2]
  BY <1>2
<1>4. t # s /\ t[2] # x[2] /\ s[1] # x[1] /\ y # x
  BY <1>3
<1>5. y \notin M
  BY <1>2, <1>3, <1>4
<1>6. N \in SUBSET ((1..m) \X (1..n)) /\ x \in N /\ y \in N /\ \A p \in M : p \notin {t, s} => p \in N
  BY <1>1, <1>2, <1>3
<1>7. \A p \in M : p \notin {t, s} =>
        p[1] # x[1] /\ p[2] # x[2] /\ p[1] # y[1] /\ p[2] # y[2]
  BY <1>2, <1>3
<1>8. x[1] # y[1] /\ x[2] # y[2]
  BY <1>3, <1>4
<1>9. ASSUME NEW p \in N, NEW r \in N, p[1] = r[1] \/ p[2] = r[2] PROVE p = r
  <2>1. p \in {x, y} \/ (p \in M /\ p \notin {t, s})
    BY <1>1
  <2>2. r \in {x, y} \/ (r \in M /\ r \notin {t, s})
    BY <1>1
  <2> QED BY <1>2, <1>7, <1>8, <1>9, <2>1, <2>2
<1>10. Matching(N, m, n)
  BY <1>6, <1>9 DEF Matching
<1>11. \A p \in M : (\E r \in N : r[1] = p[1]) /\ (\E r \in N : r[2] = p[2])
  <2> SUFFICES ASSUME NEW p \in M
               PROVE  (\E r \in N : r[1] = p[1]) /\ (\E r \in N : r[2] = p[2])
    OBVIOUS
  <2>1. CASE p = t
    BY <1>3, <1>6, <2>1
  <2>2. CASE p = s
    BY <1>3, <1>6, <2>2
  <2>3. CASE p \notin {t, s}
    BY <1>6, <2>3
  <2> QED BY <2>1, <2>2, <2>3
<1>12. Complete(N, m, n)
  <2>1. CASE m <= n
    <3>1. \A i \in 1..m : \E p \in M : p[1] = i
      BY <2>1 DEF Complete
    <3>2. \A i \in 1..m : \E p \in N : p[1] = i
      BY <1>11, <3>1
    <3> QED BY <2>1, <3>2 DEF Complete
  <2>2. CASE ~(m <= n)
    <3>1. \A i \in 1..n : \E p \in M : p[2] = i
      BY <2>2 DEF Complete
    <3>2. \A i \in 1..n : \E p \in N : p[2] = i
      BY <1>11, <3>1
    <3> QED BY <2>2, <3>2 DEF Complete
  <2> QED BY <2>1, <2>2
<1> QED BY <1>1, <1>3, <1>4, <1>5, <1>10, <1>12 DEF Exchanged

\* Some pair of M in row i or column j costs less than top.
TakesOne(M, cost, i, j, top) ==
  \E p \in M : (p[1] = i \/ p[2] = j) /\ cost[p[1]][p[2]] < top

\* A pairing of least cost takes no pair of cost `top` in the row of x and none in
\* its column, if x costs less than top and no pair more.
LEMMA NoBetterExchange ==
  ASSUME NEW m \in Nat \ {0}, NEW n \in Nat \ {0}, NEW cost \in Matrix(m, n),
         NEW M, IsMinCost(cost, M), NEW top \in Int,
         \A i \in 1..m, j \in 1..n : cost[i][j] <= top,
         NEW i0 \in 1..m, NEW j0 \in 1..n, cost[i0][j0] < top
  PROVE  TakesOne(M, cost, i0, j0, top)
<1>1. PICK P, weight, total : CostsSummed(m, n, cost, P, weight, total)
  BY CostSums
<1>2. /\ P = (1..m) \X (1..n) /\ weight \in [P -> Int]
      /\ total \in [SUBSET P -> Int]
      /\ \A A \in SUBSET P : \A p \in A : total[A] = total[A \ {p}] + weight[p]
      /\ \A i \in 1..m, j \in 1..n : weight[<<i, j>>] = cost[i][j]
      /\ \A A \in SUBSET P : TotalCost(cost, A) = total[A]
  BY <1>1 DEF CostsSummed, IsSum
<1>3. \A p \in P : weight[p] = cost[p[1]][p[2]] /\ weight[p] \in Int /\ weight[p] <= top
  <2> SUFFICES ASSUME NEW p \in P
               PROVE  weight[p] = cost[p[1]][p[2]] /\ weight[p] \in Int /\ weight[p] <= top
    OBVIOUS
  <2>1. p[1] \in 1..m /\ p[2] \in 1..n /\ p = <<p[1], p[2]>>
    BY <1>2
  <2>2. weight[p] = cost[p[1]][p[2]]
    BY <1>2, <2>1
  <2>3. weight[p] \in Int
    BY <1>2
  <2> QED BY <2>1, <2>2, <2>3
<1>4. /\ M \in Pairings(cost)
      /\ \A N \in Pairings(cost) : TotalCost(cost, M) <= TotalCost(cost, N)
  BY DEF IsMinCost
<1>5. Matching(M, m, n) /\ Complete(M, m, n) /\ M \in SUBSET P
  BY <1>2, <1>4, PairingsComplete DEF Matching
<1>6. ASSUME NEW N, Matching(N, m, n), Complete(N, m, n)
      PROVE  N \in SUBSET P /\ total[M] <= total[N]
  <2>1. N \in Pairings(cost) /\ N \in SUBSET P
    BY <1>2, <1>6, PairingsComplete DEF Matching
  <2> QED BY <1>2, <1>4, <1>5, <2>1
<1>7. SUFFICES ASSUME \A p \in M : p[1] = i0 \/ p[2] = j0 => ~(weight[p] < top)
               PROVE  FALSE
  BY <1>3, <1>5 DEF TakesOne
<1>8. PICK x : x = <<i0, j0>> /\ x \in P
  BY <1>2
<1>9. weight[x] < top /\ x[1] = i0 /\ x[2] = j0
  BY <1>2, <1>8
<1>10. x \notin M
  BY <1>7, <1>9
<1>11. \A p, r \in M : p[1] = r[1] \/ p[2] = r[2] => p = r
  BY <1>5 DEF Matching
<1>12. CASE \E t \in M, s \in M : t[1] = i0 /\ s[2] = j0
  <2>1. PICK t \in M, s \in M : t[1] = i0 /\ s[2] = j0
    BY <1>12
  <2>2. PICK y : y = <<s[1], t[2]>>
    OBVIOUS
  <2>3. PICK N : N = (M \ {t, s}) \union {x, y}
    OBVIOUS
  <2>4. /\ Matching(N, m, n) /\ Complete(N, m, n)
        /\ y \in P /\ y # x /\ y \notin M /\ t # s
    <3>1. x \in (1..m) \X (1..n) /\ t[1] = x[1] /\ s[2] = x[2] /\ t \in M /\ s \in M
      BY <1>2, <1>8, <1>9, <2>1
    <3>2. y \in (1..m) \X (1..n) => y \in P
      BY <1>2
    <3>3. Exchanged(M, N, x, y, t, s, m, n)
      BY <1>5, <1>10, <2>2, <2>3, <3>1, TwoExchanged
    <3> QED BY <3>2, <3>3 DEF Exchanged
  <2>5. N \in SUBSET P /\ total[M] <= total[N]
    BY <1>6, <2>4
  <2>6. PICK K \in SUBSET P : K = M \ {t, s}
    BY <1>5
  <2>7. total[M] = total[K] + weight[s] + weight[t]
    <3>1. total[M] = total[M \ {t}] + weight[t]
      BY <1>2, <1>5
    <3>2. M \ {t} \in SUBSET P /\ s \in M \ {t} /\ (M \ {t}) \ {s} = K
      BY <1>5, <2>4, <2>6
    <3>3. total[M \ {t}] = total[(M \ {t}) \ {s}] + weight[s]
      BY <1>2, <3>2
    <3> QED BY <3>1, <3>2, <3>3
  <2>8. total[N] = total[K] + weight[y] + weight[x]
    <3>1. x \in N /\ y \in N \ {x} /\ (N \ {x}) \ {y} = K /\ N \ {x} \in SUBSET P
      BY <1>10, <2>3, <2>4, <2>5, <2>6
    <3>2. total[N] = total[N \ {x}] + weight[x]
      BY <1>2, <2>5, <3>1
    <3>3. total[N \ {x}] = total[(N \ {x}) \ {y}] + weight[y]
      BY <1>2, <3>1
    <3> QED BY <3>1, <3>2, <3>3
  <2>9. total[K] \in Int /\ total[M] \in Int /\ total[N] \in Int
    BY <1>2, <1>5, <2>5, <2>6
  <2>10. /\ weight[s] \in Int /\ weight[t] \in Int /\ weight[y] \in Int /\ weight[x] \in Int
         /\ weight[y] <= top
    BY <1>3, <1>5, <1>8, <2>4
  <2>11. ~(weight[s] < top) /\ ~(weight[t] < top)
    BY <1>7, <2>1
  <2> QED BY <1>9, <2>5, <2>7, <2>8, <2>9, <2>10, <2>11
<1>13. CASE ~ \E t \in M, s \in M : t[1] = i0 /\ s[2] = j0
  <2>1. \E t \in M : t[1] = i0 \/ t[2] = j0
    BY <1>5 DEF Complete
  <2>2. PICK t \in M : t[1] = i0 \/ t[2] = j0
    BY <2>1
  <2>3. \A p \in M : p[1] = x[1] \/ p[2] = x[2] => p = t
    BY <1>9, <1>11, <1>13, <2>2
  <2>4. PICK N : N = (M \ {t}) \union {x}
    OBVIOUS
  <2>5. Matching(N, m, n) /\ Complete(N, m, n)
    BY <1>2, <1>5, <1>8, <1>10, <2>3, <2>4, OneExchanged
  <2>6. N \in SUBSET P /\ total[M] <= total[N]
    BY <1>6, <2>5
  <2>7. total[M] = total[M \ {t}] + weight[t]
    BY <1>2, <1>5
  <2>8. x \in N /\ N \ {x} = M \ {t}
    BY <1>10, <2>4
  <2>9. total[N] = total[M \ {t}] + weight[x]
    <3>1. \A A \in SUBSET P : \A p \in A : total[A] = total[A \ {p}] + weight[p]
      BY <1>2
    <3>2. total[N] = total[N \ {x}] + weight[x]
      BY <2>6, <2>8, <3>1
    <3> QED BY <2>8, <3>2
  <2>10. /\ total[M \ {t}] \in Int /\ weight[t] \in Int /\ weight[x] \in Int
    <3>1. M \ {t} \in SUBSET P
      BY <1>5
    <3> QED BY <1>2, <1>3, <1>5, <1>8, <3>1
  <2>11. ~(weight[t] < top)
    BY <1>7, <2>2
  <2> QED BY <1>9, <2>6, <2>7, <2>9, <2>10, <2>11
<1> QED BY <1>12, <1>13

\* A batch of world w: m orders, c candidate drivers as columns, the costs, the
\* pairs P of a matching of least cost that can be matched, and A, their list.
Batch(n, w, ix, m, c, columns, cost, P, A) ==
  /\ m \in Nat \ {0} /\ c \in Nat
  /\ DOMAIN w.queue = 1..m /\ DOMAIN columns = 1..c
  /\ \A j \in 1..c : columns[j] \in DOMAIN ix
  /\ \A i, j \in 1..c : columns[i] = columns[j] => i = j
  /\ \A o \in Queued(w) : \A d \in ToSet(CandidatesOf(w, ix, o)) :
       \E j \in 1..c : columns[j] = d
  /\ Costs(w, ix, columns, cost)
  /\ Matching(P, m, c)
  /\ \A p \in P : cost[p[1]][p[2]] < Unreachable
  /\ \A i \in 1..m, j \in 1..c :
       cost[i][j] < Unreachable => \E p \in P : p[1] = i \/ p[2] = j
  /\ Placed(w, columns, P, A)

\* What Optimized solves is such a batch.
LEMMA BatchSolved ==
  ASSUME NEW n, NEW w \in Good(n), ExactQueue(w), w.queue # <<>>,
         NEW ix, Indexed(ix, w), NEW aged, NEW bonus, Counted(w, aged, bonus)
  PROVE  \E m, c, columns, cost, P, A :
           /\ Batch(n, w, ix, m, c, columns, cost, P, A)
           /\ Optimized(w, ix, aged, bonus) =
                [assigned |-> A, infeasible |-> Infeasible(w, ix, cost)]
<1>1. PICK columns : columns = Columns(w, ix)
  OBVIOUS
<1>2. /\ columns \in Seq(DOMAIN ix)
      /\ \A i, j \in DOMAIN columns : columns[i] = columns[j] => i = j
      /\ \A o \in Queued(w) : \A d \in ToSet(CandidatesOf(w, ix, o)) :
           \E j \in DOMAIN columns : columns[j] = d
  BY <1>1, ColumnsList
<1>3. PICK cost : cost = CostMatrix(w, ix, aged, bonus, columns)
  OBVIOUS
<1>4. Costs(w, ix, columns, cost)
  BY <1>2, <1>3, CostsOfBatch
<1>5. PICK m, c : m = Len(w.queue) /\ c = Len(columns)
  OBVIOUS
<1>6. /\ m \in Nat \ {0} /\ c \in Nat
      /\ DOMAIN w.queue = 1..m /\ DOMAIN columns = 1..c
      /\ IF c = 0 THEN MinCostAssignment(cost) = {}
         ELSE cost \in Matrix(m, c) /\ IsMinCost(cost, MinCostAssignment(cost))
  BY <1>2, <1>4, <1>5, BatchMatrix
<1>7. PICK M : M = MinCostAssignment(cost)
  OBVIOUS
<1>8. PICK P : P = {p \in M : cost[p[1]][p[2]] < Unreachable}
  OBVIOUS
<1>9. PICK A : A = Accepted(w, columns, cost, P)
  OBVIOUS
<1>10. Optimized(w, ix, aged, bonus) =
         [assigned |-> A, infeasible |-> Infeasible(w, ix, cost)]
  BY <1>1, <1>3, <1>7, <1>8, <1>9 DEF Optimized
<1>11. Matching(M, m, c)
  <2>1. CASE c = 0
    <3>1. M = {}
      BY <1>6, <1>7, <2>1
    <3> QED BY <3>1 DEF Matching
  <2>2. CASE c # 0
    <3>1. c \in Nat \ {0} /\ cost \in Matrix(m, c) /\ M \in Pairings(cost)
      BY <1>6, <1>7, <2>2 DEF IsMinCost
    <3> QED BY <1>6, <3>1, PairingMatches
  <2> QED BY <2>1, <2>2
<1>12. Matching(P, m, c)
  BY <1>8, <1>11 DEF Matching
<1>13. ASSUME NEW i \in 1..m, NEW j \in 1..c, cost[i][j] < Unreachable
       PROVE  \E p \in P : p[1] = i \/ p[2] = j
  <2>1. c \in Nat \ {0} /\ cost \in Matrix(m, c) /\ IsMinCost(cost, M)
    BY <1>6, <1>7
  <2>2. Unreachable \in Int
    BY DEF Unreachable
  <2>3. \A k \in 1..m, l \in 1..c : cost[k][l] <= Unreachable
    <3> SUFFICES ASSUME NEW k \in 1..m, NEW l \in 1..c PROVE cost[k][l] <= Unreachable
      OBVIOUS
    <3>1. cost[k][l] < Unreachable \/ cost[k][l] = Unreachable
      BY <1>4, <1>6 DEF Costs
    <3>2. cost[k][l] \in Int
      BY <2>1 DEF Matrix
    <3> QED BY <2>2, <3>1, <3>2
  <2>4. m \in Nat \ {0} /\ c \in Nat \ {0}
    BY <1>6, <2>1
  <2>5. TakesOne(M, cost, i, j, Unreachable)
    BY <1>13, <2>1, <2>2, <2>3, <2>4, NoBetterExchange
  <2> QED BY <1>8, <2>5 DEF TakesOne
<1>14. \A i, j \in 1..m : w.queue[i] = w.queue[j] => i = j
  BY <1>6, QueuedPending
<1>15. Placed(w, columns, P, A)
  BY <1>6, <1>9, <1>12, <1>14, AcceptedPlaced
<1>16. \A j \in 1..c : columns[j] \in DOMAIN ix
  BY <1>2, <1>6, ElementOfSeq
<1>17. \A p \in P : cost[p[1]][p[2]] < Unreachable
  BY <1>8
<1>18. Batch(n, w, ix, m, c, columns, cost, P, A)
  BY <1>2, <1>4, <1>6, <1>12, <1>13, <1>15, <1>16, <1>17 DEF Batch
<1> QED BY <1>10, <1>18

\* What it decides can be carried out.
LEMMA BatchPlans ==
  ASSUME NEW n, NEW w \in Good(n), ExactQueue(w), NEW ix, Indexed(ix, w),
         NEW m, NEW c, NEW columns, NEW cost, NEW P, NEW A,
         Batch(n, w, ix, m, c, columns, cost, P, A)
  PROVE  Plan(n, w, A, Infeasible(w, ix, cost))
<1>1. /\ DOMAIN w.queue = 1..m /\ DOMAIN columns = 1..c
      /\ \A j \in 1..c : columns[j] \in DOMAIN ix
      /\ \A i, j \in 1..c : columns[i] = columns[j] => i = j
      /\ \A o \in Queued(w) : \A d \in ToSet(CandidatesOf(w, ix, o)) :
           \E j \in 1..c : columns[j] = d
  BY DEF Batch
<1>2. Costs(w, ix, columns, cost)
  BY DEF Batch
<1>3. /\ \A p \in P : p[1] \in 1..m /\ p[2] \in 1..c
      /\ \A p, r \in P : p[1] = r[1] \/ p[2] = r[2] => p = r
      /\ \A p \in P : cost[p[1]][p[2]] < Unreachable
  <2>1. Matching(P, m, c) /\ \A p \in P : cost[p[1]][p[2]] < Unreachable
    BY DEF Batch
  <2> QED BY <2>1 DEF Matching
<1>4. /\ A \in Seq(Queued(w) \X ToSet(columns))
      /\ \A k \in DOMAIN A : \E p \in P : A[k] = <<w.queue[p[1]], columns[p[2]]>>
      /\ \A k, l \in DOMAIN A : A[k] = A[l] => k = l
  BY DEF Batch, Placed
<1>5. PICK F : F = Infeasible(w, ix, cost)
  OBVIOUS
<1>6. \A o \in F : \E i \in 1..m :
        /\ o = w.queue[i] /\ CandidatesOf(w, ix, o) # <<>>
        /\ \A j \in DOMAIN cost[i] : cost[i][j] = Unreachable
  BY <1>1, <1>5 DEF Infeasible
<1>7. \A i \in 1..m : DOMAIN cost[i] = 1..c
  BY <1>1, <1>2 DEF Costs
<1>8. /\ \A i \in 1..m : w.queue[i] \in 1..n /\ w.orders[w.queue[i]].status = "pending"
      /\ \A i, j \in 1..m : w.queue[i] = w.queue[j] => i = j
  <2>1. \A i \in DOMAIN w.queue :
          /\ w.queue[i] \in 1..n
          /\ w.orders[w.queue[i]].status = "pending"
          /\ \A j \in DOMAIN w.queue : w.queue[i] = w.queue[j] => i = j
    BY QueuedPending
  <2> QED BY <1>1, <2>1
<1>9. \A d \in DOMAIN ix : d \in Driver /\ w.drivers[d].status = "idle"
  BY DEF Indexed
<1>10. A \in Seq((1..n) \X Driver)
  <2>1. Queued(w) \in SUBSET (1..n)
    BY QueuedOrders
  <2>2. ToSet(columns) \in SUBSET Driver
    BY <1>1, <1>9 DEF ToSet
  <2>3. Queued(w) \X ToSet(columns) \in SUBSET ((1..n) \X Driver)
    BY <2>1, <2>2
  <2> QED BY <1>4, <2>3
<1>11. ASSUME NEW k \in DOMAIN A
       PROVE  /\ w.orders[A[k][1]].status = "pending"
              /\ A[k][2] \in Candidates(w, w.orders[A[k][1]].pickup)
              /\ A[k][1] \notin F
  <2>1. PICK p \in P : A[k] = <<w.queue[p[1]], columns[p[2]]>>
    BY <1>4
  <2>2. PICK i \in 1..m, j \in 1..c : i = p[1] /\ j = p[2]
    BY <1>3
  <2>3. A[k][1] = w.queue[i] /\ A[k][2] = columns[j] /\ cost[i][j] < Unreachable
    BY <1>3, <2>1, <2>2
  <2>4. w.queue[i] \notin F
    <3> SUFFICES ASSUME w.queue[i] \in F PROVE FALSE
      OBVIOUS
    <3>1. PICK h \in 1..m : w.queue[i] = w.queue[h] /\ \A l \in DOMAIN cost[h] : cost[h][l] = Unreachable
      BY <1>6
    <3>2. h = i
      BY <1>8, <3>1
    <3>3. cost[i][j] = Unreachable
      BY <1>7, <3>1, <3>2
    <3>4. Unreachable \in Int
      BY DEF Unreachable
    <3> QED BY <2>3, <3>3, <3>4
  <2>5. Reachable(shut, w.drivers[columns[j]].pos, w.orders[w.queue[i]].pickup)
    <3>1. cost[i][j] # Unreachable
      <4>1. Unreachable \in Int
        BY DEF Unreachable
      <4> QED BY <2>3, <4>1
    <3> QED BY <1>1, <1>2, <3>1 DEF Costs
  <2>6. columns[j] \in Candidates(w, w.orders[w.queue[i]].pickup)
    BY <1>1, <1>9, <2>5 DEF Candidates, IdleDrivers
  <2> QED BY <1>8, <2>3, <2>4, <2>6
<1>12. ASSUME NEW k \in DOMAIN A, NEW l \in DOMAIN A, A[k][1] = A[l][1] \/ A[k][2] = A[l][2]
       PROVE  k = l
  <2>1. PICK p \in P : A[k] = <<w.queue[p[1]], columns[p[2]]>>
    BY <1>4
  <2>2. PICK r \in P : A[l] = <<w.queue[r[1]], columns[r[2]]>>
    BY <1>4
  <2>3. p[1] \in 1..m /\ r[1] \in 1..m /\ p[2] \in 1..c /\ r[2] \in 1..c
    BY <1>3
  <2>4. w.queue[p[1]] = w.queue[r[1]] \/ columns[p[2]] = columns[r[2]]
    BY <1>12, <2>1, <2>2
  <2>5. p[1] = r[1] \/ p[2] = r[2]
    BY <1>1, <1>8, <2>3, <2>4
  <2>6. A[k] = A[l]
    BY <1>3, <2>1, <2>2, <2>5
  <2> QED BY <1>4, <2>6
<1>13. ASSUME NEW o \in F
       PROVE  o \in 1..n /\ w.orders[o].status = "pending" /\ Cause(w, o)
  <2>1. PICK i \in 1..m : /\ o = w.queue[i] /\ CandidatesOf(w, ix, o) # <<>>
                          /\ \A j \in DOMAIN cost[i] : cost[i][j] = Unreachable
    BY <1>6
  <2>2. o \in 1..n /\ w.orders[o].status = "pending" /\ o \in Queued(w)
    BY <1>1, <1>8, <2>1 DEF Queued
  <2>3. PICK d \in DOMAIN ix : d \in ToSet(CandidatesOf(w, ix, o))
    BY <2>1, <2>2, CandidatesIndexed
  <2>4. PICK j \in 1..c : columns[j] = d
    BY <1>1, <2>2, <2>3
  <2>5. cost[i][j] = Unreachable
    BY <1>7, <2>1
  <2>6. ~Reachable(shut, w.drivers[d].pos, w.orders[o].pickup)
    <3>1. Unreachable \in Int
      BY DEF Unreachable
    <3>2. d \in ToSet(CandidatesOf(w, ix, o)) /\ Reachable(shut, w.drivers[d].pos, w.orders[o].pickup)
            => cost[i][j] < Unreachable
      BY <1>1, <1>2, <2>1, <2>4 DEF Costs
    <3> QED BY <2>3, <2>5, <3>1, <3>2
  <2> QED BY <1>9, <2>2, <2>6 DEF Cause
<1> QED BY <1>5, <1>10, <1>11, <1>12, <1>13 DEF Plan

\* A candidate that can come to a queued order is given an order, or the order
\* another driver.
Serves(w, ix, A) ==
  \A o \in Queued(w) : \A d \in ToSet(CandidatesOf(w, ix, o)) :
    Reachable(shut, w.drivers[d].pos, w.orders[o].pickup)
      => \E k \in DOMAIN A : A[k][1] = o \/ A[k][2] = d

\* A batch does.
LEMMA BatchServes ==
  ASSUME NEW n, NEW w \in Good(n), NEW ix,
         NEW m, NEW c, NEW columns, NEW cost, NEW P, NEW A,
         Batch(n, w, ix, m, c, columns, cost, P, A)
  PROVE  Serves(w, ix, A)
<1> SUFFICES ASSUME NEW o \in Queued(w), NEW d \in ToSet(CandidatesOf(w, ix, o)),
                    Reachable(shut, w.drivers[d].pos, w.orders[o].pickup)
             PROVE  \E k \in DOMAIN A : A[k][1] = o \/ A[k][2] = d
  BY DEF Serves
<1>1. PICK i \in 1..m : o = w.queue[i]
  BY DEF Queued, Batch
<1>2. PICK j \in 1..c : columns[j] = d
  BY DEF Batch
<1>3. cost[i][j] < Unreachable
  BY <1>1, <1>2 DEF Batch, Costs
<1>4. PICK p \in P : p[1] = i \/ p[2] = j
  BY <1>3 DEF Batch
<1>5. PICK k \in DOMAIN A : A[k] = <<w.queue[p[1]], columns[p[2]]>>
  BY DEF Batch, Placed
<1> QED BY <1>1, <1>2, <1>4, <1>5

\* What Optimized decides can be carried out and serves the candidates.
LEMMA OptimizedOutcome ==
  ASSUME NEW n, NEW w \in Good(n), ExactQueue(w), w.queue # <<>>,
         NEW ix, Indexed(ix, w), NEW aged, NEW bonus, Counted(w, aged, bonus),
         NEW result, result = Optimized(w, ix, aged, bonus)
  PROVE  Plan(n, w, result.assigned, result.infeasible) /\ Serves(w, ix, result.assigned)
<1>1. PICK m, c, columns, cost, P, A :
        /\ Batch(n, w, ix, m, c, columns, cost, P, A)
        /\ result = [assigned |-> A, infeasible |-> Infeasible(w, ix, cost)]
  BY BatchSolved
<1>2. result.assigned = A /\ result.infeasible = Infeasible(w, ix, cost)
  BY <1>1
<1>3. Plan(n, w, A, Infeasible(w, ix, cost))
  BY <1>1, BatchPlans
<1>4. Serves(w, ix, A)
  BY <1>1, BatchServes
<1> QED BY <1>2, <1>3, <1>4

-----------------------------------------------------------------------------
\* The specification.

\* What a round of dispatch makes of w.
Rounded(n, v, w) == Dispatched(n, v, w) /\ Caused(n, v, w) /\ ExactQueue(v)

\* A batch that dispatchOptimized runs is done, and serves the candidates.
Batched(n, v, w, ix) ==
  \E result : /\ Plan(n, w, result.assigned, result.infeasible)
              /\ BatchDone(n, v, w, result)
              /\ Serves(w, ix, result.assigned)

\* The batch that Optimized decides.
LEMMA OptimizedBatch ==
  ASSUME NEW n \in 0..MaxOrders, NEW w \in Good(n), ExactQueue(w), w.queue # <<>>,
         NEW ix, Indexed(ix, w), NEW aged, NEW bonus, Counted(w, aged, bonus)
  PROVE  Batched(n, RunBatch(w, Optimized(w, ix, aged, bonus)), w, ix)
<1>1. PICK result : result = Optimized(w, ix, aged, bonus)
  OBVIOUS
<1>2. Plan(n, w, result.assigned, result.infeasible) /\ Serves(w, ix, result.assigned)
  BY <1>1, OptimizedOutcome
<1>3. BatchDone(n, RunBatch(w, result), w, result)
  BY <1>2, RunBatchDone
<1> QED BY <1>1, <1>2, <1>3 DEF Batched

\* dispatchOptimized: a batch when one is due, and otherwise a round of dispatch
\* or nothing.
LEMMA DispatchOutcome ==
  ASSUME NEW n \in 0..MaxOrders, NEW w \in Good(n), ExactQueue(w),
         NEW ix, Indexed(ix, w), NEW aged, NEW bonus, Counted(w, aged, bonus)
  PROVE  /\ Rounded(n, DispatchOptimized(w, ix, aged, bonus), w)
         /\ Len(w.queue) >= MinBatchSize \/ (Len(w.queue) >= 2 /\ aged[w.queue[1]] >= MaxWait)
              => Batched(n, DispatchOptimized(w, ix, aged, bonus), w, ix)
<1>1. PICK v : v = DispatchOptimized(w, ix, aged, bonus)
  OBVIOUS
<1>2. w.queue \in Seq(1..n) /\ Len(w.queue) \in Nat
  <2>1. w.queue \in Seq(1..n)
    BY GoodWorld
  <2> QED BY <2>1, LenProperties
<1>3. PICK m \in Nat : m = Len(w.queue)
  BY <1>2
<1>4. MinBatchSize \in Nat \ {0}
  BY DispatchAssumption
<1>5. PICK waited : waited = (aged[w.queue[1]] >= MaxWait)
  OBVIOUS
<1> DEFINE Due == m >= MinBatchSize \/ (m >= 2 /\ waited)
<1>6. v = IF m = 0 THEN w
          ELSE IF Due THEN RunBatch(w, Optimized(w, ix, aged, bonus))
          ELSE IF m = 1 /\ (IdleDrivers(w) # {} \/ waited) THEN DispatchImmediate(w)
          ELSE w
  BY <1>1, <1>3, <1>5 DEF DispatchOptimized
<1>7. Rounded(n, w, w)
  BY DispatchedSelf DEF Rounded
<1>8. CASE Due
  <2>1. m # 0
    BY <1>4, <1>8
  <2>2. w.queue # <<>>
    BY <1>3, <2>1
  <2>3. v = RunBatch(w, Optimized(w, ix, aged, bonus))
    BY <1>6, <1>8, <2>1
  <2>4. Batched(n, v, w, ix)
    BY <2>2, <2>3, OptimizedBatch
  <2>5. Rounded(n, v, w)
    BY <2>4 DEF Batched, BatchDone, Rounded
  <2> QED BY <1>1, <2>4, <2>5
<1>9. CASE ~Due
  <2>1. Rounded(n, v, w)
    <3>1. CASE m = 1 /\ (IdleDrivers(w) # {} \/ waited)
      <4>1. v = DispatchImmediate(w)
        BY <1>6, <1>9, <3>1
      <4>2. Len(w.queue) = 1
        BY <1>3, <3>1
      <4> QED BY <4>1, <4>2, ImmediateDispatches DEF Rounded
    <3>2. CASE ~(m = 1 /\ (IdleDrivers(w) # {} \/ waited))
      BY <1>6, <1>7, <1>9, <3>2
    <3> QED BY <3>1, <3>2
  <2>2. ~(Len(w.queue) >= MinBatchSize \/ (Len(w.queue) >= 2 /\ aged[w.queue[1]] >= MaxWait))
    BY <1>3, <1>5, <1>9
  <2> QED BY <1>1, <2>1, <2>2
<1> QED BY <1>8, <1>9

\* IndexSound, of an index and a world.
IndexOf(ix, w) ==
  /\ DOMAIN ix \in SUBSET Driver
  /\ \A d \in DOMAIN ix : w.drivers[d].status = "idle" /\ ix[d] = Coord[w.drivers[d].pos]

\* The drivers of a sound index are at points of the plane.
LEMMA IndexedSound ==
  ASSUME NEW n, NEW w \in Good(n), NEW ix, IndexOf(ix, w)
  PROVE  Indexed(ix, w)
<1>1. \A d \in Driver : w.drivers[d].pos \in Node
  <2>1. w.drivers \in [Driver -> DriverRecord]
    BY GoodWorld
  <2> QED BY <2>1 DEF DriverRecord
<1>2. \A k \in Node : Coord[k] \in Point
  BY CoordAssumption DEF Point
<1> QED BY <1>1, <1>2 DEF IndexOf, Indexed

\* A round takes the drivers it gives orders out of the index, and those only.
LEMMA UnindexedSound ==
  ASSUME NEW n \in 0..MaxOrders, NEW w \in Good(n), NEW v, Dispatched(n, v, w),
         NEW ix, IndexOf(ix, w), NEW iy, iy = Unindexed(ix, w.drivers, v.drivers)
  PROVE  /\ IndexOf(iy, v)
         /\ \A d \in Driver : v.drivers[d].status = "idle" /\ d \notin DOMAIN iy =>
              w.drivers[d].status = "idle" /\ d \notin DOMAIN ix
<1>1. /\ DOMAIN iy = {d \in DOMAIN ix : v.drivers[d].order = w.drivers[d].order}
      /\ \A d \in DOMAIN iy : iy[d] = ix[d]
  BY DEF Unindexed
<1>2. \A d \in Driver :
        \/ v.drivers[d] = w.drivers[d]
        \/ /\ w.drivers[d].status = "idle" /\ v.drivers[d].status # "idle"
           /\ v.drivers[d].order \in 1..n
  BY DEF Dispatched
<1>3. \A d \in Driver : w.drivers[d].status = "idle" => w.drivers[d].order = NoOrder
  <2>1. Paired(w.drivers, w.orders)
    BY GoodWorld
  <2> QED BY <2>1 DEF Paired
<1>4. NoOrder \notin 1..n
  BY DEF NoOrder
<1>5. /\ DOMAIN ix \in SUBSET Driver
      /\ \A d \in DOMAIN ix : w.drivers[d].status = "idle" /\ ix[d] = Coord[w.drivers[d].pos]
  BY DEF IndexOf
<1>6. \A d \in DOMAIN iy : d \in DOMAIN ix /\ v.drivers[d] = w.drivers[d]
  BY <1>1, <1>2, <1>3, <1>4, <1>5
<1>7. IndexOf(iy, v)
  BY <1>1, <1>5, <1>6 DEF IndexOf
<1>8. ASSUME NEW d \in Driver, v.drivers[d].status = "idle", d \notin DOMAIN iy
      PROVE  w.drivers[d].status = "idle" /\ d \notin DOMAIN ix
  <2>1. v.drivers[d] = w.drivers[d]
    BY <1>2, <1>8
  <2> QED BY <1>1, <1>8, <2>1
<1> QED BY <1>7, <1>8

\* Movement takes no idle driver away, and puts those that have delivered into
\* the index where they stand.
LEMMA MovedIndex ==
  ASSUME Inv, IndexOf(index, World), NEW w, w = AfterMoves, NEW ix, ix = IndexAfterMoves(w)
  PROVE  /\ IndexOf(ix, w)
         /\ \A d \in Driver : w.drivers[d].status = "idle" /\ d \notin DOMAIN ix => Hidden(d)
<1>1. PICK done : done = {d \in Driver : Busy(d) /\ w.drivers[d].status = "idle"}
  OBVIOUS
<1>2. /\ DOMAIN ix = DOMAIN index \union done
      /\ \A d \in DOMAIN ix : ix[d] = IF d \in done THEN Coord[w.drivers[d].pos] ELSE index[d]
  BY <1>1 DEF IndexAfterMoves
<1>3. \A d \in Driver : drivers[d].status = "idle" => w.drivers[d] = drivers[d]
  <2> SUFFICES ASSUME NEW d \in Driver, drivers[d].status = "idle" PROVE w.drivers[d] = drivers[d]
    OBVIOUS
  <2>1. ~OnTheMove(d)
    BY MovedOnLeg
  <2> QED BY <2>1 DEF AfterMoves
<1>4. /\ DOMAIN index \in SUBSET Driver
      /\ \A d \in DOMAIN index : drivers[d].status = "idle" /\ index[d] = Coord[drivers[d].pos]
  BY DEF IndexOf, World
<1>5. IndexOf(ix, w)
  <2>1. DOMAIN ix \in SUBSET Driver
    BY <1>1, <1>2, <1>4
  <2>2. ASSUME NEW d \in DOMAIN ix
        PROVE  w.drivers[d].status = "idle" /\ ix[d] = Coord[w.drivers[d].pos]
    <3>1. CASE d \in done
      BY <1>1, <1>2, <3>1
    <3>2. CASE d \notin done
      BY <1>2, <1>3, <1>4, <3>2
    <3> QED BY <3>1, <3>2
  <2> QED BY <2>1, <2>2 DEF IndexOf
<1>6. ASSUME NEW d \in Driver, w.drivers[d].status = "idle", d \notin DOMAIN ix
      PROVE  Hidden(d)
  BY <1>1, <1>2, <1>6 DEF Hidden, Busy
<1> QED BY <1>5, <1>6

\* Movement leaves the queue and what it holds alone.
LEMMA MovesLeavePending ==
  ASSUME QueuedInv, NEW w, w = AfterMoves
  PROVE  /\ w \in Good(Len(orders)) /\ ExactQueue(w) /\ w.queue = queue
         /\ Queued(w) = Queued(World) /\ Queued(World) = Unresolved(World)
         /\ Unresolved(w) = Unresolved(World)
         /\ \A o \in Unresolved(World) : w.orders[o] = orders[o]
<1>1. w \in Good(Len(orders)) /\ ExactQueue(w)
  BY AfterMovesGood, AfterMovesQueue DEF QueuedInv
<1>2. w.queue = queue /\ World.queue = queue
  BY DEF AfterMoves, World
<1>3. Queued(w) = Queued(World)
  BY <1>2 DEF Queued
<1>4. Unresolved(w) = Queued(w) /\ Unresolved(World) = Queued(World)
  BY <1>1 DEF ExactQueue, Queued, QueuedInv
<1>5. ASSUME NEW o \in Unresolved(World) PROVE w.orders[o] = orders[o]
  <2>1. o \in DOMAIN orders /\ orders[o].status = "pending"
    BY DEF Unresolved, World
  <2>2. ~ \E d \in Driver : OnTheMove(d) /\ drivers[d].order = o
    <3> SUFFICES ASSUME NEW d \in Driver, OnTheMove(d), drivers[d].order = o PROVE FALSE
      OBVIOUS
    <3>1. drivers[d].status # "idle"
      BY MovedOnLeg DEF QueuedInv
    <3>2. orders[o].status \in {"assigned", "en_route"}
      <4>1. World \in Good(Len(orders)) /\ World.drivers = drivers /\ World.orders = orders
        BY WorldGood DEF World, QueuedInv
      <4> QED BY <3>1, <4>1, GoodWorld
    <3> QED BY <2>1, <3>2
  <2>3. orders[o].driver \in Driver \union {NoDriver}
    <3>1. orders \in [1..Len(orders) -> OrderRecord]
      <4>1. World \in Good(Len(orders)) /\ World.orders = orders
        BY WorldGood DEF World, QueuedInv
      <4> QED BY <4>1, GoodWorld
    <3> QED BY <2>1, <3>1 DEF OrderRecord
  <2> QED BY <2>1, <2>2, <2>3 DEF AfterMoves
<1> QED BY <1>1, <1>2, <1>3, <1>4, <1>5

\* The world with the order of trip t queued, as handlePlaceOrder leaves it to
\* dispatch.
WithOrder(t) ==
  LET order == [pickup |-> t[1], dest |-> t[2], status |-> "pending", driver |-> NoDriver]
  IN  [World EXCEPT !.orders = Append(@, order), !.queue = Append(@, Len(orders) + 1)]

\* w is the world with an n-th order, pending.
OrderAdded(n, w) ==
  /\ w \in Good(n) /\ n \in 0..MaxOrders /\ ExactQueue(w)
  /\ w.drivers = drivers
  /\ \A o \in 1..n : o \in DOMAIN orders => w.orders[o] = orders[o]
  /\ w.orders[n].status = "pending" /\ w.orders[n].driver = NoDriver
  /\ \A o \in 1..n : o = n \/ o \in DOMAIN orders

\* handlePlaceOrder: the new order, nobody's yet, queues behind the others.
LEMMA PlacedQueue ==
  ASSUME QueuedInv, NEW t \in Trip, Len(orders) < MaxOrders
  PROVE  OrderAdded(Len(orders) + 1, WithOrder(t))
<1>0. PICK order, n, w :
        /\ order = [pickup |-> t[1], dest |-> t[2], status |-> "pending", driver |-> NoDriver]
        /\ n = Len(orders) + 1
        /\ w = [World EXCEPT !.orders = Append(@, order), !.queue = Append(@, n)]
        /\ w = WithOrder(t)
  BY DEF WithOrder
<1>1. PICK s : s = [World EXCEPT !.orders = Append(@, order)]
  OBVIOUS
<1>2. /\ s \in Good(n) /\ n \in 0..MaxOrders /\ n \in 1..n /\ s.orders[n].status = "pending"
  BY <1>0, <1>1, PlacedGood DEF QueuedInv
<1>3. /\ s.orders = Append(orders, order) /\ s.queue = queue /\ s.drivers = drivers
      /\ w.orders = Append(orders, order) /\ w.queue = Append(queue, n) /\ w.drivers = drivers
      /\ w = [drivers |-> drivers, orders |-> Append(orders, order), queue |-> Append(queue, n)]
      /\ World.queue = queue /\ World.orders = orders
  BY <1>0, <1>1 DEF World
<1>4. PICK k \in Nat : k = Len(orders) /\ n = k + 1 /\ DOMAIN orders = 1..k /\ orders \in Seq(OrderRecord)
  <2>1. orders \in Seq(OrderRecord)
    BY DEF QueuedInv, Inv, TypeOK
  <2> QED BY <1>0, <2>1, LenProperties
<1>5. PICK L \in Nat : L = Len(queue) /\ DOMAIN queue = 1..L
                       /\ queue \in Seq(1..k) /\ \A j \in 1..L : queue[j] \in 1..k
  <2>1. World \in Good(k)
    BY <1>4, WorldGood DEF QueuedInv
  <2>2. queue \in Seq(1..k)
    BY <1>3, <2>1, GoodWorld
  <2> QED BY <2>2, LenProperties, ElementOfSeq
<1>6. queue \in Seq(1..n) /\ n \in 1..n
  BY <1>2, <1>4, <1>5
<1>7. /\ Append(queue, n) \in Seq(1..n)
      /\ Len(Append(queue, n)) = L + 1
      /\ \A j \in 1..L : Append(queue, n)[j] = queue[j]
      /\ Append(queue, n)[L + 1] = n
  BY <1>5, <1>6, AppendProperties
<1>8. w \in Good(n)
  <2>1. /\ drivers \in [Driver -> DriverRecord]
        /\ Append(orders, order) \in [1..n -> OrderRecord]
        /\ Paired(drivers, Append(orders, order))
    <3>1. /\ s.drivers \in [Driver -> DriverRecord]
          /\ s.orders \in [1..n -> OrderRecord]
          /\ Paired(s.drivers, s.orders)
      BY <1>2, GoodWorld
    <3> QED BY <1>3, <3>1
  <2>2. w \in Typed(n)
    BY <1>3, <1>7, <2>1 DEF Typed
  <2> QED BY <1>3, <2>1, <2>2 DEF Good
<1>9. DOMAIN w.orders = 1..n
  BY <1>8, GoodWorld
<1>10. \A o \in 1..k : w.orders[o] = orders[o] /\ o \in 1..n
  <2>1. \A o \in 1..Len(orders) : Append(orders, order)[o] = orders[o]
    BY <1>4, AppendProperties
  <2> QED BY <1>3, <1>4, <2>1
<1>11. w.orders[n].status = "pending" /\ w.orders[n].driver = NoDriver
  <2>1. order.driver = NoDriver
    BY <1>0
  <2>2. Append(orders, order)[n] = order
    <3>1. order \in OrderRecord
      BY <1>0, SimulationAssumption DEF OrderRecord, OrderStatus
    <3> QED BY <1>4, <3>1, AppendProperties
  <2> QED BY <1>2, <1>3, <2>1, <2>2
<1>12. \A o \in 1..n : o = n \/ o \in 1..k
  BY <1>4
<1>13. Unresolved(w) = Unresolved(World) \union {n}
  <2>1. \A o \in 1..k : o \in Unresolved(w) <=> o \in Unresolved(World)
    BY <1>3, <1>4, <1>9, <1>10 DEF Unresolved
  <2>2. n \in Unresolved(w)
    BY <1>2, <1>9, <1>11 DEF Unresolved
  <2>3. Unresolved(w) \subseteq 1..n /\ Unresolved(World) \subseteq 1..k
    BY <1>3, <1>4, <1>9 DEF Unresolved
  <2> QED BY <1>12, <2>1, <2>2, <2>3
<1>14. /\ \A i, j \in 1..L : i < j => queue[i] < queue[j]
       /\ {queue[i] : i \in 1..L} = Unresolved(World)
  BY <1>3, <1>5 DEF QueuedInv, ExactQueue
<1>15. PICK q : q = w.queue
  OBVIOUS
<1>16. /\ q \in Seq(1..n) /\ Len(q) = L + 1 /\ DOMAIN q = 1..L+1
       /\ \A j \in 1..L : q[j] = queue[j]
       /\ q[L + 1] = n
  BY <1>3, <1>7, <1>15, LenProperties
<1>17. \A j \in 1..L+1 : j = L+1 \/ j \in 1..L
  OBVIOUS
<1>18. ASSUME NEW i \in 1..L+1, NEW j \in 1..L+1, i < j
       PROVE  q[i] < q[j]
  <2>1. i \in 1..L
    BY <1>18
  <2>2. CASE j = L+1
    <3>1. q[i] \in 1..k /\ q[j] = n
      BY <1>5, <1>16, <2>1, <2>2
    <3> QED BY <1>4, <3>1
  <2>3. CASE j \in 1..L
    BY <1>14, <1>16, <1>18, <2>1, <2>3
  <2> QED BY <1>17, <2>2, <2>3
<1>19. PICK X, Y : X = {q[j] : j \in 1..L+1} /\ Y = {queue[j] : j \in 1..L}
  OBVIOUS
<1>20. X = Y \union {n}
  <2>1. \A x \in X : x \in Y \union {n}
    BY <1>16, <1>17, <1>19
  <2>2. L+1 \in 1..L+1 /\ \A j \in 1..L : j \in 1..L+1
    OBVIOUS
  <2>3. n \in X
    BY <1>16, <1>19, <2>2
  <2>4. \A x \in Y : x \in X
    BY <1>16, <1>19, <2>2
  <2> QED BY <2>1, <2>3, <2>4
<1>21. X = Unresolved(w)
  BY <1>13, <1>14, <1>19, <1>20
<1>22. ExactQueue(w)
  BY <1>15, <1>16, <1>18, <1>19, <1>21 DEF ExactQueue
<1> QED BY <1>0, <1>2, <1>3, <1>4, <1>8, <1>10, <1>11, <1>12, <1>22 DEF OrderAdded

-----------------------------------------------------------------------------
\* The inductive invariant: that of the queue, the index of idle drivers, and an
\* age for every queued order.
DispatchInv ==
  /\ QueuedInv
  /\ IndexOf(index, World)
  /\ DOMAIN age = Queued(World)
  /\ \A o \in DOMAIN age : age[o] \in Nat

\* What the actions commit keeps it.
LEMMA CommitDispatched ==
  ASSUME NEW n \in 0..MaxOrders, NEW v \in Good(n), ExactQueue(v),
         NEW ix, IndexOf(ix, v), NEW aged, \A o \in DOMAIN aged : aged[o] \in Nat,
         CommitDispatch(v, ix, aged), shut' \subseteq Road, paused' \in BOOLEAN
  PROVE  DispatchInv'
<1>1. Commit(v) /\ index' = ix /\ age' = AgesIn(v, aged)
  BY DEF CommitDispatch
<1>2. Inv'
  BY <1>1, CommitGood
<1>3. ExactQueue(World)'
  BY <1>1, CommitQueued
<1>4. IndexOf(index, World)'
  BY <1>1 DEF IndexOf, World, Commit
<1>5. Queued(World)' = Queued(v)
  BY <1>1 DEF Queued, World, Commit
<1>6. DOMAIN age' = Queued(v) /\ \A o \in Queued(v) : age'[o] \in Nat
  BY <1>1 DEF AgesIn
<1> QED BY <1>2, <1>3, <1>4, <1>5, <1>6 DEF DispatchInv, QueuedInv

\* An action that leaves the drivers and the queue alone.
LEMMA QuietDispatched ==
  ASSUME DispatchInv, UNCHANGED <<drivers, orders, queue, index, age>>,
         shut' \subseteq Road, paused' \in BOOLEAN
  PROVE  DispatchInv'
<1>1. Inv'
  BY QuietInv DEF DispatchInv, QueuedInv
<1>2. ExactQueue(World)'
  BY DEF DispatchInv, QueuedInv, ExactQueue, Unresolved, World
<1>3. IndexOf(index, World)'
  BY DEF DispatchInv, IndexOf, World
<1>4. Queued(World)' = Queued(World)
  BY DEF Queued, World
<1> QED BY <1>1, <1>2, <1>3, <1>4 DEF DispatchInv, QueuedInv

\* At the start, and after a reset.
LEMMA FreshDispatched ==
  IndexOf(InitialIndex, [drivers |-> InitialDrivers, orders |-> <<>>, queue |-> <<>>])
BY DEF IndexOf, InitialIndex, InitialDrivers, IdleAt

\* The invariant at the start.
LEMMA DispatchStart == DispatchInit => DispatchInv
<1> SUFFICES ASSUME DispatchInit PROVE DispatchInv
  OBVIOUS
<1>1. Init /\ index = InitialIndex /\ age = [o \in {} |-> 0]
  BY DEF DispatchInit
<1>2. QueuedInv
  BY <1>1, QueuedInit
<1>3. World = [drivers |-> InitialDrivers, orders |-> <<>>, queue |-> <<>>]
  BY <1>1 DEF Init, World
<1>4. IndexOf(index, World)
  BY <1>1, <1>3, FreshDispatched
<1>5. Queued(World) = {}
  BY <1>3 DEF Queued
<1> QED BY <1>1, <1>2, <1>4, <1>5 DEF DispatchInv

-----------------------------------------------------------------------------
\* What the properties ask of a step.

\* IndexKept, of a step.
IndexStep ==
  /\ IndexSound'
  /\ shut' = shut => \A d \in Driver : Hidden(d)' => Hidden(d)

\* TurnedAwayForCause, of a step.
CauseStep ==
  \A o \in DOMAIN orders' :
    /\ orders'[o].status = "unassignable" /\ orders'[o].driver = NoDriver
    /\ o \in DOMAIN orders => orders[o].status = "pending"
    => \/ ~Reachable(shut, orders'[o].pickup, orders'[o].dest)
       \/ \E d \in Driver : /\ drivers'[d].status = "idle" \/ drivers'[d].order # drivers[d].order
                            /\ ~Reachable(shut, drivers'[d].pos, orders'[o].pickup)

\* BatchLeavesNothing, of a step.
BatchStep ==
  Ticked /\ BatchDue =>
    \A o \in ToSet(queue'), d \in Driver :
      /\ drivers'[d].status = "idle"
      /\ Reachable(shut, drivers'[d].pos, orders[o].pickup)
      => \/ d \notin ToSet(CandidatesOf(AfterMoves, IndexAfterMoves(AfterMoves), o))
         \/ \E p \in ToSet(queue) :
              /\ orders'[p].status = "unassignable"
              /\ ~Reachable(shut, orders[p].pickup, orders[p].dest)

\* What a placed order comes to: the world with it added, and a round of dispatch.
PlacedStep ==
  \E w, v : /\ OneMorePlaced(Len(orders) + 1, w) /\ w.drivers = drivers
            /\ Dispatched(Len(orders) + 1, v, w) /\ Commit(v) /\ shut' = shut

\* What a tick comes to: the moves, and a round of dispatch.
MovedStep ==
  \E v : Dispatched(Len(orders), v, AfterMoves) /\ Commit(v) /\ shut' = shut

\* A round of dispatch of w, committed: w has the drivers and the pending orders
\* of the present state, or the order just placed.
LEMMA RoundForCause ==
  ASSUME NEW n \in 0..MaxOrders, NEW w \in Good(n), NEW v, Dispatched(n, v, w), Caused(n, v, w),
         Commit(v), Inv,
         \A o \in 1..n : (o \in DOMAIN orders => orders[o].status = "pending")
                           => w.orders[o].status = "pending",
         \A d \in Driver : \/ w.drivers[d].status # "idle"
                           \/ drivers[d].status = "idle"
                           \/ /\ drivers[d].order \in DOMAIN orders
                              /\ w.orders[drivers[d].order].status # "pending"
  PROVE  CauseStep
<1>1. drivers' = v.drivers /\ orders' = v.orders
  BY DEF Commit
<1>2. v \in Good(n) /\ DOMAIN v.orders = 1..n
  <2>1. v \in Good(n)
    BY DEF Dispatched
  <2> QED BY <2>1, GoodWorld
<1>3. SUFFICES ASSUME NEW o \in 1..n,
                      v.orders[o].status = "unassignable",
                      o \in DOMAIN orders => orders[o].status = "pending"
               PROVE  \/ ~Reachable(shut, v.orders[o].pickup, v.orders[o].dest)
                      \/ \E d \in Driver :
                           /\ v.drivers[d].status = "idle" \/ v.drivers[d].order # drivers[d].order
                           /\ ~Reachable(shut, v.drivers[d].pos, v.orders[o].pickup)
  BY <1>1, <1>2 DEF CauseStep
<1>4. w.orders[o].status = "pending"
  BY <1>3
<1>5. Cause(w, o)
  BY <1>3, <1>4 DEF Caused
<1>6. v.orders[o].pickup = w.orders[o].pickup /\ v.orders[o].dest = w.orders[o].dest
  BY DEF Dispatched
<1>7. CASE ~Reachable(shut, w.orders[o].pickup, w.orders[o].dest)
  BY <1>6, <1>7
<1>8. CASE \E d \in Driver : /\ w.drivers[d].status = "idle"
                             /\ ~Reachable(shut, w.drivers[d].pos, w.orders[o].pickup)
  <2>1. PICK d \in Driver : /\ w.drivers[d].status = "idle"
                            /\ ~Reachable(shut, w.drivers[d].pos, w.orders[o].pickup)
    BY <1>8
  <2>2. CASE v.drivers[d] = w.drivers[d]
    BY <1>6, <2>1, <2>2
  <2>3. CASE v.drivers[d] # w.drivers[d]
    <3>1. /\ v.drivers[d].pos = w.drivers[d].pos
          /\ v.drivers[d].order \in 1..n
          /\ w.orders[v.drivers[d].order].status = "pending"
      BY <2>3 DEF Dispatched
    <3>2. v.drivers[d].order # drivers[d].order
      <4>1. CASE drivers[d].status = "idle"
        <5>1. drivers[d].order = NoOrder
          BY <4>1 DEF Inv, Pairing, Paired
        <5>2. NoOrder \notin 1..n
          BY DEF NoOrder
        <5> QED BY <3>1, <5>1, <5>2
      <4>2. CASE drivers[d].status # "idle"
        <5>1. w.orders[drivers[d].order].status # "pending"
          BY <2>1, <4>2
        <5> QED BY <3>1, <5>1
      <4> QED BY <4>1, <4>2
    <3> QED BY <1>6, <2>1, <3>1, <3>2
  <2> QED BY <2>2, <2>3
<1> QED BY <1>5, <1>7, <1>8 DEF Cause

\* The orders that are turned away where none is.
LEMMA NoneTurnedAway ==
  ASSUME \A o \in DOMAIN orders' : o \in DOMAIN orders /\
           (orders'[o].status = "unassignable" => orders[o].status # "pending")
  PROVE  CauseStep
BY DEF CauseStep

\* handlePlaceOrder
LEMMA PlaceOrderDispatched ==
  ASSUME DispatchInv, NEW t \in Trip, PlaceOrderOptimized(t)
  PROVE  DispatchInv' /\ IndexStep /\ CauseStep /\ BatchStep /\ PlacedStep
<1>1. PICK n : n = Len(orders) + 1
  OBVIOUS
<1>2. PICK w : w = WithOrder(t)
  OBVIOUS
<1>3. PICK v : v = IF Len(w.queue) = 1 /\ IdleDrivers(w) # {} THEN DispatchImmediate(w) ELSE w
  OBVIOUS
<1>4. PICK ix : ix = Unindexed(index, w.drivers, v.drivers)
  OBVIOUS
<1>5. /\ Len(orders) < MaxOrders
      /\ CommitDispatch(v, Unindexed(index, drivers, v.drivers), age)
      /\ UNCHANGED <<shut, paused>>
  BY <1>2, <1>3 DEF PlaceOrderOptimized, WithOrder
<1>6. QueuedInv /\ IndexOf(index, World) /\ (\A o \in DOMAIN age : age[o] \in Nat) /\ Inv
  BY DEF DispatchInv, QueuedInv
<1>7. OrderAdded(n, w)
  BY <1>1, <1>2, <1>5, <1>6, PlacedQueue
<1>8. /\ w \in Good(n) /\ n \in 0..MaxOrders /\ ExactQueue(w)
      /\ w.drivers = drivers
      /\ \A o \in 1..n : o \in DOMAIN orders => w.orders[o] = orders[o]
      /\ w.orders[n].status = "pending"
      /\ \A o \in 1..n : o = n \/ o \in DOMAIN orders
  BY <1>7 DEF OrderAdded
<1>9. Rounded(n, v, w)
  <2>1. CASE Len(w.queue) = 1 /\ IdleDrivers(w) # {}
    BY <1>3, <1>8, <2>1, ImmediateDispatches DEF Rounded
  <2>2. CASE ~(Len(w.queue) = 1 /\ IdleDrivers(w) # {})
    BY <1>3, <1>8, <2>2, DispatchedSelf DEF Rounded
  <2> QED BY <2>1, <2>2
<1>10. Dispatched(n, v, w) /\ Caused(n, v, w) /\ ExactQueue(v) /\ v \in Good(n)
  BY <1>9 DEF Rounded, Dispatched
<1>11. IndexOf(index, w)
  BY <1>6, <1>8 DEF IndexOf, World
<1>12. /\ IndexOf(ix, v)
       /\ \A d \in Driver : v.drivers[d].status = "idle" /\ d \notin DOMAIN ix =>
            w.drivers[d].status = "idle" /\ d \notin DOMAIN index
  BY <1>4, <1>8, <1>10, <1>11, UnindexedSound
<1>13. CommitDispatch(v, ix, age)
  BY <1>4, <1>5, <1>8
<1>14. shut' \subseteq Road /\ paused' \in BOOLEAN
  BY <1>5, <1>6 DEF Inv, TypeOK
<1>15. DispatchInv'
  BY <1>6, <1>8, <1>10, <1>12, <1>13, <1>14, CommitDispatched
<1>16. drivers' = v.drivers /\ orders' = v.orders /\ index' = ix /\ Commit(v)
  BY <1>13 DEF CommitDispatch, Commit
<1>17. IndexStep
  <2>1. IndexSound'
    BY <1>12, <1>16 DEF IndexSound, IndexOf
  <2>2. \A d \in Driver : Hidden(d)' => Hidden(d)
    BY <1>8, <1>12, <1>16 DEF Hidden
  <2> QED BY <2>1, <2>2 DEF IndexStep
<1>18. CauseStep
  <2>1. \A o \in 1..n : (o \in DOMAIN orders => orders[o].status = "pending")
                           => w.orders[o].status = "pending"
    BY <1>8
  <2>2. \A d \in Driver : w.drivers[d].status # "idle" \/ drivers[d].status = "idle"
    BY <1>8
  <2> QED BY <1>6, <1>8, <1>10, <1>16, <2>1, <2>2, RoundForCause
<1>19. BatchStep
  <2>1. orders \in Seq(OrderRecord)
    BY <1>6 DEF Inv, TypeOK
  <2>2. PICK k \in Nat : k = Len(orders) /\ n = k + 1
    BY <1>1, <2>1, LenProperties
  <2>3. DOMAIN orders' = 1..n /\ orders' \in Seq(OrderRecord)
    <3>1. orders' \in [1..n -> OrderRecord]
      BY <1>10, <1>16, GoodWorld
    <3> QED BY <2>2, <3>1
  <2>4. Len(orders') = n
    BY <2>2, <2>3, LenProperties
  <2>5. ~Ticked
    BY <2>2, <2>4 DEF Ticked
  <2> QED BY <2>5 DEF BatchStep
<1>20. PlacedStep
  <2>1. \A o \in 1..Len(orders) : o \in 1..n /\ o \in DOMAIN orders
    <3>1. orders \in Seq(OrderRecord)
      BY <1>6 DEF Inv, TypeOK
    <3>2. PICK k \in Nat : k = Len(orders) /\ n = k + 1 /\ DOMAIN orders = 1..k
      BY <1>1, <3>1, LenProperties
    <3> QED BY <3>2
  <2>2. w.orders[n].driver = NoDriver
    BY <1>7 DEF OrderAdded
  <2>3. OneMorePlaced(n, w)
    BY <1>1, <1>8, <2>1, <2>2 DEF OneMorePlaced
  <2> QED BY <1>1, <1>5, <1>8, <1>10, <1>16, <2>3 DEF PlacedStep
<1> QED BY <1>15, <1>17, <1>18, <1>19, <1>20

\* The ages of a tick.
LEMMA AgedCounts ==
  ASSUME DispatchInv
  PROVE  DOMAIN Aged = Queued(World) /\ \A o \in DOMAIN Aged : Aged[o] \in Nat
BY DEF Aged, DispatchInv

\* A batch leaves nothing.
LEMMA BatchedLeaves ==
  ASSUME QueuedInv, NEW n, n = Len(orders), NEW w, w = AfterMoves,
         NEW ix, ix = IndexAfterMoves(w), NEW v, Batched(n, v, w, ix), Commit(v)
  PROVE  BatchStep
<1>1. PICK result : /\ Plan(n, w, result.assigned, result.infeasible)
                    /\ BatchDone(n, v, w, result)
                    /\ Serves(w, ix, result.assigned)
  BY DEF Batched
<1>2. PICK A : A = result.assigned
  OBVIOUS
<1>3. /\ Dispatched(n, v, w) /\ ExactQueue(v)
      /\ \A k \in DOMAIN A : Settles(v, w, A[k][1], A[k][2])
      /\ \A o \in Unresolved(v) : /\ o \in Unresolved(w)
                                  /\ \A k \in DOMAIN A : A[k][1] # o
      /\ \A e \in Driver : (\A k \in DOMAIN A : A[k][2] # e) => v.drivers[e] = w.drivers[e]
  BY <1>1, <1>2 DEF BatchDone
<1>4. Serves(w, ix, A)
  BY <1>1, <1>2
<1>5. drivers' = v.drivers /\ orders' = v.orders /\ queue' = v.queue
  BY DEF Commit
<1>6. /\ w \in Good(n) /\ w.queue = queue
      /\ Queued(w) = Queued(World) /\ Queued(World) = Unresolved(World)
      /\ Unresolved(w) = Unresolved(World)
      /\ \A o \in Unresolved(World) : w.orders[o] = orders[o]
  BY MovesLeavePending
<1>7. Queued(w) = ToSet(queue) /\ ToSet(queue') = Unresolved(v)
  BY <1>3, <1>5, <1>6 DEF Queued, ToSet, ExactQueue
<1>8. SUFFICES ASSUME NEW o \in ToSet(queue'), NEW d \in Driver,
                      v.drivers[d].status = "idle",
                      Reachable(shut, v.drivers[d].pos, orders[o].pickup),
                      d \in ToSet(CandidatesOf(w, ix, o))
               PROVE  \E p \in ToSet(queue) :
                        /\ v.orders[p].status = "unassignable"
                        /\ ~Reachable(shut, orders[p].pickup, orders[p].dest)
  BY <1>5 DEF BatchStep
<1>9. o \in Queued(w) /\ (\A k \in DOMAIN A : A[k][1] # o) /\ w.orders[o] = orders[o]
  BY <1>3, <1>6, <1>7
<1>10. v.drivers[d] = w.drivers[d]
  BY <1>3, <1>8 DEF Dispatched
<1>11. PICK k \in DOMAIN A : A[k][2] = d
  BY <1>4, <1>8, <1>9, <1>10 DEF Serves
<1>12. PICK p : p = A[k][1]
  OBVIOUS
<1>13. Settles(v, w, p, d)
  BY <1>3, <1>11, <1>12
<1>14. /\ v.orders[p].status = "unassignable"
       /\ ~Reachable(shut, w.orders[p].pickup, w.orders[p].dest)
  BY <1>8, <1>13 DEF Settles
<1>15. p \in Queued(w)
  <2>1. A \in Seq((1..n) \X Driver) /\ w.orders[p].status = "pending"
    BY <1>1, <1>2, <1>11, <1>12 DEF Plan
  <2>2. p \in 1..n
    <3>1. A[k] \in (1..n) \X Driver
      BY <2>1, <1>11, LenProperties, ElementOfSeq
    <3> QED BY <1>12, <3>1
  <2>3. DOMAIN w.orders = 1..n
    BY <1>6, GoodWorld
  <2>4. p \in Unresolved(w)
    BY <2>1, <2>2, <2>3 DEF Unresolved
  <2> QED BY <1>6, <2>4
<1> QED BY <1>6, <1>7, <1>14, <1>15

\* tick
LEMMA TickDispatched ==
  ASSUME DispatchInv, TickOptimized
  PROVE  DispatchInv' /\ IndexStep /\ CauseStep /\ BatchStep /\ MovedStep
<1>1. PICK w : w = AfterMoves
  OBVIOUS
<1>2. PICK bonus, ix, v :
        /\ bonus \in [Driver -> 0..IdleBonus]
        /\ ix = IndexAfterMoves(w)
        /\ v = DispatchOptimized(w, ix, Aged, bonus)
        /\ CommitDispatch(v, Unindexed(ix, w.drivers, v.drivers), Aged)
        /\ UNCHANGED <<shut, paused>>
  <2>1. PICK bonus \in [Driver -> 0..IdleBonus] :
          \E ix \in {IndexAfterMoves(w)} : \E v \in {DispatchOptimized(w, ix, Aged, bonus)} :
            /\ CommitDispatch(v, Unindexed(ix, w.drivers, v.drivers), Aged)
            /\ UNCHANGED <<shut, paused>>
    BY <1>1 DEF TickOptimized
  <2> QED BY <2>1
<1>3. PICK n : n = Len(orders)
  OBVIOUS
<1>4. QueuedInv /\ Inv /\ IndexOf(index, World)
  BY DEF DispatchInv, QueuedInv
<1>5. n \in 0..MaxOrders
  BY <1>3, <1>4, WorldGood
<1>6. /\ w \in Good(n) /\ ExactQueue(w) /\ w.queue = queue
      /\ Queued(w) = Queued(World) /\ Queued(World) = Unresolved(World)
      /\ Unresolved(w) = Unresolved(World)
      /\ \A o \in Unresolved(World) : w.orders[o] = orders[o]
  BY <1>1, <1>3, <1>4, MovesLeavePending
<1>7. /\ IndexOf(ix, w)
      /\ \A d \in Driver : w.drivers[d].status = "idle" /\ d \notin DOMAIN ix => Hidden(d)
  BY <1>1, <1>2, <1>4, MovedIndex
<1>8. Indexed(ix, w)
  BY <1>6, <1>7, IndexedSound
<1>9. Counted(w, Aged, bonus)
  <2>1. \A o \in Unresolved(w) : Aged[o] \in Nat
    BY <1>6, AgedCounts
  <2> QED BY <1>2, <2>1 DEF Counted
<1>10. /\ Rounded(n, v, w)
       /\ Len(w.queue) >= MinBatchSize \/ (Len(w.queue) >= 2 /\ Aged[w.queue[1]] >= MaxWait)
            => Batched(n, v, w, ix)
  BY <1>2, <1>5, <1>6, <1>8, <1>9, DispatchOutcome
<1>11. Dispatched(n, v, w) /\ Caused(n, v, w) /\ ExactQueue(v) /\ v \in Good(n)
  BY <1>10 DEF Rounded, Dispatched
<1>12. PICK iy : iy = Unindexed(ix, w.drivers, v.drivers)
  OBVIOUS
<1>13. /\ IndexOf(iy, v)
       /\ \A d \in Driver : v.drivers[d].status = "idle" /\ d \notin DOMAIN iy =>
            w.drivers[d].status = "idle" /\ d \notin DOMAIN ix
  BY <1>5, <1>6, <1>7, <1>11, <1>12, UnindexedSound
<1>14. CommitDispatch(v, iy, Aged)
  BY <1>2, <1>12
<1>15. shut' \subseteq Road /\ paused' \in BOOLEAN
  BY <1>2, <1>4 DEF Inv, TypeOK
<1>16. DispatchInv'
  <2>1. \A o \in DOMAIN Aged : Aged[o] \in Nat
    BY AgedCounts
  <2> QED BY <1>5, <1>11, <1>13, <1>14, <1>15, <2>1, CommitDispatched
<1>17. drivers' = v.drivers /\ orders' = v.orders /\ index' = iy /\ Commit(v)
  BY <1>14 DEF CommitDispatch, Commit
<1>18. IndexStep
  <2>1. IndexSound'
    BY <1>13, <1>17 DEF IndexSound, IndexOf
  <2>2. \A d \in Driver : Hidden(d)' => Hidden(d)
    BY <1>7, <1>13, <1>17 DEF Hidden
  <2> QED BY <2>1, <2>2 DEF IndexStep
<1>19. DOMAIN orders = 1..n /\ World.orders = orders
  <2>1. World \in Good(n) /\ World.orders = orders
    BY <1>3, <1>4, WorldGood DEF World
  <2> QED BY <2>1, GoodWorld
<1>20. CauseStep
  <2>1. ASSUME NEW o \in 1..n, orders[o].status = "pending" PROVE w.orders[o].status = "pending"
    <3>1. o \in Unresolved(World)
      BY <1>19, <2>1 DEF Unresolved
    <3> QED BY <1>6, <2>1, <3>1
  <2>2. ASSUME NEW d \in Driver, drivers[d].status # "idle"
        PROVE  drivers[d].order \in DOMAIN orders /\ w.orders[drivers[d].order].status # "pending"
    <3>1. PICK o : o = drivers[d].order
      OBVIOUS
    <3>2. o \in 1..n /\ orders[o].status \in {"assigned", "en_route"}
      <4>1. World \in Good(n) /\ World.drivers = drivers /\ World.orders = orders
        BY <1>3, <1>4, WorldGood DEF World
      <4> QED BY <2>2, <3>1, <4>1, GoodWorld
    <3>3. o \notin Unresolved(w)
      BY <1>6, <1>19, <3>2 DEF Unresolved
    <3>4. DOMAIN w.orders = 1..n
      BY <1>6, GoodWorld
    <3> QED BY <1>19, <3>1, <3>2, <3>3, <3>4 DEF Unresolved
  <2>3. \A o \in 1..n : (o \in DOMAIN orders => orders[o].status = "pending")
                           => w.orders[o].status = "pending"
    BY <1>19, <2>1
  <2> QED BY <1>4, <1>5, <1>6, <1>11, <1>17, <2>2, <2>3, RoundForCause
<1>21. BatchStep
  <2>1. CASE BatchDue
    <3>1. Batched(n, v, w, ix)
      BY <1>6, <1>10, <2>1 DEF BatchDue
    <3> QED BY <1>1, <1>2, <1>3, <1>4, <1>17, <3>1, BatchedLeaves
  <2>2. CASE ~BatchDue
    BY <2>2 DEF BatchStep
  <2> QED BY <2>1, <2>2
<1>22. MovedStep
  BY <1>1, <1>2, <1>3, <1>11, <1>17 DEF MovedStep
<1> QED BY <1>16, <1>18, <1>20, <1>21, <1>22

\* handleCloseRoad: a driver whose route is cut is busy, so not in the index, and
\* no order that waits is turned away.
LEMMA CloseRoadDispatched ==
  ASSUME DispatchInv, NEW r \in Road, CloseRoadIndexed(r)
  PROVE  DispatchInv' /\ IndexStep /\ CauseStep /\ BatchStep
<1>1. CloseRoad(r) /\ index' = index /\ age' = age
  BY DEF CloseRoadIndexed
<1>2. QueuedInv /\ Inv /\ IndexOf(index, World)
  BY DEF DispatchInv, QueuedInv
<1>3. PICK closed : closed = shut \union {r}
  OBVIOUS
<1>4. r \notin shut /\ shut' = closed /\ Commit(AfterClosing(closed))
  BY <1>1, <1>3 DEF CloseRoad
<1>5. /\ drivers' = AfterClosing(closed).drivers
      /\ orders' = AfterClosing(closed).orders
      /\ queue' = queue
  BY <1>4 DEF Commit, AfterClosing
<1>6. QueuedInv'
  BY <1>1, <1>2, CloseRoadInv, CloseRoadQueued DEF QueuedInv
<1>7. /\ DOMAIN index \in SUBSET Driver
      /\ \A d \in DOMAIN index : drivers[d].status = "idle" /\ index[d] = Coord[drivers[d].pos]
  BY <1>2 DEF IndexOf, World
<1>8. \A d \in Driver : drivers[d].status = "idle" => drivers'[d] = drivers[d]
  <2> SUFFICES ASSUME NEW d \in Driver, drivers[d].status = "idle" PROVE drivers'[d] = drivers[d]
    OBVIOUS
  <2>1. ~Affected(d, closed)
    BY <1>2, AffectedBusy
  <2> QED BY <1>5, <2>1 DEF AfterClosing
<1>9. IndexOf(index, World)'
  BY <1>1, <1>7, <1>8 DEF IndexOf, World
<1>10. Queued(World)' = Queued(World)
  BY <1>5 DEF Queued, World
<1>11. DispatchInv'
  BY <1>1, <1>6, <1>9, <1>10 DEF DispatchInv
<1>12. IndexStep
  <2>1. IndexSound'
    BY <1>9 DEF IndexSound, IndexOf, World
  <2>2. shut' # shut
    BY <1>3, <1>4
  <2> QED BY <2>1, <2>2 DEF IndexStep
<1>13. CauseStep
  <2>1. ASSUME NEW o \in DOMAIN orders' 
        PROVE  o \in DOMAIN orders /\
               (orders'[o].status = "unassignable" => orders[o].status # "pending")
    <3>1. o \in DOMAIN orders
      BY <1>5 DEF AfterClosing
    <3>2. CASE \E d \in Driver : drivers[d].order = o /\ Stranded(d, closed)
      <4>1. PICK d \in Driver : drivers[d].order = o /\ Affected(d, closed)
        BY <3>2 DEF Stranded
      <4>2. drivers[d].status # "idle"
        BY <1>2, <4>1, AffectedBusy
      <4>3. World \in Good(Len(orders)) /\ World.drivers = drivers /\ World.orders = orders
        BY <1>2, WorldGood DEF World
      <4>4. orders[o].status \in {"assigned", "en_route"}
        BY <4>1, <4>2, <4>3, GoodWorld
      <4> QED BY <3>1, <4>4
    <3>3. CASE ~ \E d \in Driver : drivers[d].order = o /\ Stranded(d, closed)
      <4>1. orders'[o] = orders[o]
        BY <1>5, <3>1, <3>3 DEF AfterClosing
      <4> QED BY <3>1, <4>1
    <3> QED BY <3>2, <3>3
  <2> QED BY <2>1, NoneTurnedAway
<1>14. BatchStep
  <2>1. ~Ticked
    BY <1>3, <1>4 DEF Ticked
  <2> QED BY <2>1 DEF BatchStep
<1> QED BY <1>11, <1>12, <1>13, <1>14

\* The steps that leave drivers, orders and queue alone.
LEMMA QuietSteps ==
  ASSUME DispatchInv, UNCHANGED <<drivers, orders, queue, index, age>>,
         shut' \subseteq Road, paused' \in BOOLEAN
  PROVE  DispatchInv' /\ IndexStep /\ CauseStep
<1>1. DispatchInv'
  BY QuietDispatched
<1>2. IndexStep
  <2>1. IndexSound'
    BY <1>1 DEF DispatchInv, IndexOf, IndexSound, World
  <2>2. \A d \in Driver : Hidden(d)' => Hidden(d)
    BY DEF Hidden
  <2> QED BY <2>1, <2>2 DEF IndexStep
<1>3. CauseStep
  BY NoneTurnedAway
<1> QED BY <1>1, <1>2, <1>3

\* reset
LEMMA ResetDispatched ==
  ASSUME DispatchInv, ResetIndexed
  PROVE  DispatchInv' /\ IndexStep /\ CauseStep /\ BatchStep
<1>1. Reset /\ index' = InitialIndex /\ age' = [o \in {} |-> 0]
  BY DEF ResetIndexed
<1>2. drivers' = InitialDrivers /\ orders' = <<>> /\ queue' = <<>>
  BY <1>1 DEF Reset
<1>3. Commit([drivers |-> InitialDrivers, orders |-> <<>>, queue |-> <<>>])
  BY <1>2 DEF Commit
<1>4. Inv'
  BY <1>1, ResetInv DEF DispatchInv, QueuedInv
<1>5. ExactQueue(World)'
  BY <1>3, FreshQueued, CommitQueued
<1>6. IndexOf(index, World)'
  BY <1>1, <1>2, FreshDispatched DEF IndexOf, World
<1>7. Queued(World)' = {} /\ DOMAIN age' = {}
  BY <1>1, <1>2 DEF Queued, World
<1>8. DispatchInv'
  BY <1>4, <1>5, <1>6, <1>7 DEF DispatchInv, QueuedInv
<1>9. IndexStep
  <2>1. IndexSound'
    BY <1>6 DEF IndexSound, IndexOf, World
  <2>2. \A d \in Driver : d \in DOMAIN index'
    BY <1>1 DEF InitialIndex
  <2> QED BY <2>1, <2>2 DEF IndexStep, Hidden
<1>10. CauseStep
  BY <1>2, NoneTurnedAway
<1>11. BatchStep
  <2>1. ~Ticked
    <3> SUFFICES ASSUME Ticked PROVE FALSE
      OBVIOUS
    <3>1. orders # <<>> /\ Len(orders) = Len(orders')
      BY DEF Ticked
    <3>2. orders \in Seq(OrderRecord)
      BY DEF DispatchInv, QueuedInv, Inv, TypeOK
    <3>3. Len(orders) = 0
      BY <1>2, <3>1
    <3> QED BY <3>1, <3>2, <3>3
  <2> QED BY <2>1 DEF BatchStep
<1> QED BY <1>8, <1>9, <1>10, <1>11

\* Every step keeps the invariant and does what the properties ask.
LEMMA DispatchStep ==
  ASSUME DispatchInv, [DispatchNext]_dispatchVars
  PROVE  DispatchInv' /\ [IndexStep /\ CauseStep /\ BatchStep]_dispatchVars
<1>0. shut \subseteq Road /\ paused \in BOOLEAN
  BY DEF DispatchInv, QueuedInv, Inv, TypeOK
<1>1. ASSUME NEW t \in Trip, PlaceOrderOptimized(t)
      PROVE  DispatchInv' /\ IndexStep /\ CauseStep /\ BatchStep
  BY <1>1, PlaceOrderDispatched
<1>2. CASE TickOptimized
  BY <1>2, TickDispatched
<1>3. ASSUME NEW r \in Road, CloseRoadIndexed(r)
      PROVE  DispatchInv' /\ IndexStep /\ CauseStep /\ BatchStep
  BY <1>3, CloseRoadDispatched
<1>4. ASSUME NEW r \in Road, ReopenRoadIndexed(r)
      PROVE  DispatchInv' /\ IndexStep /\ CauseStep /\ BatchStep
  <2>1. /\ UNCHANGED <<drivers, orders, queue, index, age>>
        /\ r \in shut /\ shut' = shut \ {r} /\ paused' = paused
    BY <1>4 DEF ReopenRoadIndexed, ReopenRoad
  <2>2. shut' \subseteq Road /\ paused' \in BOOLEAN /\ shut' # shut
    BY <1>0, <2>1
  <2>3. DispatchInv' /\ IndexStep /\ CauseStep
    BY <2>1, <2>2, QuietSteps
  <2> QED BY <2>2, <2>3 DEF BatchStep, Ticked
<1>5. ASSUME NEW p \in BOOLEAN, SetPausedIndexed(p)
      PROVE  DispatchInv' /\ (UNCHANGED dispatchVars \/ (IndexStep /\ CauseStep /\ BatchStep))
  <2>1. UNCHANGED <<drivers, orders, queue, shut, index, age>> /\ paused' = p
    BY <1>5 DEF SetPausedIndexed, SetPaused
  <2>2. DispatchInv' /\ IndexStep /\ CauseStep
    BY <1>0, <2>1, QuietSteps
  <2>3. CASE paused' = paused
    BY <2>1, <2>2, <2>3 DEF dispatchVars, vars
  <2>4. CASE paused' # paused
    BY <2>2, <2>4 DEF BatchStep, Ticked
  <2> QED BY <2>3, <2>4
<1>6. CASE ResetIndexed
  BY <1>6, ResetDispatched
<1>7. CASE UNCHANGED dispatchVars
  BY <1>0, <1>7, QuietSteps DEF dispatchVars, vars
<1> QED BY <1>1, <1>2, <1>3, <1>4, <1>5, <1>6, <1>7 DEF DispatchNext

\* The invariant, for every city, any number of drivers and any batch size.
THEOREM DispatchInvAlways == DispatchSpec => []DispatchInv
<1> QED BY DispatchStart, DispatchStep, PTL DEF DispatchSpec

\* The queue stays exact under the optimized strategy, too: batches, lone orders
\* and movement neither lose an order nor keep one that is settled.
THEOREM BatchedQueueExact == DispatchSpec => []QueueExact
<1>1. DispatchInv => QueueExact
  BY DEF DispatchInv, QueuedInv, ExactQueue, QueueExact, Unresolved, World
<1> QED BY <1>1, DispatchInvAlways, PTL

\* The pairing of drivers and orders holds under the optimized strategy, too.
THEOREM BatchedPairing == DispatchSpec => []Pairing
<1>1. DispatchInv => Pairing
  BY DEF DispatchInv, QueuedInv, Inv
<1> QED BY <1>1, DispatchInvAlways, PTL

\* The ring search over the index finds the nearest drivers, wherever they stand
\* and however far apart.
THEOREM CandidatesAlwaysNearby == DispatchSpec => []CandidatesNearby
<1>1. ASSUME DispatchInv, NEW n \in Node, NEW k \in 1..DriverCount
      PROVE  IsNearbySearch(index, Coord[n], k, NearestOf(index, Coord[n], k))
  <2>1. World \in Good(Len(orders))
    BY <1>1, WorldGood DEF DispatchInv, QueuedInv
  <2>2. Indexed(index, World)
    BY <1>1, <2>1, IndexedSound DEF DispatchInv
  <2>3. DOMAIN index \in SUBSET Driver /\ \A d \in DOMAIN index : index[d] \in Point
    BY <2>2 DEF Indexed
  <2>4. IsFiniteSet(DOMAIN index) /\ DOMAIN index \in SUBSET Int
    BY <2>3, DriversFinite
  <2>5. Coord[n] \in Point
    BY CoordAssumption DEF Point
  <2>6. k \in Nat
    OBVIOUS
  <2> QED BY <2>3, <2>4, <2>5, <2>6, RingSearchCorrect
<1>2. DispatchInv => CandidatesNearby
  BY <1>1 DEF CandidatesNearby
<1> QED BY <1>2, DispatchInvAlways, PTL

\* Every step leaves in the index idle drivers only, where they are, and takes
\* out no driver that stays idle.
THEOREM IndexAlwaysKept == DispatchSpec => IndexKept
<1>1. DispatchInv /\ [DispatchNext]_dispatchVars => [IndexStep]_dispatchVars
  BY DispatchStep
<1>2. DispatchSpec => [][IndexStep]_dispatchVars
  BY <1>1, DispatchInvAlways, PTL DEF DispatchSpec
<1>3. IndexKept <=> [][IndexStep]_dispatchVars
  BY DEF IndexKept, IndexStep
<1> QED BY <1>2, <1>3, PTL

\* No order is turned away but for a cause.
THEOREM AlwaysTurnedAwayForCause == DispatchSpec => TurnedAwayForCause
<1>1. DispatchInv /\ [DispatchNext]_dispatchVars => [CauseStep]_dispatchVars
  BY DispatchStep
<1>2. DispatchSpec => [][CauseStep]_dispatchVars
  BY <1>1, DispatchInvAlways, PTL DEF DispatchSpec
<1>3. TurnedAwayForCause <=> [][CauseStep]_dispatchVars
  BY DEF TurnedAwayForCause, CauseStep
<1> QED BY <1>2, <1>3, PTL

\* A batch leaves no order waiting that a candidate still idle could serve.
THEOREM BatchesLeaveNothing == DispatchSpec => BatchLeavesNothing
<1>1. DispatchInv /\ [DispatchNext]_dispatchVars => [BatchStep]_dispatchVars
  BY DispatchStep
<1>2. DispatchSpec => [][BatchStep]_dispatchVars
  BY <1>1, DispatchInvAlways, PTL DEF DispatchSpec
<1>3. BatchLeavesNothing <=> [][BatchStep]_dispatchVars
  BY DEF BatchLeavesNothing, BatchStep
<1> QED BY <1>2, <1>3, PTL

-----------------------------------------------------------------------------
\* The roads ahead, the course and the lifecycle, under the optimized strategy.

\* A round of dispatch sends its drivers out over open roads, on their course.
LEMMA DispatchedBound ==
  ASSUME NEW n, NEW w \in Bound(n, shut), NEW v, Dispatched(n, v, w)
  PROVE  v \in Bound(n, shut)
<1>1. /\ v \in Good(n)
      /\ \A o \in 1..n : v.orders[o].pickup = w.orders[o].pickup /\ v.orders[o].dest = w.orders[o].dest
  BY DEF Dispatched
<1>2. ASSUME NEW d \in Driver
      PROVE  \/ v.drivers[d] = w.drivers[d]
             \/ /\ Clear(v.drivers[d], shut)
                /\ Course(v.drivers[d], v.orders[v.drivers[d].order])
  <2>1. SUFFICES ASSUME v.drivers[d] # w.drivers[d]
                 PROVE  /\ Clear(v.drivers[d], shut)
                        /\ Course(v.drivers[d], v.orders[v.drivers[d].order])
    OBVIOUS
  <2>2. PICK c, o : c = v.drivers[d] /\ o = c.order
    OBVIOUS
  <2>3. o \in 1..n /\ Clear(c, shut) /\ Course(c, w.orders[o])
    BY <2>1, <2>2 DEF Dispatched, Underway
  <2>4. Course(c, v.orders[o])
    BY <1>1, <2>3, CourseOfTrip
  <2> QED BY <2>2, <2>3, <2>4
<1> QED BY <1>1, <1>2, StaysBound

\* A round of dispatch takes no order back.
LEMMA DispatchedOnward ==
  ASSUME NEW n \in 0..MaxOrders, NEW w \in Good(n), NEW u \in Onward(n, w),
         NEW v, Dispatched(n, v, u)
  PROVE  v \in Onward(n, w)
<1>1. v \in Good(n) /\ u \in Good(n) /\ CarriedBy(u)
  BY DEF Dispatched, Onward
<1>2. DOMAIN u.orders = 1..n /\ u.orders \in [1..n -> OrderRecord]
  BY <1>1, GoodWorld
<1>3. ASSUME NEW o \in 1..n
      PROVE  /\ MovesOn(v.orders[o], u.orders[o])
             /\ v.orders[o].status = "pending" => v.orders[o].driver = NoDriver
             /\ v.orders[o].status = "delivered" => v.orders[o].driver \in Driver
  <2>1. CASE v.orders[o] = u.orders[o]
    BY <1>1, <1>2, <2>1, MovesOnSame DEF CarriedBy
  <2>2. CASE v.orders[o] # u.orders[o]
    <3>1. /\ u.orders[o].status = "pending"
          /\ v.orders[o].status \in {"assigned", "en_route", "unassignable"}
      BY <2>2 DEF Dispatched
    <3> QED BY <3>1 DEF MovesOn, Lifecycle!Later, Lifecycle!Stage
  <2> QED BY <2>1, <2>2
<1> QED BY <1>1, <1>3, StaysOnward

\* An order just placed is not delivered by the round that follows.
LEMMA DispatchedLast ==
  ASSUME NEW n, NEW w, OneMorePlaced(n, w), NEW v, Dispatched(n, v, w)
  PROVE  v.orders[n].status # "delivered"
<1>1. n \in 1..n
  <2>1. n \in Nat /\ n # 0
    <3>1. w.orders[n].status = "pending" /\ n \in 0..MaxOrders /\ MaxOrders \in Nat
      BY SimulationAssumption DEF OneMorePlaced
    <3>2. n = Len(orders) + 1
      BY DEF OneMorePlaced
    <3> QED BY <3>1, <3>2
  <2> QED BY <2>1
<1> QED BY <1>1 DEF Dispatched, OneMorePlaced

\* Every step is one of the actor's, whose proof holds here, or places an order or
\* ticks under the optimized strategy.
LEMMA DispatchedOrOld ==
  ASSUME DispatchInv, [DispatchNext]_dispatchVars
  PROVE  PlacedStep \/ MovedStep \/ [Next]_vars
<1>1. ASSUME NEW t \in Trip, PlaceOrderOptimized(t) PROVE PlacedStep
  BY <1>1, PlaceOrderDispatched
<1>2. CASE TickOptimized
  BY <1>2, TickDispatched
<1>3. ASSUME NEW r \in Road, CloseRoadIndexed(r) PROVE Next
  BY <1>3 DEF CloseRoadIndexed, Next
<1>4. ASSUME NEW r \in Road, ReopenRoadIndexed(r) PROVE Next
  BY <1>4 DEF ReopenRoadIndexed, Next
<1>5. ASSUME NEW p \in BOOLEAN, SetPausedIndexed(p) PROVE Next
  BY <1>5 DEF SetPausedIndexed, Next
<1>6. CASE ResetIndexed
  BY <1>6 DEF ResetIndexed, Next
<1>7. CASE UNCHANGED dispatchVars
  BY <1>7 DEF dispatchVars
<1> QED BY <1>1, <1>2, <1>3, <1>4, <1>5, <1>6, <1>7 DEF DispatchNext

\* Every driver has open roads ahead and is on its course, whatever the step.
LEMMA DispatchHeaded ==
  ASSUME DispatchInv, HeadedInv, [DispatchNext]_dispatchVars
  PROVE  HeadedInv'
<1>1. Inv'
  BY DispatchStep DEF DispatchInv, QueuedInv
<1>2. CASE PlacedStep
  <2>1. PICK w, v : /\ OneMorePlaced(Len(orders) + 1, w) /\ w.drivers = drivers
                    /\ Dispatched(Len(orders) + 1, v, w) /\ Commit(v) /\ shut' = shut
    BY <1>2 DEF PlacedStep
  <2>2. w \in Bound(Len(orders) + 1, shut)
    BY <2>1, PlacedBound DEF OneMorePlaced
  <2>3. v \in Bound(Len(orders) + 1, shut')
    BY <2>1, <2>2, DispatchedBound
  <2> QED BY <1>1, <2>1, <2>3, CommitHeaded DEF HeadedInv
<1>3. CASE MovedStep
  <2>1. PICK v : Dispatched(Len(orders), v, AfterMoves) /\ Commit(v) /\ shut' = shut
    BY <1>3 DEF MovedStep
  <2>2. AfterMoves \in Bound(Len(orders), shut)
    BY AfterMovesBound DEF HeadedInv
  <2>3. v \in Bound(Len(orders), shut')
    BY <2>1, <2>2, DispatchedBound
  <2> QED BY <1>1, <2>1, <2>3, CommitHeaded DEF HeadedInv
<1>4. CASE [Next]_vars
  BY <1>4, HeadedNext
<1> QED BY <1>2, <1>3, <1>4, DispatchedOrOld

\* Every step is one of the lifecycle, or none.
LEMMA DispatchRefines ==
  ASSUME DispatchInv, LifecycleInv, [DispatchNext]_dispatchVars
  PROVE  LifecycleInv' /\ [Lifecycle!Next]_(Lifecycle!vars)
<1>1. Inv'
  BY DispatchStep DEF DispatchInv, QueuedInv
<1>2. Inv /\ World \in Good(Len(orders)) /\ Len(orders) \in 0..MaxOrders
  BY WorldGood DEF LifecycleInv
<1>3. CASE PlacedStep
  <2>1. PICK n, w, v : /\ n = Len(orders) + 1 /\ OneMorePlaced(n, w)
                       /\ Dispatched(n, v, w) /\ Commit(v)
    BY <1>3 DEF PlacedStep
  <2>2. n \in 0..MaxOrders /\ w \in Good(n)
    BY <2>1 DEF OneMorePlaced
  <2>3. v \in Onward(n, w)
    <3>1. w \in Onward(n, w)
      BY <2>1, <2>2, PlacedCarried, OnwardSelf
    <3> QED BY <2>1, <2>2, <3>1, DispatchedOnward
  <2>4. v.orders[n].status # "delivered"
    BY <2>1, DispatchedLast
  <2>5. /\ CarriedBy(World)'
        /\ Len(orders') = Len(orders) + 1
        /\ \A o \in 1..Len(orders) : MovesOn(orders'[o], orders[o])
        /\ \A o \in 1..Len(orders') : o \notin 1..Len(orders) => orders'[o].status # "delivered"
    BY <2>1, <2>3, <2>4, PlacedAdvances
  <2>6. LifecycleInv'
    BY <1>1, <2>5 DEF LifecycleInv
  <2>7. Lifecycle!Advance
    BY <2>5, <2>6, AdvanceStep
  <2> QED BY <2>6, <2>7 DEF Lifecycle!Next
<1>4. CASE MovedStep
  <2>1. PICK v : Dispatched(Len(orders), v, AfterMoves) /\ Commit(v)
    BY <1>4 DEF MovedStep
  <2>2. AfterMoves \in Onward(Len(orders), World)
    BY AfterMovesOnward DEF LifecycleInv
  <2>3. v \in Onward(Len(orders), World)
    BY <1>2, <2>1, <2>2, DispatchedOnward
  <2>4. /\ CarriedBy(World)'
        /\ Len(orders') = Len(orders)
        /\ \A o \in 1..Len(orders) : MovesOn(orders'[o], orders[o])
    BY <1>2, <2>1, <2>3, CommitOnward
  <2>5. LifecycleInv'
    BY <1>1, <2>4 DEF LifecycleInv
  <2>6. Lifecycle!Advance
    BY <2>4, <2>5, AdvanceStep
  <2> QED BY <2>5, <2>6 DEF Lifecycle!Next
<1>5. CASE [Next]_vars
  BY <1>1, <1>5, StepRefines DEF LifecycleStep, LifecycleInv
<1> QED BY <1>3, <1>4, <1>5, DispatchedOrOld

\* Neither a batch nor a closure ever leaves a driver heading over a closed road.
THEOREM BatchedRoadsAvoided == DispatchSpec => []NoClosedRoadAhead
<1>1. DispatchInit => HeadedInv
  BY HeadedInit DEF DispatchInit
<1>2. HeadedInv => NoClosedRoadAhead
  BY DEF HeadedInv, Headed, World, Clear, NoClosedRoadAhead
<1> QED BY <1>1, <1>2, DispatchHeaded, DispatchInvAlways, PTL DEF DispatchSpec

\* What is left of the route of a driver that a batch has matched leads through the
\* pickup of its order before collection, and to the destination after it.
THEOREM BatchedOnCourse == DispatchSpec => []OnCourse
<1>1. DispatchInit => HeadedInv
  BY HeadedInit DEF DispatchInit
<1>2. HeadedInv => OnCourse
  BY DEF HeadedInv, Headed, World, Course, OnCourse, Busy
<1> QED BY <1>1, <1>2, DispatchHeaded, DispatchInvAlways, PTL DEF DispatchSpec

\* The optimized strategy implements the lifecycle of orders, too.
THEOREM BatchedImplementsLifecycle == DispatchSpec => ImplementsLifecycle
<1>1. DispatchInit => LifecycleInv /\ Lifecycle!Init
  BY LifecycleInit DEF DispatchInit
<1> QED
  BY <1>1, DispatchRefines, DispatchInvAlways, PTL
  DEF DispatchSpec, ImplementsLifecycle, Lifecycle!Spec

=============================================================================
