----------------------------- MODULE Assignment -----------------------------
(***************************************************************************)
(* matching.MinCostAssignment: the Hungarian algorithm with potentials, on  *)
(* a rectangular matrix of costs, as the loops of the code: a row at a time, *)
(* for each row the search for an augmenting path, then the augmentation.   *)
(* Rows and columns count from 1, column 0 is the algorithm's dummy.        *)
(***************************************************************************)
EXTENDS Iteration, SequencesExt

\* The cost of a pair that cannot be matched (1e12 in the code): far above any
\* real cost.
Unreachable == 1000000

Transpose(m) == [j \in DOMAIN m[1] |-> [i \in DOMAIN m |-> m[i][j]]]

\* Before the first row: nothing is matched and no potential is raised.
Blank(work) ==
  LET all == DOMAIN work[1] \union {0}
  IN  [u |-> [i \in DOMAIN work |-> 0], v |-> [j \in all |-> 0],
       p |-> [j \in all |-> 0], way |-> [j \in all |-> 0], minv |-> [j \in all |-> 0],
       used |-> {}, j0 |-> 0, done |-> FALSE]

\* Row i takes the dummy column, where its search begins.
Begin(s, i) == [s EXCEPT !.p[0] = i, !.used = {}, !.j0 = 0, !.done = FALSE]

\* mutant: the potentials of the rows in the tree are not raised.
VisitWithoutPotentials(work, s) ==
  LET used   == s.used \union {s.j0}
      free   == DOMAIN s.way \ used
      i0     == s.p[s.j0]
      cur    == [j \in free |-> work[i0][j] - s.u[i0] - s.v[j]]
      nearer == {j \in free : s.used = {} \/ cur[j] < s.minv[j]}
      minv   == [j \in DOMAIN s.minv |-> IF j \in nearer THEN cur[j] ELSE s.minv[j]]
      j1     == CHOOSE j \in free : \A k \in free : minv[j] < minv[k] \/ (minv[j] = minv[k] /\ j <= k)
  IN  IF s.done THEN s
      ELSE [s EXCEPT
        !.used = used,
        !.way  = [j \in DOMAIN @ |-> IF j \in nearer THEN s.j0 ELSE @[j]],
        !.minv = minv,
        !.j0   = j1,
        !.done = s.p[j1] = 0]

\* One round of the search: column j0 joins the tree, the slack of the others is
\* brought up to date (in the first round it is infinite), and the potentials
\* change by the least of it.
Visit(work, s) ==
  LET used   == s.used \union {s.j0}
      free   == DOMAIN s.way \ used
      i0     == s.p[s.j0]
      cur    == [j \in free |-> work[i0][j] - s.u[i0] - s.v[j]]
      nearer == {j \in free : s.used = {} \/ cur[j] < s.minv[j]}
      minv   == [j \in DOMAIN s.minv |-> IF j \in nearer THEN cur[j] ELSE s.minv[j]]
      j1     == CHOOSE j \in free : \A k \in free : minv[j] < minv[k] \/ (minv[j] = minv[k] /\ j <= k)
      delta  == minv[j1]
  IN  IF s.done THEN s
      ELSE [s EXCEPT
        !.used = used,
        !.way  = [j \in DOMAIN @ |-> IF j \in nearer THEN s.j0 ELSE @[j]],
        !.minv = [j \in DOMAIN @ |-> IF j \in free THEN minv[j] - delta ELSE @[j]],
        !.u    = [i \in DOMAIN @ |-> IF \E j \in used : s.p[j] = i THEN @[i] + delta ELSE @[i]],
        !.v    = [j \in DOMAIN @ |-> IF j \in used THEN @[j] - delta ELSE @[j]],
        !.j0   = j1,
        !.done = s.p[j1] = 0]

\* The search for row i, with a round for each column at most.
Searched(work, s, i) ==
  LET Round(t, k) == Visit(work, t)
  IN  Iterate(Round, Begin(s, i), [k \in DOMAIN work[1] |-> k])

\* Back along the path that was found, each column takes its predecessor's row.
Augment(s) ==
  IF s.j0 = 0 THEN s
  ELSE [s EXCEPT !.p[s.j0] = s.p[s.way[s.j0]], !.j0 = s.way[s.j0]]

Matched(work, s, i) ==
  LET Back(t, k) == Augment(t)
  IN  Iterate(Back, Searched(work, s, i), [k \in DOMAIN work[1] |-> k])

\* p: the row each column is given, 0 if none.
RowOfColumn(work) ==
  LET Match(s, i) == Matched(work, s, i)
  IN  Iterate(Match, Blank(work), [i \in DOMAIN work |-> i]).p

\* The pairs <<row, column>> chosen.
MinCostAssignment(cost) ==
  LET transposed == Len(cost) > Len(cost[1])
      Pairs(p) == {IF transposed THEN <<j, p[j]>> ELSE <<p[j], j>> :
                     j \in {j \in DOMAIN p \ {0} : p[j] # 0}}
  IN  IF cost[1] = <<>> THEN {}
      ELSE Pairs(RowOfColumn(IF transposed THEN Transpose(cost) ELSE cost))

-----------------------------------------------------------------------------
\* What is promised: every way to pair all rows with columns, or all columns with
\* rows when there are fewer, and the least a way costs.
Pairings(cost) ==
  LET rows == DOMAIN cost
      cols == DOMAIN cost[1]
  IN  IF Len(cost) <= Len(cost[1])
      THEN {{<<i, f[i]>> : i \in rows} : f \in Injection(rows, cols)}
      ELSE {{<<f[j], j>> : j \in cols} : f \in Injection(cols, rows)}

TotalCost(cost, pairs) == FoldSet(LAMBDA p, sum : sum + cost[p[1]][p[2]], 0, pairs)

IsMinCost(cost, pairs) ==
  /\ pairs \in Pairings(cost)
  /\ \A other \in Pairings(cost) : TotalCost(cost, pairs) <= TotalCost(cost, other)

=============================================================================
