-------------------------------- MODULE AStar --------------------------------
(***************************************************************************)
(* routing.FindRoute as the search it is: A* with a heap of open entries    *)
(* ordered by priority and then by insertion, the best distance found to    *)
(* every node, and where each was reached from.  An outdated entry stays in *)
(* the heap and is skipped when its node has been visited.                  *)
(***************************************************************************)
EXTENDS Routing, SequencesExt

CONSTANT Coord   \* Coord[n]: the <<x, y>> of node n

\* Roads are at least as long as the straight line, as the search relies on.
ASSUME CoordAssumption ==
  /\ Coord \in [Node -> Int \X Int]
  /\ \A a, b \in Node : {a, b} \in Road =>
       LET dx == Coord[a][1] - Coord[b][1]
           dy == Coord[a][2] - Coord[b][2]
       IN  dx * dx + dy * dy <= Weight[{a, b}] * Weight[{a, b}]

\* The straight line to the goal, rounded down to whole units.
Heuristic(n, goal) ==
  LET dx == Coord[n][1] - Coord[goal][1]
      dy == Coord[n][2] - Coord[goal][2]
      sq == dx * dx + dy * dy
  IN  CHOOSE k \in 0..sq : k * k <= sq /\ (k + 1) * (k + 1) > sq

\* mutant: the distance travelled is left out.
EstimateGreedy(travelled, n, goal) == Heuristic(n, goal)

\* The priority of an entry: the least the whole route may come to.
Estimate(travelled, n, goal) == travelled + Heuristic(n, goal)

Sooner(a, b) ==
  \/ a.priority < b.priority
  \/ a.priority = b.priority /\ a.seq < b.seq

\* The open edges of a node, in the fixed order the city lists them.
Edges(shut, n) == SetToSeq({m \in Node : {n, m} \in Road \ shut})

\* Relaxing the edge from n to m: a better distance is noted and m pushed.
Relax(s, n, m, goal) ==
  LET tentative == s.gScore[n] + Weight[{n, m}]
  IN  IF m \in DOMAIN s.gScore /\ tentative >= s.gScore[m] THEN s
      ELSE [s EXCEPT
        !.gScore   = [k \in DOMAIN @ \union {m} |-> IF k = m THEN tentative ELSE @[k]],
        !.cameFrom = [k \in DOMAIN @ \union {m} |-> IF k = m THEN n ELSE @[k]],
        !.open     = @ \union {[node |-> m, priority |-> Estimate(tentative, m, goal),
                                seq |-> s.seq]},
        !.seq      = @ + 1]

\* One round of the loop: the first entry is popped; its node is the goal, has
\* been visited, or is visited now.
Pop(shut, s, goal) ==
  LET top == CHOOSE e \in s.open : \A f \in s.open : e = f \/ Sooner(e, f)
      popped == [s EXCEPT !.open = @ \ {top}]
      Step(acc, m) == Relax(acc, top.node, m, goal)
  IN  IF s.open = {} \/ s.reached THEN s
      ELSE IF top.node \in s.visited THEN popped
      ELSE IF top.node = goal THEN [popped EXCEPT !.reached = TRUE]
      ELSE Iterate(Step, [popped EXCEPT !.visited = @ \union {top.node}],
                   Edges(shut, top.node))

\* reconstruct: back from the goal to the start, then reversed.
Reconstruct(s, start, goal) ==
  LET Back(path, i) == IF path[1] = start THEN path ELSE <<s.cameFrom[path[1]]>> \o path
  IN  Iterate(Back, <<goal>>, SetToSeq(Node))

\* FindRoute: every edge pushes its end at most once, which bounds the rounds.
Search(shut, start, goal) ==
  LET Round(s, i) == Pop(shut, s, goal)
      first == [open |-> {[node |-> start, priority |-> Estimate(0, start, goal), seq |-> 0]},
                gScore |-> [n \in {start} |-> 0], cameFrom |-> [n \in {} |-> start],
                visited |-> {}, seq |-> 1, reached |-> FALSE]
      s == Iterate(Round, first, [i \in 1..2 * Cardinality(Road) + 1 |-> i])
  IN  IF start = goal THEN <<start>>
      ELSE IF s.reached THEN Reconstruct(s, start, goal) ELSE NoRoute

-----------------------------------------------------------------------------
\* The search finds a shortest route, or none only if there is none
\* (routing/astar.go:18-21), with the roads of shut closed.
IsShortestSearch(shut) ==
  \A a, b \in Node :
    LET found == Search(shut, a, b)
    IN  IF Reachable(shut, a, b)
        THEN /\ found \in OpenPaths(shut, a, b)
             /\ Distance(found) = Distance(FindRoute(shut, a, b))
        ELSE found = NoRoute

=============================================================================
