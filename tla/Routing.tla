------------------------------- MODULE Routing -------------------------------
(***************************************************************************)
(* The city graph and what internal/routing promises about it: FindRoute   *)
(* returns a shortest path over open roads, or nothing.  The A* search that *)
(* computes it is deterministic (ties broken by insertion order), which     *)
(* CHOOSE stands for.                                                       *)
(*                                                                          *)
(* GenerateGrid adds both directions of every road with the same Euclidean  *)
(* weight, and CloseRoad/ReopenRoad always switch both together, so a road  *)
(* is an undirected pair of nodes here and `shut` is the set of closed ones.*)
(***************************************************************************)
EXTENDS Iteration, FiniteSets

CONSTANTS Node,    \* intersections
          Road,    \* roads, each a set of two nodes
          Weight   \* Weight[r]: length of road r

ASSUME RoutingAssumption ==
  /\ IsFiniteSet(Node)
  /\ Road \subseteq {{a, b} : a, b \in Node}
  /\ \A n \in Node : {n} \notin Road
  /\ Weight \in [Road -> Nat \ {0}]

\* The road a path uses for its i-th hop.
HopRoad(path, i) == {path[i], path[i+1]}

\* Every path that visits no node twice; a shortest path is one of them.
SimplePath ==
  {p \in UNION {[1..n -> Node] : n \in 1..Cardinality(Node)} :
     /\ \A i, j \in DOMAIN p : p[i] = p[j] => i = j
     /\ \A i \in 1..Len(p)-1 : HopRoad(p, i) \in Road}

\* The paths from one node to another that use no road of shut.
OpenPaths(shut, from, to) ==
  {p \in SimplePath :
     /\ p[1] = from
     /\ p[Len(p)] = to
     /\ \A i \in 1..Len(p)-1 : HopRoad(p, i) \notin shut}

Distance(path) ==
  LET Add(sum, i) == sum + Weight[HopRoad(path, i)]
  IN  Iterate(Add, 0, [i \in 1..Len(path)-1 |-> i])

NoRoute == <<>>

\* FindRoute: a shortest open path; NoRoute when there is none (ok = false).
FindRoute(shut, from, to) ==
  LET open == OpenPaths(shut, from, to)
  IN  IF open = {} THEN NoRoute
      ELSE CHOOSE p \in open : \A q \in open : Distance(p) <= Distance(q)

Reachable(shut, from, to) == OpenPaths(shut, from, to) # {}

=============================================================================
