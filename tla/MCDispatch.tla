----------------------------- MODULE MCDispatch -----------------------------
(***************************************************************************)
(* A line of three intersections, its first road twice as long as its       *)
(* second, and two drivers.  Cells are as wide as the short road, so that   *)
(* the drivers are found in different rings.                                *)
(***************************************************************************)
EXTENDS OptimizedDispatch

CONSTANTS n1, n2, n3

MCNode == {n1, n2, n3}
MCRoad == {{n1, n2}, {n2, n3}}
MCWeight == [r \in MCRoad |-> IF r = {n1, n2} THEN 2 ELSE 1]
MCCoord == [n \in MCNode |-> CASE n = n1 -> <<0, 0>> [] n = n2 -> <<2, 0>> [] n = n3 -> <<2, 1>>]
MCHome == <<n1, n3>>
MCTrip == {<<n2, n3>>, <<n3, n1>>}

\* A tick would change nothing: the negation of ENABLED <<TickOptimized>>_dispatchVars.
TickIdle == paused \/ (Aged = age /\ AfterMoves = World
                       /\ \A bonus \in [Driver -> 0..IdleBonus] :
                            DispatchOptimized(World, index, age, bonus) = World)

\* FairDispatch with its weak fairness written out, which TLC evaluates faster.
TickingSpec == DispatchSpec /\ ([]<>TickIdle \/ []<><<Ticked>>_dispatchVars)
=============================================================================
