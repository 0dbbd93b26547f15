---------------------------- MODULE MCSimulation ----------------------------
(***************************************************************************)
(* A city of four intersections around one block, small enough to explore   *)
(* completely and rich enough to have a detour for every road, roads of     *)
(* different length (as generated cities do, 70 to 133 units at 25 per      *)
(* tick), and a pair of closures that cuts a node off.                      *)
(***************************************************************************)
EXTENDS Simulation

CONSTANTS n1, n2, n3, n4

MCNode == {n1, n2, n3, n4}
MCRoad == {{n1, n2}, {n2, n3}, {n3, n4}, {n4, n1}}
MCWeight == [r \in MCRoad |-> IF r = {n4, n1} THEN 2 ELSE 1]
MCHome == <<n1, n3>>
MCTrip == {<<n2, n4>>, <<n3, n1>>}
MCCoord == [n \in MCNode |-> CASE n = n1 -> <<0, 0>> [] n = n2 -> <<1, 0>>
                               [] n = n3 -> <<1, 1>> [] n = n4 -> <<0, 1>>]
=============================================================================
