------------------------------ MODULE MCReplay ------------------------------
(***************************************************************************)
(* The block of MCSimulation.  A driver part of the way along its long road *)
(* that is rerouted round the other three sides keeps its progress, so that *)
(* its next tick passes two intersections.                                  *)
(***************************************************************************)
EXTENDS Replay

CONSTANTS n1, n2, n3, n4

MCNode == {n1, n2, n3, n4}
MCRoad == {{n1, n2}, {n2, n3}, {n3, n4}, {n4, n1}}
MCWeight == [r \in MCRoad |-> IF r = {n4, n1} THEN 2 ELSE 1]
MCCoord == [n \in MCNode |-> CASE n = n1 -> <<0, 0>> [] n = n2 -> <<1, 0>>
                               [] n = n3 -> <<1, 1>> [] n = n4 -> <<0, 1>>]
MCHome == SubSeq(<<n1, n3>>, 1, DriverCount)
MCTrip == {<<n4, n1>>}
=============================================================================
