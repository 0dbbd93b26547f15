------------------------------ MODULE MCQueue ------------------------------
(***************************************************************************)
(* A triangle of roads and fewer drivers than orders, so that orders queue. *)
(***************************************************************************)
EXTENDS Simulation

CONSTANTS n1, n2, n3

MCNode == {n1, n2, n3}
MCRoad == {{n1, n2}, {n2, n3}, {n1, n3}}
MCWeight == [r \in MCRoad |-> IF r = {n1, n3} THEN 2 ELSE 1]
MCCoord == [n \in MCNode |-> CASE n = n1 -> <<0, 0>> [] n = n2 -> <<1, 0>> [] n = n3 -> <<1, 1>>]
MCHome == SubSeq(<<n1, n3>>, 1, DriverCount)
MCTrip == {<<n2, n3>>, <<n3, n1>>}
MCOneTrip == {<<n2, n3>>}
\* A visitor may pick the same intersection twice: the server does not object.
MCTripInPlace == {<<n1, n1>>}

\* A tick would change nothing: the negation of ENABLED <<Tick>>_vars.
TickIdle == paused \/ RetryPending(AfterMoves) = World

\* FairSpec with its weak fairness written out, which TLC evaluates many times
\* faster than ENABLED.
TickingSpec == Spec /\ ([]<>TickIdle \/ []<><<Tick>>_vars)
=============================================================================
