----------------------------- MODULE MCManager -----------------------------
(***************************************************************************)
(* Requests, sessions and runs are interchangeable: the manager compares    *)
(* them and does nothing else with them.                                    *)
(***************************************************************************)
EXTENDS Manager, TLC

MCSymmetry == Permutations(Request) \union Permutations(Session) \union Permutations(Run)
=============================================================================
