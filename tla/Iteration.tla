------------------------------ MODULE Iteration ------------------------------
(***************************************************************************)
(* The sequential loop of the Go code: `for _, x := range q { acc = ... }`. *)
(* It is a recursive function of the loop counter, not a RECURSIVE          *)
(* operator, so that Iteration_proofs can reason about it.                  *)
(***************************************************************************)
EXTENDS Integers, Sequences

\* The accumulator after the loop body Step has been run, in order, for every
\* element of q, starting from init.
Iterate(Step(_, _), init, q) ==
  LET acc[i \in 0..Len(q)] == IF i = 0 THEN init ELSE Step(acc[i-1], q[i])
  IN  acc[Len(q)]

=============================================================================
