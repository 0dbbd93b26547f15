----------------------------- MODULE MCCommands -----------------------------
(* HTTPCommands for TLC: visitors, keys and requests are interchangeable. *)
EXTENDS HTTPCommands, TLC

Symmetry ==
  Permutations(Caller) \union Permutations(Key) \union Permutations(Request)

=============================================================================
