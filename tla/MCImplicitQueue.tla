--------------------------- MODULE MCImplicitQueue --------------------------
(* Small instances of ImplicitQueue. *)
EXTENDS ImplicitQueue, TLC

CONSTANTS p1, p2, c1, c2, b1, b2, b3

Symmetry == Permutations(Consumers) \cup Permutations(Pool) \cup Permutations(Blocks \ Pool)
=============================================================================
