--------------------------- MODULE MCPlacementRaces ---------------------------
(* A small instance of PlacementRaces for TLC.                               *)
EXTENDS PlacementRaces, TLC

CONSTANTS s1, l1, w1, w2

Requests == AllOps \ {"edit", "toggle"}

Symmetry == Permutations(Workers)
=============================================================================
