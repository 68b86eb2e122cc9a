----------------------------- MODULE MCPlacement -----------------------------
(* Small instances of Placement for TLC: which requests arrive, and when     *)
(* students, slots and workers are interchangeable.                          *)
EXTENDS Placement, TLC

CONSTANTS s1, s2, l1, l2, w1, w2

SerialRequests == AllOps \ {"edit"}
SeatRequests == {"apply", "expire", "edit"}

Symmetry == Permutations(Students) \cup Permutations(Slots)
              \cup Permutations(Workers)
=============================================================================
