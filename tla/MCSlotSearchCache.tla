-------------------------- MODULE MCSlotSearchCache --------------------------
(* Small instances of SlotSearchCache for TLC.                               *)
EXTENDS SlotSearchCache, TLC

CONSTANTS r1, r2, w1, w2

Symmetry == Permutations(Searchers) \cup Permutations(Writers)

\* What Redis holds under a generation that is over and that no search uses
\* is never read again, except 0, which stands for an unreadable generation:
\* such states are not told apart.
Used(k) ==
  \/ k = generation
  \/ MaxOutages > 0 /\ k = 0
  \/ \E r \in Searchers : search[r] # NoSearch /\ search[r].key = k
View == <<db, generation, {e \in cache : Used(e.key)}, {k \in locks : Used(k)},
          up, outages, search, write, writes, done, degraded>>
=============================================================================
