------------------------------ MODULE MCBrowser ------------------------------
(* Two regions with a district and a ward each, and in the first one three    *)
(* slots.  The newest opens while the page is open, or another closes.         *)
EXTENDS Browser

CONSTANTS r1, r2, d1, d2, w1, w2, word

MCRegionOf == [d \in {d1, d2} |-> IF d = d1 THEN r1 ELSE r2]
MCDistrictOf == [w \in {w1, w2} |-> IF w = w1 THEN d1 ELSE d2]
\* A word does not find the second slot, the second region finds none.
MCFinds == [f \in [region: {r1, r2, None}, district: {d1, d2, None}, word: {word, None}] |->
  IF f.region = r2 THEN {} ELSE IF f.word = word THEN {1, 3} ELSE {1, 2, 3}]

MCInit == Init /\ (open = "market" => listing = {1, 2})

MCSpec == MCInit /\ [][Next]_vars /\ Fairness
=============================================================================
