---------------------------- MODULE TokenBucket ----------------------------
(***************************************************************************)
(* The token bucket of core/rate_limit.py and of the FastAPI service's     *)
(* core/rate_limit.py: one Lua script, run by Redis in one step.  Time is  *)
(* counted in ticks; a bucket gains Refill tokens per tick.                *)
(***************************************************************************)
EXTENDS Integers

CONSTANTS Capacity,  \* tokens a full bucket holds
          Refill,    \* tokens a bucket gains per tick
          Ttl        \* ticks after its last use at which Redis drops a bucket

\* consume makes the key live for the time an empty bucket needs to fill, and 5 s more.
ASSUME BucketAssumption == /\ Capacity \in Nat \ {0} /\ Refill \in Nat \ {0} /\ Ttl \in Nat
                           /\ Ttl * Refill >= Capacity

\* A key that is not there reads as a full bucket of this moment.
Full(now) == [tokens |-> Capacity, last |-> now]

Lesser(a, b) == IF a <= b THEN a ELSE b

\* Mutant: the time between two draws is counted from the first one.
RefilledSinceFirst(b, now) ==
  [tokens |-> Lesser(Capacity, b.tokens + Refill * (now - b.last)), last |-> b.last]

Refilled(b, now) ==
  [tokens |-> Lesser(Capacity, b.tokens + Refill * (IF now >= b.last THEN now - b.last ELSE 0)),
   last |-> now]

\* Enough for a draw of cost 1.
Allows(b, now) == Refilled(b, now).tokens >= 1

\* What the script leaves behind, whether it grants the draw or refuses it.
Drawn(b, now) ==
  [Refilled(b, now) EXCEPT !.tokens = IF Allows(b, now) THEN @ - 1 ELSE @]
=============================================================================
