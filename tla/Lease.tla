------------------------------- MODULE Lease -------------------------------
(***************************************************************************)
(* What a mutex with a time to live promises, whatever it is built from:   *)
(* a free key is granted to one client at a time, a lease ends when its    *)
(* own client leaves or when its time is over, and never because somebody  *)
(* else leaves.  It does not promise mutual exclusion: a client may still  *)
(* be inside when its lease has run out.                                   *)
(***************************************************************************)
CONSTANTS Key,      \* what is locked
          Client,   \* who locks
          None      \* neither a key nor a client

VARIABLES holder,   \* holder[k] is the client whose lease of k is alive
          inside    \* inside[c] is the key c was granted and has not left

lvars == <<holder, inside>>

Init == /\ holder = [k \in Key |-> None]
        /\ inside = [c \in Client |-> None]

Grant(c, k) == /\ holder[k] = None
               /\ inside[c] = None
               /\ holder' = [holder EXCEPT ![k] = c]
               /\ inside' = [inside EXCEPT ![c] = k]

\* A grant whose answer is lost: the lease runs, and nobody is inside.
Strand(c, k) == /\ holder[k] = None
                /\ holder' = [holder EXCEPT ![k] = c]
                /\ UNCHANGED inside

Expire(k) == /\ holder' = [holder EXCEPT ![k] = None]
             /\ UNCHANGED inside

Leave(c, k) == /\ inside[c] = k
               /\ inside' = [inside EXCEPT ![c] = None]
               /\ holder' = [holder EXCEPT ![k] = IF @ = c THEN None ELSE @]

\* A client that is killed, or cannot give its lease back, leaves it to expire.
Die(c) == /\ inside' = [inside EXCEPT ![c] = None]
          /\ UNCHANGED holder

Next == \/ \E c \in Client, k \in Key : Grant(c, k) \/ Strand(c, k) \/ Leave(c, k)
        \/ \E k \in Key : Expire(k)
        \/ \E c \in Client : Die(c)

Spec == Init /\ [][Next]_lvars
=============================================================================
