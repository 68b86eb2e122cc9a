--------------------------- MODULE SlotSearchCache ---------------------------
(***************************************************************************)
(* The slot listing of the marketplace and its Redis cache.                *)
(*                                                                         *)
(* A listing is cached under the generation that was current when the      *)
(* search began; a lock per key lets one request compute it while others   *)
(* poll.  Handlers that change what a listing shows commit to the database *)
(* and increment the generation (bump_slot_version) from a signal: usually *)
(* after their commit, but inside the transaction of create_application    *)
(* and inside the one that Django opens around a deletion; a handler that  *)
(* writes with QuerySet.update sends no signal.                            *)
(*                                                                         *)
(* The database is a number that counts the commits a listing can show; a  *)
(* listing is the pair of numbers at which its two queries were answered.  *)
(* One filter signature stands for all: they share the generation only.    *)
(***************************************************************************)
EXTENDS Integers, FiniteSets

CONSTANTS
  Searchers,  \* web workers that serve searches
  Writers,    \* web and Celery workers that change slots and applications
  Kinds,      \* the kinds of handlers that run in this instance
  MaxWrites,  \* how many handlers run in all
  MaxOutages  \* how often Redis becomes unreachable

AllKinds == {"save", "apply", "expire", "delete"}

ASSUME SlotSearchAssumption ==
  /\ Kinds \subseteq AllKinds
  /\ MaxWrites \in Nat
  /\ MaxOutages \in Nat

VARIABLES
  db,         \* commits so far that a listing can show
  generation, \* Redis: slot:cache:version
  cache,      \* Redis: the listings under slot:search:v<key>
  locks,      \* Redis: keys whose single-flight lock is held
  up,         \* Redis can be reached
  outages,    \* number of outages so far
  search,     \* what each searcher is doing
  write,      \* what each writer is doing
  writes,     \* number of handlers started
  done,       \* history: db when the last handler ended
  degraded    \* history: a bump or a version was lost in an outage

vars == <<db, generation, cache, locks, up, outages, search, write, writes,
          done, degraded>>

Redis == <<generation, cache, locks, up, outages>>

-----------------------------------------------------------------------------
(* SlotSearchView.get and cache_get_or_set                                 *)

Listing == [key: Nat, slots: Nat, booked: Nat]

SearchSteps == {"idle", "lookup", "lock", "wait", "load", "count", "store",
                "unlock", "answered"}

Search == [pc: SearchSteps, key: Nat, floor: Nat, owner: BOOLEAN,
           slots: Nat, booked: Nat]

NoSearch == [pc |-> "idle", key |-> 0, floor |-> 0, owner |-> FALSE,
             slots |-> 0, booked |-> 0]

Go(r, next) == search' = [search EXCEPT ![r].pc = next]
Searching(r, step) == search[r].pc = step

Hit(r) == {e \in cache : e.key = search[r].key}

\* slot_search_key: the key holds the generation read now, or 0 if Redis
\* cannot be reached.  floor remembers what had been completed by then.
StartSearch(r) ==
  /\ Searching(r, "idle")
  /\ search' = [search EXCEPT ![r] =
       [NoSearch EXCEPT !.pc = "lookup", !.floor = done,
                        !.key = IF up THEN generation ELSE 0]]
  /\ degraded' = (degraded \/ ~up)
  /\ UNCHANGED <<db, Redis, write, writes, done>>

\* cache_get, first and in the polling loop: a hit is the answer.
AnswerFromCache(r) ==
  /\ search[r].pc \in {"lookup", "wait"}
  /\ up
  /\ \E e \in Hit(r) :
       search' = [search EXCEPT ![r].pc = "answered", ![r].slots = e.slots,
                                ![r].booked = e.booked]
  /\ UNCHANGED <<db, Redis, write, writes, done, degraded>>

Miss(r) ==
  /\ Searching(r, "lookup")
  /\ up => Hit(r) = {}
  /\ Go(r, "lock")
  /\ UNCHANGED <<db, Redis, write, writes, done, degraded>>

\* SET NX: who gets the lock computes, everybody else polls.
TryLock(r) ==
  /\ Searching(r, "lock")
  /\ IF up /\ search[r].key \notin locks
     THEN /\ locks' = locks \cup {search[r].key}
          /\ search' = [search EXCEPT ![r].pc = "load", ![r].owner = TRUE]
     ELSE /\ Go(r, "wait")
          /\ UNCHANGED locks
  /\ UNCHANGED <<db, generation, cache, up, outages, write, writes, done,
                 degraded>>

\* Mutant of GiveUp: the polling loop has no deadline.
NeverGiveUp(r) ==
  /\ FALSE
  /\ UNCHANGED vars

\* The polling loop ends after 2.5 s: the waiter computes for itself.
GiveUp(r) ==
  /\ Searching(r, "wait")
  /\ Go(r, "load")
  /\ UNCHANGED <<db, Redis, write, writes, done, degraded>>

\* _load_slot_search: the slots, then the bookings, each as committed by then.
LoadSlots(r) ==
  /\ Searching(r, "load")
  /\ search' = [search EXCEPT ![r].pc = "count", ![r].slots = db]
  /\ UNCHANGED <<db, Redis, write, writes, done, degraded>>

CountBookings(r) ==
  /\ Searching(r, "count")
  /\ search' = [search EXCEPT
       ![r].pc = IF search[r].owner THEN "store" ELSE "answered",
       ![r].booked = db]
  /\ UNCHANGED <<db, Redis, write, writes, done, degraded>>

\* Mutant of StoreListing: the key is built anew when the listing is stored.
StoreUnderNewKey(r) ==
  /\ Searching(r, "store")
  /\ cache' = {e \in cache : e.key # generation}
       \cup {[key |-> generation, slots |-> search[r].slots,
              booked |-> search[r].booked]}
  /\ Go(r, "unlock")
  /\ UNCHANGED <<db, generation, locks, up, outages, write, writes, done,
                 degraded>>

\* cache_set, by the holder of the lock only; it fails open.
StoreListing(r) ==
  /\ Searching(r, "store")
  /\ IF up
     THEN cache' = {e \in cache : e.key # search[r].key}
            \cup {[key |-> search[r].key, slots |-> search[r].slots,
                   booked |-> search[r].booked]}
     ELSE UNCHANGED cache
  /\ Go(r, "unlock")
  /\ UNCHANGED <<db, generation, locks, up, outages, write, writes, done,
                 degraded>>

\* The lock is deleted, whoever holds it by now.
Unlock(r) ==
  /\ Searching(r, "unlock")
  /\ locks' = IF up THEN locks \ {search[r].key} ELSE locks
  /\ Go(r, "answered")
  /\ UNCHANGED <<db, generation, cache, up, outages, write, writes, done,
                 degraded>>

\* A query raises: a holder of the lock releases it, the request fails.
LoadFails(r) ==
  /\ search[r].pc \in {"load", "count"}
  /\ locks' = IF search[r].owner /\ up THEN locks \ {search[r].key} ELSE locks
  /\ search' = [search EXCEPT ![r] = NoSearch]
  /\ UNCHANGED <<db, generation, cache, up, outages, write, writes, done,
                 degraded>>

\* The response is sent, or the worker dies: a lock it holds stays behind.
EndSearch(r) ==
  /\ ~Searching(r, "idle")
  /\ search' = [search EXCEPT ![r] = NoSearch]
  /\ UNCHANGED <<db, Redis, write, writes, done, degraded>>

-----------------------------------------------------------------------------
(* Handlers, as the listing sees them                                      *)

\* left: the saves that follow one another in this handler.
WriteSteps == {"idle", "save", "bump", "reserve", "update", "delete",
               "delete_commit"}
Write == [pc: WriteSteps, left: 0..2]
NoWrite == [pc |-> "idle", left |-> 0]

Writing(w, step) == write[w].pc = step
Then(w, step, left) == write' = [write EXCEPT ![w] = [pc |-> step, left |-> left]]

\* A commit that a listing shows, or one that it does not (of a payment, or
\* of a status that stays what it was).
Commit == db' \in {db, db + 1}

\* bump_slot_version fails open.
BumpSlotVersion ==
  /\ generation' = IF up THEN generation + 1 ELSE generation
  /\ degraded' = (degraded \/ ~up)
  /\ UNCHANGED <<cache, locks, up, outages>>

\* save: a slot, application, payment or company is saved once.
\* apply: create_application saves a new application twice, an expired one
\* once and a pending one never; then the letter and the payment are saved.
\* expire: an update without signals, then a refresh_status task.
\* delete: Slot.delete.
StartWrite(w) ==
  /\ Writing(w, "idle") /\ writes < MaxWrites
  /\ writes' = writes + 1
  /\ \/ "save" \in Kinds /\ Then(w, "save", 1)
     \/ "apply" \in Kinds /\ \E saves \in 0..2 : Then(w, "reserve", saves)
     \/ "expire" \in Kinds /\ Then(w, "update", 0)
     \/ "delete" \in Kinds /\ Then(w, "delete", 0)
  /\ UNCHANGED <<db, Redis, search, done, degraded>>

\* A save inside the transaction of create_application: the signal is sent,
\* and nothing is committed yet.
SaveInTransaction(w) ==
  /\ Writing(w, "reserve") /\ write[w].left > 0
  /\ BumpSlotVersion
  /\ Then(w, "reserve", write[w].left - 1)
  /\ UNCHANGED <<db, search, writes, done>>

CommitTransaction(w) ==
  /\ Writing(w, "reserve") /\ write[w].left = 0
  /\ Commit
  /\ Then(w, "save", 2)
  /\ UNCHANGED <<Redis, search, writes, done, degraded>>

\* Model.save outside a transaction: the UPDATE commits, then the signal.
Save(w) ==
  /\ Writing(w, "save")
  /\ Commit
  /\ Then(w, "bump", write[w].left)
  /\ UNCHANGED <<Redis, search, writes, done, degraded>>

\* Mutant of BumpAfterSave: the receiver of the signal is not connected.
NoBumpAfterSave(w) ==
  /\ Writing(w, "bump")
  /\ IF write[w].left = 1
     THEN Then(w, "idle", 0) /\ done' = db
     ELSE Then(w, "save", write[w].left - 1) /\ UNCHANGED done
  /\ UNCHANGED <<db, Redis, search, writes, degraded>>

BumpAfterSave(w) ==
  /\ Writing(w, "bump")
  /\ BumpSlotVersion
  /\ IF write[w].left = 1
     THEN Then(w, "idle", 0) /\ done' = db
     ELSE Then(w, "save", write[w].left - 1) /\ UNCHANGED done
  /\ UNCHANGED <<db, search, writes>>

\* expire_unpaid: QuerySet.update sends no signal; the queued refresh_status
\* of the slot saves it.
ExpireUpdate(w) ==
  /\ Writing(w, "update")
  /\ Commit
  /\ Then(w, "save", 1)
  /\ UNCHANGED <<Redis, search, writes, done, degraded>>

\* Slot.delete: Django sends post_delete inside its own transaction.
DeleteSlot(w) ==
  /\ Writing(w, "delete")
  /\ BumpSlotVersion
  /\ Then(w, "delete_commit", 0)
  /\ UNCHANGED <<db, search, writes, done>>

CommitDelete(w) ==
  /\ Writing(w, "delete_commit")
  /\ Commit
  /\ done' = db'
  /\ Then(w, "idle", 0)
  /\ UNCHANGED <<Redis, search, writes, degraded>>

-----------------------------------------------------------------------------
(* Redis                                                                   *)

\* A listing lives 20 s and a lock 3 s, however long its holder computes.
ListingExpires ==
  /\ \E e \in cache : cache' = cache \ {e}
  /\ UNCHANGED <<db, generation, locks, up, outages, search, write, writes,
                 done, degraded>>

LockExpires ==
  /\ \E k \in locks : locks' = locks \ {k}
  /\ UNCHANGED <<db, generation, cache, up, outages, search, write, writes,
                 done, degraded>>

Outage ==
  /\ up /\ outages < MaxOutages
  /\ up' = FALSE /\ outages' = outages + 1
  /\ UNCHANGED <<db, generation, cache, locks, search, write, writes, done,
                 degraded>>

Reconnect ==
  /\ ~up
  /\ up' = TRUE
  /\ UNCHANGED <<db, generation, cache, locks, outages, search, write, writes,
                 done, degraded>>

-----------------------------------------------------------------------------

Init ==
  /\ db = 0
  /\ generation = 0
  /\ cache = {}
  /\ locks = {}
  /\ up = TRUE
  /\ outages = 0
  /\ search = [r \in Searchers |-> NoSearch]
  /\ write = [w \in Writers |-> NoWrite]
  /\ writes = 0
  /\ done = 0
  /\ degraded = FALSE

\* A search goes on once it has begun.
Continue(r) ==
  \/ AnswerFromCache(r) \/ Miss(r) \/ TryLock(r) \/ GiveUp(r)
  \/ LoadSlots(r) \/ CountBookings(r) \/ StoreListing(r) \/ Unlock(r)

Handle(w) ==
  \/ StartWrite(w) \/ SaveInTransaction(w) \/ CommitTransaction(w)
  \/ Save(w) \/ BumpAfterSave(w) \/ ExpireUpdate(w)
  \/ DeleteSlot(w) \/ CommitDelete(w)

Next ==
  \/ \E r \in Searchers : 
    StartSearch(r) \/ Continue(r) \/ LoadFails(r) \/ EndSearch(r)
  \/ \E w \in Writers : Handle(w)
  \/ ListingExpires \/ LockExpires \/ Outage \/ Reconnect

Spec == Init /\ [][Next]_vars

\* A worker goes on with the search it serves; nobody is made to start one,
\* and Redis may stay away.
FairSpec == Spec /\ \A r \in Searchers : WF_vars(Continue(r))

-----------------------------------------------------------------------------
(* Properties                                                              *)

\* Redis and the workers hold values of the kinds the code reads and writes.
TypeOK ==
  /\ db \in Nat /\ generation \in Nat /\ done \in Nat
  /\ cache \subseteq Listing
  /\ locks \subseteq Nat
  /\ up \in BOOLEAN /\ degraded \in BOOLEAN
  /\ outages \in 0..MaxOutages
  /\ search \in [Searchers -> Search]
  /\ write \in [Writers -> Write]
  /\ writes \in 0..MaxWrites

\* A search shows every change whose handler had ended when the search began,
\* from the cache or computed, unless a bump or a version was lost.
ShowsCompletedWrites ==
  ~degraded => \A r \in Searchers :
    search[r].pc = "answered"
      => search[r].slots >= search[r].floor /\ search[r].booked >= search[r].floor

\* Stale listings are orphaned: when no handler is under way, what is cached
\* under the current generation is what the database holds.
CurrentListingIsFresh ==
  ~degraded /\ (\A w \in Writers : write[w] = NoWrite) =>
    \A e \in cache : e.key = generation => e.slots = db /\ e.booked = db

\* Nobody waits for ever: a search behind a lock is answered (or its worker is
\* gone), also if the holder died or Redis is away.
WaiterIsAnswered ==
  \A r \in Searchers :
    search[r].pc = "wait" ~> search[r].pc \in {"answered", "idle"}
=============================================================================
