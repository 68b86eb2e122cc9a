------------------------ MODULE SlotSearchCacheProofs ------------------------
(***************************************************************************)
(* Proofs about SlotSearchCache: its types, and that listings are fresh    *)
(* where every handler bumps the generation after its last commit.         *)
(***************************************************************************)
EXTENDS SlotSearchCache, TLAPS

-----------------------------------------------------------------------------
(* Types                                                                   *)

\* A handler that saves has a save or a bump left.
SavesLeft == \A w \in Writers :
  write[w].pc \in {"save", "bump"} => write[w].left \in {1, 2}

TypeInv == TypeOK /\ SavesLeft

\* Searches write values of their types.
LEMMA SearchTypes ==
  ASSUME TypeInv, NEW r \in Searchers,
         StartSearch(r) \/ Continue(r) \/ LoadFails(r) \/ EndSearch(r)
  PROVE  TypeInv'
<1> USE DEF TypeInv, TypeOK, SavesLeft, Search, SearchSteps, Listing, NoSearch,
            Searching, Go, Hit, Redis
<1>1. CASE StartSearch(r)     BY <1>1 DEF StartSearch
<1>2. CASE AnswerFromCache(r)
  <2>1. PICK e \in Hit(r) :
          search' = [search EXCEPT ![r].pc = "answered", ![r].slots = e.slots,
                                   ![r].booked = e.booked]
    BY <1>2 DEF AnswerFromCache
  <2>2. e.slots \in Nat /\ e.booked \in Nat
    OBVIOUS
  <2> DEFINE answered == [search[r] EXCEPT !.pc = "answered",
                            !.slots = e.slots, !.booked = e.booked]
  <2>3. answered \in Search
    BY <2>2
  <2>4. search' = [search EXCEPT ![r] = answered]
    BY <2>1
  <2>5. search' \in [Searchers -> Search]
    BY <2>3, <2>4
  <2> QED BY <2>5, <1>2 DEF AnswerFromCache
<1>3. CASE Miss(r)            BY <1>3 DEF Miss
<1>4. CASE TryLock(r)         BY <1>4 DEF TryLock
<1>5. CASE GiveUp(r)          BY <1>5 DEF GiveUp
<1>6. CASE LoadSlots(r)       BY <1>6 DEF LoadSlots
<1>7. CASE CountBookings(r)
  <2> DEFINE next == IF search[r].owner THEN "store" ELSE "answered"
             counted == [search[r] EXCEPT !.pc = next, !.booked = db]
  <2>1. next \in SearchSteps
    OBVIOUS
  <2>2. counted \in Search
    <3> HIDE DEF next
    <3> QED BY <2>1
  <2>3. search' = [search EXCEPT ![r] = counted]
    BY <1>7 DEF CountBookings
  <2>4. search' \in [Searchers -> Search]
    BY <2>2, <2>3
  <2> QED BY <2>4, <1>7 DEF CountBookings
<1>8. CASE StoreListing(r)    BY <1>8 DEF StoreListing
<1>9. CASE Unlock(r)          BY <1>9 DEF Unlock
<1>10. CASE LoadFails(r)      BY <1>10 DEF LoadFails
<1>11. CASE EndSearch(r)      BY <1>11 DEF EndSearch
<1> QED
  BY <1>1, <1>2, <1>3, <1>4, <1>5, <1>6, <1>7, <1>8, <1>9, <1>10, <1>11
  DEF Continue

\* Handlers write values of their types.
LEMMA HandlerTypes ==
  ASSUME TypeInv, NEW w \in Writers, Handle(w)
  PROVE  TypeInv'
<1> USE SlotSearchAssumption
    DEF TypeInv, TypeOK, SavesLeft, Write, WriteSteps, Writing, Then, Commit,
        BumpSlotVersion, Redis
<1>1. CASE StartWrite(w)        BY <1>1 DEF StartWrite
<1>2. CASE SaveInTransaction(w) BY <1>2 DEF SaveInTransaction
<1>3. CASE CommitTransaction(w) BY <1>3 DEF CommitTransaction
<1>4. CASE Save(w)              BY <1>4 DEF Save
<1>5. CASE BumpAfterSave(w)     BY <1>5 DEF BumpAfterSave
<1>6. CASE ExpireUpdate(w)      BY <1>6 DEF ExpireUpdate
<1>7. CASE DeleteSlot(w)        BY <1>7 DEF DeleteSlot
<1>8. CASE CommitDelete(w)      BY <1>8 DEF CommitDelete
<1> QED BY <1>1, <1>2, <1>3, <1>4, <1>5, <1>6, <1>7, <1>8 DEF Handle

LEMMA TypeInit == Init => TypeInv
<1> SUFFICES ASSUME Init PROVE TypeInv
  OBVIOUS
<1>1. NoSearch \in Search /\ NoWrite \in Write
  BY DEF NoSearch, Search, SearchSteps, NoWrite, Write, WriteSteps
<1>2. search \in [Searchers -> Search] /\ write \in [Writers -> Write]
  BY <1>1 DEF Init
<1>3. 0 \in 0..MaxOutages /\ 0 \in 0..MaxWrites
  BY SlotSearchAssumption
<1>4. SavesLeft
  BY DEF Init, SavesLeft, NoWrite
<1> QED BY <1>2, <1>3, <1>4 DEF Init, TypeInv, TypeOK

LEMMA TypeStep == TypeInv /\ [Next]_vars => TypeInv'
<1> SUFFICES ASSUME TypeInv, [Next]_vars PROVE TypeInv'
  OBVIOUS
<1>1. ASSUME NEW r \in Searchers,
             StartSearch(r) \/ Continue(r) \/ LoadFails(r) \/ EndSearch(r)
      PROVE  TypeInv'
  BY <1>1, SearchTypes
<1>2. ASSUME NEW w \in Writers, Handle(w) PROVE TypeInv'
  BY <1>2, HandlerTypes
<1>3. CASE ListingExpires \/ LockExpires
  BY <1>3 DEF ListingExpires, LockExpires, TypeInv, TypeOK, SavesLeft
<1>4. CASE Outage \/ Reconnect
  <2>1. outages' \in 0..MaxOutages
    BY <1>4, SlotSearchAssumption DEF Outage, Reconnect, TypeInv, TypeOK
  <2> QED BY <2>1, <1>4 DEF Outage, Reconnect, TypeInv, TypeOK, SavesLeft
<1>5. CASE UNCHANGED vars
  BY <1>5 DEF vars, Redis, TypeInv, TypeOK, SavesLeft
<1> QED BY <1>1, <1>2, <1>3, <1>4, <1>5 DEF Next

\* Redis, searches and handlers always hold values of the kinds the code reads
\* and writes (cache.py, slots/views.py).
THEOREM CacheTypeCorrect == Spec => []TypeOK
<1>1. TypeInv => TypeOK BY DEF TypeInv
<1> QED BY <1>1, TypeInit, TypeStep, PTL DEF Spec

-----------------------------------------------------------------------------
(* Freshness                                                               *)

\* The handlers whose last step is a bump.
BumpingKinds == {"save", "apply", "expire"}

\* Such handlers are under way; when none is, everything is completed.
HandlersBump ==
  /\ done <= db
  /\ \A w \in Writers : write[w].pc \notin {"delete", "delete_commit"}
  /\ (\A w \in Writers : write[w].pc = "idle") => done = db

\* v may be shown under key k: it is not older than what had been completed
\* when the generation, or a search that uses it, became k.
Sound(k, v) ==
  /\ v <= db
  /\ k <= generation
  /\ k = generation => done <= v
  /\ \A r \in Searchers :
       search[r].pc # "idle" /\ search[r].key = k => search[r].floor <= v

SoundCache == \A e \in cache : Sound(e.key, e.slots) /\ Sound(e.key, e.booked)

SoundSearch(r) ==
  /\ search[r].key <= generation
  /\ search[r].floor <= done
  /\ search[r].pc \in {"count", "store", "unlock", "answered"}
       => Sound(search[r].key, search[r].slots)
  /\ search[r].pc \in {"store", "unlock", "answered"}
       => Sound(search[r].key, search[r].booked)

FreshInv ==
  /\ HandlersBump
  /\ ~degraded => SoundCache /\ \A r \in Searchers : SoundSearch(r)

\* What is sound stays sound when commits are added, when the generation grows,
\* and when a search begins under the current generation.
LEMMA SoundKept ==
  ASSUME TypeInv, TypeInv', db <= db',
         \/ generation' = generation /\ done' = done
         \/ generation' = generation + 1
              /\ \A r \in Searchers : search'[r] = search[r],
         \A r \in Searchers : search'[r].pc # "idle" =>
           \/ /\ search[r].pc # "idle"
              /\ search'[r].key = search[r].key
              /\ search'[r].floor = search[r].floor
           \/ search'[r].key = generation /\ search'[r].floor = done,
         NEW k \in Nat, NEW v \in Nat, Sound(k, v)
  PROVE  Sound(k, v)'
BY DEF Sound, TypeInv, TypeOK, Search
LEMMA FreshInit == Init => FreshInv
BY DEF Init, FreshInv, HandlersBump, SoundCache, SoundSearch, NoSearch, NoWrite

\* A step of search r: it keeps its key and floor or begins under the current
\* generation, and what is cached or loaded after it is sound before it.
SearchSound(r) ==
  /\ UNCHANGED <<db, generation, write, done>>
  /\ degraded => degraded'
  /\ \A s \in Searchers \ {r} : search'[s] = search[s]
  /\ ~degraded' =>
       /\ \A e \in cache' : Sound(e.key, e.slots) /\ Sound(e.key, e.booked)
       /\ search'[r].pc # "idle" =>
            \/ /\ search[r].pc # "idle"
               /\ search'[r].key = search[r].key
               /\ search'[r].floor = search[r].floor
            \/ search'[r].key = generation /\ search'[r].floor = done
       /\ search'[r].key <= generation
       /\ search'[r].floor <= done
       /\ search'[r].pc \in {"count", "store", "unlock", "answered"}
            => Sound(search'[r].key, search'[r].slots)
       /\ search'[r].pc \in {"store", "unlock", "answered"}
            => Sound(search'[r].key, search'[r].booked)

LEMMA SearchKeeps ==
  ASSUME TypeInv, TypeInv', FreshInv, NEW r \in Searchers, SearchSound(r)
  PROVE  FreshInv'
<1> USE DEF SearchSound
<1>1. HandlersBump'
  BY DEF HandlersBump, FreshInv
<1> SUFFICES ASSUME ~degraded'
             PROVE  SoundCache' /\ \A s \in Searchers : SoundSearch(s)'
  BY <1>1 DEF FreshInv
<1>2. ASSUME NEW k \in Nat, NEW v \in Nat, Sound(k, v) PROVE Sound(k, v)'
  BY <1>2, SoundKept DEF TypeInv, TypeOK
<1>3. SoundCache'
  <2> SUFFICES ASSUME NEW e \in cache'
               PROVE  Sound(e.key, e.slots)' /\ Sound(e.key, e.booked)'
    BY DEF SoundCache
  <2>1. e.key \in Nat /\ e.slots \in Nat /\ e.booked \in Nat
    BY DEF TypeInv, TypeOK, Listing
  <2>2. Sound(e.key, e.slots) /\ Sound(e.key, e.booked)
    BY DEF FreshInv, SoundCache
  <2> QED BY <2>1, <2>2, <1>2
<1>4. ASSUME NEW s \in Searchers PROVE SoundSearch(s)'
  <2>1. /\ search'[s].key \in Nat
        /\ search'[s].slots \in Nat
        /\ search'[s].booked \in Nat
    BY DEF TypeInv, TypeOK, Search
  <2>2. /\ search'[s].key <= generation
        /\ search'[s].floor <= done
        /\ search'[s].pc \in {"count", "store", "unlock", "answered"}
              => Sound(search'[s].key, search'[s].slots)
        /\ search'[s].pc \in {"store", "unlock", "answered"}
              => Sound(search'[s].key, search'[s].booked)
    BY DEF FreshInv, SoundSearch
  <2> QED BY <2>1, <2>2, <1>2 DEF SoundSearch
<1> QED BY <1>3, <1>4

\* Every step of a search keeps what is cached and loaded sound.
LEMMA SearchFresh ==
  ASSUME TypeInv, TypeInv', FreshInv, NEW r \in Searchers,
         StartSearch(r) \/ Continue(r) \/ LoadFails(r) \/ EndSearch(r)
  PROVE  FreshInv'
<1> SUFFICES SearchSound(r)
  BY SearchKeeps
<1>a. search \in [Searchers -> Search] /\ search[r] \in Search
  BY DEF TypeInv, TypeOK
<1>b. ~degraded => SoundCache /\ SoundSearch(r)
  BY DEF FreshInv
<1>1. CASE StartSearch(r)
  <2>1. search'[r] = [NoSearch EXCEPT !.pc = "lookup", !.floor = done,
                        !.key = IF up THEN generation ELSE 0]
    BY <1>1, <1>a DEF StartSearch
  <2>2. /\ search'[r].pc = "lookup"
        /\ search'[r].floor = done
        /\ up => search'[r].key = generation
    BY <2>1 DEF NoSearch
  <2>3. generation \in Nat /\ done \in Nat
    BY DEF TypeInv, TypeOK
  <2>4. UNCHANGED <<db, generation, cache, write, done>>
    BY <1>1 DEF StartSearch, Redis
  <2>5. (degraded => degraded') /\ (~degraded' => up)
    BY <1>1 DEF StartSearch, TypeInv, TypeOK
  <2>6. \A s \in Searchers \ {r} : search'[s] = search[s]
    BY <1>1, <1>a DEF StartSearch
  <2> QED
    BY <2>2, <2>3, <2>4, <2>5, <2>6, <1>b DEF SearchSound, SoundCache
<1>2. CASE AnswerFromCache(r)
  <2>1. PICK e \in Hit(r) :
          search' = [search EXCEPT ![r].pc = "answered", ![r].slots = e.slots,
                                   ![r].booked = e.booked]
    BY <1>2 DEF AnswerFromCache
  <2>2. ~degraded => /\ Sound(search[r].key, e.slots)
                     /\ Sound(search[r].key, e.booked)
    BY <1>b DEF Hit, SoundCache
  <2>3. search'[r] = [search[r] EXCEPT !.pc = "answered", !.slots = e.slots,
                                       !.booked = e.booked]
    BY <2>1, <1>a
  <2>4. /\ search'[r].key = search[r].key
        /\ search'[r].floor = search[r].floor
        /\ search'[r].slots = e.slots
        /\ search'[r].booked = e.booked
    BY <2>3, <1>a DEF Search
  <2>5. \A s \in Searchers \ {r} : search'[s] = search[s]
    BY <2>1, <1>a
  <2>6. /\ UNCHANGED <<db, generation, cache, write, done, degraded>>
        /\ search[r].pc # "idle"
    BY <1>2 DEF AnswerFromCache, Redis
  <2> QED
    BY <2>2, <2>4, <2>5, <2>6, <1>b DEF SearchSound, SoundCache, SoundSearch
<1>3. CASE Miss(r) \/ TryLock(r) \/ GiveUp(r)
  <2>1. /\ search'[r].pc \in {"lock", "load", "wait"}
        /\ search'[r].key = search[r].key
        /\ search'[r].floor = search[r].floor
    BY <1>3, <1>a DEF Miss, TryLock, GiveUp, Go, Search
  <2>2. \A s \in Searchers \ {r} : search'[s] = search[s]
    BY <1>3, <1>a DEF Miss, TryLock, GiveUp, Go
  <2>3. /\ UNCHANGED <<db, generation, cache, write, done, degraded>>
        /\ search[r].pc # "idle"
    BY <1>3 DEF Miss, TryLock, GiveUp, Searching, Redis
  <2> QED BY <2>1, <2>2, <2>3, <1>b DEF SearchSound, SoundCache, SoundSearch
<1>4. CASE LoadSlots(r) \/ CountBookings(r)
  <2>1. ~degraded => Sound(search[r].key, db)
    BY <1>a DEF FreshInv, HandlersBump, SoundSearch, Sound, TypeInv, TypeOK,
       Search
  <2>2. /\ search'[r].key = search[r].key
        /\ search'[r].floor = search[r].floor
        /\ LoadSlots(r) => search'[r].pc = "count" /\ search'[r].slots = db
        /\ CountBookings(r) => /\ search'[r].slots = search[r].slots
                               /\ search'[r].booked = db
    BY <1>4, <1>a DEF LoadSlots, CountBookings, Search
  <2>3. \A s \in Searchers \ {r} : search'[s] = search[s]
    BY <1>4, <1>a DEF LoadSlots, CountBookings
  <2>4. /\ UNCHANGED <<db, generation, cache, write, done, degraded>>
        /\ search[r].pc # "idle"
        /\ CountBookings(r) => search[r].pc = "count"
    BY <1>4 DEF LoadSlots, CountBookings, Searching, Redis
  <2> QED
    BY <1>4, <2>1, <2>2, <2>3, <2>4, <1>b
    DEF SearchSound, SoundCache, SoundSearch
<1>5. CASE StoreListing(r)
  <2>1. ~degraded => /\ Sound(search[r].key, search[r].slots)
                     /\ Sound(search[r].key, search[r].booked)
    BY <1>5, <1>b DEF StoreListing, Searching, SoundSearch
  <2>2. ~degraded => \A e \in cache' :
           Sound(e.key, e.slots) /\ Sound(e.key, e.booked)
    BY <1>5, <2>1, <1>b DEF StoreListing, SoundCache
  <2> QED
    BY <1>5, <2>1, <2>2, <1>a, <1>b
    DEF StoreListing, Searching, Go, SearchSound, SoundSearch
<1>6. CASE Unlock(r)
  BY <1>6, <1>a, <1>b
  DEF Unlock, Searching, Go, SearchSound, SoundCache, SoundSearch
<1>7. CASE LoadFails(r) \/ EndSearch(r)
  BY <1>7, <1>a, <1>b
  DEF LoadFails, EndSearch, NoSearch, Redis, SearchSound, SoundCache, TypeInv,
      TypeOK
<1> QED BY <1>1, <1>2, <1>3, <1>4, <1>5, <1>6, <1>7 DEF Continue

\* Every step of a handler keeps it: a commit makes db grow, a bump starts a
\* generation under which nothing is cached or loaded yet.
LEMMA HandlerFresh ==
  ASSUME Kinds \subseteq BumpingKinds, TypeInv, TypeInv', FreshInv,
         NEW w \in Writers, Handle(w)
  PROVE  FreshInv'
<1>1. /\ write \in [Writers -> Write]
      /\ db \in Nat /\ done \in Nat /\ generation \in Nat
      /\ up \in BOOLEAN /\ degraded \in BOOLEAN
  BY DEF TypeInv, TypeOK
<1>2. write[w].pc \notin {"delete", "delete_commit"}
  BY DEF FreshInv, HandlersBump
<1>3. /\ UNCHANGED <<cache, search>>
      /\ db' \in {db, db + 1}
      /\ degraded => degraded'
  BY <1>1, <1>2
  DEF Handle, StartWrite, SaveInTransaction, CommitTransaction, Save,
      BumpAfterSave, ExpireUpdate, DeleteSlot, CommitDelete,
      Writing, Commit, BumpSlotVersion, Redis
<1>4. \/ generation' = generation /\ done' = done
      \/ generation' = generation + 1 /\ done' \in {done, db'}
      \/ degraded'
  BY <1>1, <1>2
  DEF Handle, StartWrite, SaveInTransaction, CommitTransaction, Save,
      BumpAfterSave, ExpireUpdate, DeleteSlot, CommitDelete,
      Writing, Commit, BumpSlotVersion, Redis
<1>5. HandlersBump'
  <2>1. /\ db' \in {db, db + 1} /\ done' \in {done, db'}
        /\ write' = [write EXCEPT ![w] = write'[w]]
        /\ write'[w].pc \notin {"delete", "delete_commit"}
        /\ write'[w].pc = "idle" => done' = db'
    BY <1>1, <1>2
    DEF Handle, StartWrite, SaveInTransaction, CommitTransaction, Save,
        BumpAfterSave, ExpireUpdate, DeleteSlot, CommitDelete,
        Writing, Then, Commit, BumpSlotVersion, Redis,
        BumpingKinds
  <2> QED BY <2>1, <1>1 DEF FreshInv, HandlersBump
<1> SUFFICES ASSUME ~degraded'
             PROVE  SoundCache' /\ \A r \in Searchers : SoundSearch(r)'
  BY <1>5 DEF FreshInv
<1>6. ASSUME NEW k \in Nat, NEW v \in Nat, Sound(k, v) PROVE Sound(k, v)'
  BY <1>1, <1>3, <1>4, <1>6, SoundKept
<1>7. SoundCache'
  BY <1>3, <1>6 DEF FreshInv, SoundCache, TypeInv, TypeOK, Listing
<1>8. ASSUME NEW r \in Searchers PROVE SoundSearch(r)'
  <2>1. search[r] \in Search /\ SoundSearch(r)
    BY <1>3 DEF FreshInv, TypeInv, TypeOK
  <2>2. search'[r].key <= generation' /\ search'[r].floor <= done'
    BY <2>1, <1>1, <1>3, <1>4 DEF SoundSearch, Search, FreshInv, HandlersBump
  <2> QED BY <2>1, <2>2, <1>3, <1>6 DEF SoundSearch, Search
<1> QED BY <1>7, <1>8

\* Redis forgetting a listing or a lock, going away or coming back.
LEMMA RedisFresh ==
  ASSUME TypeInv, FreshInv,
         \/ ListingExpires \/ LockExpires \/ Outage \/ Reconnect
         \/ UNCHANGED vars
  PROVE  FreshInv'
<1>1. /\ UNCHANGED <<db, generation, search, write, done, degraded>>
      /\ cache' \subseteq cache
  BY DEF ListingExpires, LockExpires, Outage, Reconnect, vars, Redis
<1> QED
  BY <1>1 DEF FreshInv, HandlersBump, SoundCache, SoundSearch, Sound

LEMMA FreshStep ==
  ASSUME Kinds \subseteq BumpingKinds
  PROVE  TypeInv /\ TypeInv' /\ FreshInv /\ [Next]_vars => FreshInv'
<1> SUFFICES ASSUME TypeInv, TypeInv', FreshInv, [Next]_vars PROVE FreshInv'
  OBVIOUS
<1>1. ASSUME NEW r \in Searchers,
             StartSearch(r) \/ Continue(r) \/ LoadFails(r) \/ EndSearch(r)
      PROVE  FreshInv'
  BY <1>1, SearchFresh
<1>2. ASSUME NEW w \in Writers, Handle(w) PROVE FreshInv'
  BY <1>2, HandlerFresh
<1>3. CASE \/ ListingExpires \/ LockExpires \/ Outage \/ Reconnect
           \/ UNCHANGED vars
  BY <1>3, RedisFresh
<1> QED BY <1>1, <1>2, <1>3 DEF Next

\* Unless Redis loses a bump, a search shows every change whose handler had
\* ended when it began (cache_get_or_set under slot_search_key), for every
\* number of searches and of handlers that bump after their last commit.
THEOREM SearchesShowCompletedWrites ==
  ASSUME Kinds \subseteq BumpingKinds
  PROVE  Spec => []ShowsCompletedWrites
<1>1. TypeInv /\ FreshInv => ShowsCompletedWrites
  BY DEF TypeInv, TypeOK, Search, FreshInv, SoundSearch, Sound,
     ShowsCompletedWrites
<1>2. TypeInv /\ TypeInv' /\ FreshInv /\ [Next]_vars => FreshInv'
  BY FreshStep
<1> QED BY <1>1, <1>2, FreshInit, TypeInit, TypeStep, PTL DEF Spec

\* When such handlers have all ended, what is cached under the current
\* generation is what the database holds: stale listings are orphaned.
THEOREM CurrentGenerationIsFresh ==
  ASSUME Kinds \subseteq BumpingKinds
  PROVE  Spec => []CurrentListingIsFresh
<1>1. TypeInv /\ FreshInv => CurrentListingIsFresh
  BY DEF TypeInv, TypeOK, Listing, FreshInv, HandlersBump, SoundCache, Sound,
     CurrentListingIsFresh, NoWrite
<1>2. TypeInv /\ TypeInv' /\ FreshInv /\ [Next]_vars => FreshInv'
  BY FreshStep
<1> QED BY <1>1, <1>2, FreshInit, TypeInit, TypeStep, PTL DEF Spec
=============================================================================
