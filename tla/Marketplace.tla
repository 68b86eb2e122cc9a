----------------------------- MODULE Marketplace -----------------------------
(***************************************************************************)
(* The list of slots of the marketplace page (static/js/marketplace.js)    *)
(* and the pages the search view cuts for it.  Each change of a filter     *)
(* loads the first page again, "Load more" appends the next one; replies   *)
(* arrive in any order, and nothing is done to tell a late one.  A page is *)
(* cut by its number from the listing of the moment, in which slots open   *)
(* and close between two requests.                                         *)
(***************************************************************************)
EXTENDS Naturals, Sequences, FiniteSets

CONSTANTS Region, District, RegionOf,
          Word,       \* what the other filters can say
          Slot,       \* numbered as they are created; the newest is listed first
          Finds,      \* Finds[f]: the slots that match f
          PageSize,   \* ten in the code
          MaxLoads,   \* bound: what the user does that loads a page
          MaxChanges, \* bound: changes of the listing
          None

Filter == [region: Region \cup {None}, district: District \cup {None},
           word: Word \cup {None}]

Enabled == 0

\* Assumed where the module is instantiated.
MarketplaceAssumption == /\ IsFiniteSet(Slot) /\ Slot \subseteq Nat
                         /\ Finds \in [Filter -> SUBSET Slot]
                         /\ PageSize \in Nat \ {0} /\ MaxChanges \in Nat
                         /\ MaxLoads \in Nat \ {0}
                         /\ None \notin {Enabled} \cup Region \cup District \cup Word

VARIABLES
  listing,  \* the slots that are open, of companies that are approved
  changes,  \* how often it has changed
  filter,   \* what the inputs say
  places,   \* the options of the district select, None while it is disabled
  typing,   \* the debounce timer of the department input is running
  page,     \* page and hasMore of the last reply
  hasMore,
  list,     \* what the results element shows, in order: pages and texts
  button,   \* "Load more": None, Enabled, or the request it waits for
  asked,    \* requests without a reply
  loads,    \* requests sent so far
  crossed,  \* history: since the list was loaded anew something was asked or
            \* typed while a reply was on its way
  opened,   \* history: slots that opened, and that closed, since a first page
  closed    \* was cut

server == <<listing, changes, opened, closed>>
script == <<filter, places, typing, page, hasMore, list, button, asked, loads, crossed>>
marketVars == <<server, script>>

\* What a reply adds to the list.
PageOf(f, p, rows) == [filter |-> f, page |-> p, rows |-> rows]

Text(t) == [text |-> t]
Texts == {Text("loading"), Text("error")}

\* SlotSearchView: the rows of page p among the slots that f finds now, and
\* whether there are more.
Found(f) == listing \cap Finds[f]
Position(s, found) == Cardinality({u \in found : u >= s})
Results(f, p) == {s \in Found(f) : /\ Position(s, Found(f)) > (p - 1) * PageSize
                                   /\ Position(s, Found(f)) <= p * PageSize}
More(f, p) == p * PageSize < Cardinality(Found(f))

\* fetchPage with the filters of now, beside other requests.
FetchPage(p, append, others) ==
  /\ loads < MaxLoads
  /\ loads' = loads + 1
  /\ asked' = asked \cup others \cup
       {[kind |-> "page", id |-> loads', filter |-> filter', page |-> p, append |-> append,
         answer |-> None]}
  /\ list' = IF append THEN list ELSE <<Text("loading")>>
  /\ crossed' = (asked # {} \/ typing' \/ (append /\ crossed))
  /\ UNCHANGED server

\* The page opens with no filter and loads its first page.
Init == /\ listing \in SUBSET Slot
        /\ changes = 0
        /\ opened = {} /\ closed = {}
        /\ filter = [region |-> None, district |-> None, word |-> None]
        /\ places = {}
        /\ typing = FALSE
        /\ page = 1
        /\ hasMore = FALSE
        /\ list = <<Text("loading")>>
        /\ button = None
        /\ asked = {[kind |-> "page", id |-> 1, filter |-> filter, page |-> 1,
                     append |-> FALSE, answer |-> None]}
        /\ loads = 1
        /\ crossed = FALSE

\* A company publishes a slot or closes it, or an administrator's decision about
\* the company does.
SlotOpens(s) == /\ changes < MaxChanges /\ s \notin listing
                /\ changes' = changes + 1
                /\ listing' = listing \cup {s}
                /\ opened' = opened \cup {s}
                /\ UNCHANGED <<closed, script>>

SlotCloses(s) == /\ changes < MaxChanges /\ s \in listing
                 /\ changes' = changes + 1
                 /\ listing' = listing \ {s}
                 /\ closed' = closed \cup {s}
                 /\ UNCHANGED <<opened, script>>

\* A region empties the district select and asks for its districts.
ChangeRegion(r) ==
  /\ r # filter.region
  /\ filter' = [filter EXCEPT !.region = r, !.district = None]
  /\ places' = IF r = None THEN {} ELSE None
  /\ UNCHANGED <<typing, page, hasMore, button>>
  /\ FetchPage(1, FALSE, IF r = None THEN {} ELSE
                         {[kind |-> "places", id |-> loads + 1, region |-> r]})

ChangeDistrict(d) == /\ places # None /\ d \in places \cup {None}
                     /\ d # filter.district
                     /\ filter' = [filter EXCEPT !.district = d]
                     /\ UNCHANGED <<places, typing, page, hasMore, button>>
                     /\ FetchPage(1, FALSE, {})

\* Input in the department field: the load follows 350 ms after the last key.
Type(w) == /\ w # filter.word
           /\ loads < MaxLoads
           /\ filter' = [filter EXCEPT !.word = w]
           /\ typing' = TRUE
           /\ crossed' = (crossed \/ asked # {})
           /\ UNCHANGED <<server, places, page, hasMore, list, button, asked, loads>>

DebounceEnds == /\ typing
                /\ typing' = FALSE
                /\ UNCHANGED <<filter, places, page, hasMore, button>>
                /\ FetchPage(1, FALSE, {})

\* Mutant: the last page is asked for again.
LoadMoreOfSame == /\ button = Enabled
                  /\ button' = loads + 1
                  /\ UNCHANGED <<filter, places, typing, page, hasMore>>
                  /\ FetchPage(page, TRUE, {})

LoadMore == /\ button = Enabled
            /\ button' = loads + 1
            /\ UNCHANGED <<filter, places, typing, page, hasMore>>
            /\ FetchPage(page + 1, TRUE, {})

\* The search cuts the page from the listing of this moment.
Search(q) ==
  /\ q \in asked /\ q.kind = "page" /\ q.answer = None
  /\ asked' = (asked \ {q}) \cup
       {[q EXCEPT !.answer = [rows |-> Results(q.filter, q.page),
                              more |-> More(q.filter, q.page)]]}
  /\ opened' = IF q.append THEN opened ELSE {}
  /\ closed' = IF q.append THEN closed ELSE {}
  /\ UNCHANGED <<listing, changes, filter, places, typing, page, hasMore, list, button, loads,
                 crossed>>

\* render and renderLoadMore, which makes a new button.
PageArrives(q) ==
  /\ q \in asked /\ q.kind = "page" /\ q.answer # None
  /\ asked' = asked \ {q}
  /\ page' = q.page
  /\ hasMore' = q.answer.more
  /\ list' = Append(IF q.append THEN list ELSE <<>>, PageOf(q.filter, q.page, q.answer.rows))
  /\ button' = IF hasMore' THEN Enabled ELSE None
  /\ UNCHANGED <<server, filter, places, typing, loads, crossed>>

\* A page to append that fails enables its button again, if it is still there.
PageFails(q) == /\ q \in asked /\ q.kind = "page"
                /\ asked' = asked \ {q}
                /\ list' = IF q.append THEN list ELSE <<Text("error")>>
                /\ button' = IF button = q.id THEN Enabled ELSE button
                /\ UNCHANGED <<server, filter, places, typing, page, hasMore, loads, crossed>>

\* The options are put in place anew, with none of them chosen.
PlacesArrive(q) ==
  /\ q \in asked /\ q.kind = "places"
  /\ asked' = asked \ {q}
  /\ places' = {d \in District : RegionOf[d] = q.region}
  /\ filter' = [filter EXCEPT !.district = None]
  /\ UNCHANGED <<server, typing, page, hasMore, list, button, loads, crossed>>

PlacesFail(q) == /\ q \in asked /\ q.kind = "places"
                 /\ asked' = asked \ {q}
                 /\ places' = None
                 /\ filter' = [filter EXCEPT !.district = None]
                 /\ UNCHANGED <<server, typing, page, hasMore, list, button, loads, crossed>>

Reply == \E q \in asked : \/ Search(q) \/ PageArrives(q) \/ PageFails(q)
                          \/ PlacesArrive(q) \/ PlacesFail(q)

Next == \/ \E s \in Slot : SlotOpens(s) \/ SlotCloses(s)
        \/ \E r \in Region \cup {None} : ChangeRegion(r)
        \/ \E d \in District \cup {None} : ChangeDistrict(d)
        \/ \E w \in Word \cup {None} : Type(w)
        \/ DebounceEnds \/ LoadMore \/ Reply

Rows == [filter: Filter, page: Nat, rows: SUBSET Slot]

TypeOK == /\ listing \subseteq Slot /\ opened \subseteq Slot /\ closed \subseteq Slot
          /\ filter \in Filter
          /\ places = None \/ places \subseteq District
          /\ typing \in BOOLEAN
          /\ page \in Nat \ {0}
          /\ \A i \in DOMAIN list : list[i] \in Texts \cup Rows
          /\ button = None \/ button \in 0..loads
          /\ \A q \in asked : q.id \in 1..loads

Shown == UNION {list[i].rows : i \in DOMAIN list}

\* Pages are cut by number from a listing that changes between two requests.  As
\* long as the replies are waited for since the list was loaded anew, it shows
\* the pages of the filters of now, in order; a slot is shown twice only if one
\* opened in between; and when "Load more" is gone, a slot that was there from
\* the first page on is missing only if one closed.
ListIsComplete ==
  ~crossed /\ ~typing /\ asked = {} /\ (\A i \in DOMAIN list : list[i] \notin Texts) =>
    /\ \A i \in DOMAIN list : /\ list[i].filter = filter /\ list[i].page = i
                              /\ list[i].rows \subseteq Finds[filter]
    /\ opened = {} => \A i, j \in DOMAIN list :
                         i # j => list[i].rows \cap list[j].rows = {}
    /\ closed = {} /\ button # Enabled => Found(filter) \ opened \subseteq Shown
=============================================================================
