--------------------------- MODULE LocationCascade ---------------------------
(***************************************************************************)
(* The region, district and ward selects of the profile forms              *)
(* (static/js/location-cascade.js, outside its filter mode) and the forms  *)
(* that check what they submit.  Each change sends a request; the replies  *)
(* arrive in any order, and nothing is done to tell a late one.            *)
(***************************************************************************)
EXTENDS Naturals

CONSTANTS Region, District, Ward,
          RegionOf, DistrictOf,  \* where a district and a ward belong
          MaxLoads,              \* bound: requests the user causes on one page
          None

\* Assumed where the module is instantiated.
CascadeAssumption == /\ RegionOf \in [District -> Region]
                     /\ DistrictOf \in [Ward -> District]
                     /\ None \notin Region \cup District \cup Ward
                     /\ MaxLoads \in Nat

VARIABLES
  region,    \* value of the region select, None while nothing is selected
  district,  \* the district select
  ward,      \* the ward select
  asked,     \* requests without a reply
  loads,     \* requests sent so far
  saved,     \* what the server has accepted, or None
  crossed    \* history: a select was changed while a reply was on its way

cascadeVars == <<region, district, ward, asked, loads, saved, crossed>>

\* state is "off" (placeholder or error, disabled), "loading" or "on".
Select(options) ==
  [options: SUBSET options, value: options \cup {None}, state: {"off", "loading", "on"}]

Empty(state) == [options |-> {}, value |-> None, state |-> state]

Districts(r) == {d \in District : RegionOf[d] = r}
Wards(d) == {w \in Ward : DistrictOf[w] = d}

\* A select filled with options, on the one that is to be selected if it is there.
Filled(options, value) ==
  [options |-> options, value |-> IF value \in options THEN value ELSE None, state |-> "on"]

Request(kind, of, pickDistrict, pickWard) ==
  [id |-> loads + 1, kind |-> kind, of |-> of, district |-> pickDistrict, ward |-> pickWard]

Ask(request, rest) == /\ loads' = loads + 1
                      /\ asked' = rest \cup {request}

\* loadWards, with the requests that remain without a reply.
LoadWards(d, pickWard, rest) ==
  IF d = None
  THEN /\ ward' = Empty("off")
       /\ asked' = rest
       /\ UNCHANGED loads
  ELSE /\ ward' = Empty("loading")
       /\ Ask(Request("wards", d, None, pickWard), rest)

\* loadDistricts; with a region the ward select is left as it is.
LoadDistricts(r, pickDistrict, pickWard) ==
  IF r = None
  THEN /\ district' = Empty("off")
       /\ LoadWards(None, None, asked)
  ELSE /\ district' = Empty("loading")
       /\ Ask(Request("districts", r, pickDistrict, pickWard), asked)
       /\ UNCHANGED ward

\* The page of a profile that is new, or was saved with a place in a region.
Init == \E w \in Ward \cup {None} :
  LET d == IF w = None THEN None ELSE DistrictOf[w]
  IN  /\ region = IF w = None THEN None ELSE RegionOf[d]
      /\ district = Empty(IF w = None THEN "off" ELSE "loading")
      /\ ward = Empty("off")
      /\ loads = IF w = None THEN 0 ELSE 1
      /\ asked = IF w = None THEN {} ELSE
           {[id |-> 1, kind |-> "districts", of |-> region, district |-> d, ward |-> w]}
      /\ saved = None
      /\ crossed = FALSE

\* The user changes a select that loads others.
Changed == loads < MaxLoads /\ crossed' = (crossed \/ asked # {})

ChooseRegion(r) == /\ r # region
                   /\ Changed
                   /\ region' = r
                   /\ LoadDistricts(r, None, None)
                   /\ UNCHANGED saved

ChooseDistrict(d) == /\ district.state = "on"
                     /\ Changed
                     /\ d \in district.options \cup {None} /\ d # district.value
                     /\ district' = [district EXCEPT !.value = d]
                     /\ LoadWards(d, None, asked)
                     /\ UNCHANGED <<region, saved>>

ChooseWard(w) == /\ ward.state = "on"
                 /\ w \in ward.options \cup {None} /\ w # ward.value
                 /\ ward' = [ward EXCEPT !.value = w]
                 /\ UNCHANGED <<region, district, asked, loads, saved, crossed>>

\* Mutant: the wards are left as they are.
DistrictsOnly(q) == /\ q \in asked /\ q.kind = "districts"
                    /\ district' = Filled(Districts(q.of), q.district)
                    /\ asked' = asked \ {q}
                    /\ UNCHANGED <<region, ward, loads, saved, crossed>>

\* The reply fills the select, whatever has been chosen since it was asked for.
DistrictsArrive(q) == /\ q \in asked /\ q.kind = "districts"
                      /\ district' = Filled(Districts(q.of), q.district)
                      /\ LoadWards(district'.value, q.ward, asked \ {q})
                      /\ UNCHANGED <<region, saved, crossed>>

WardsArrive(q) == /\ q \in asked /\ q.kind = "wards"
                  /\ ward' = Filled(Wards(q.of), q.ward)
                  /\ asked' = asked \ {q}
                  /\ UNCHANGED <<region, district, loads, saved, crossed>>

LoadFails(q) == /\ q \in asked
                /\ asked' = asked \ {q}
                /\ IF q.kind = "districts"
                   THEN district' = Empty("off") /\ UNCHANGED ward
                   ELSE ward' = Empty("off") /\ UNCHANGED district
                /\ UNCHANGED <<region, loads, saved, crossed>>

\* The forms' __init__: districts of the region and wards of the district that
\* are submitted; a field that is missing or not among them is an error.
Accepts(r, d, w) == /\ None \notin {r, d, w}
                    /\ d \in Districts(r)
                    /\ w \in Wards(d)

\* A disabled select submits nothing.
Submit == LET d == IF district.state = "on" THEN district.value ELSE None
              w == IF ward.state = "on" THEN ward.value ELSE None
          IN  /\ Accepts(region, d, w)
              /\ saved' = <<region, d, w>>
              /\ UNCHANGED <<region, district, ward, asked, loads, crossed>>

Reply == \E q \in asked : DistrictsArrive(q) \/ WardsArrive(q) \/ LoadFails(q)

Next == \/ \E r \in Region \cup {None} : ChooseRegion(r)
        \/ \E d \in District \cup {None} : ChooseDistrict(d)
        \/ \E w \in Ward \cup {None} : ChooseWard(w)
        \/ Reply \/ Submit

TypeOK == /\ region \in Region \cup {None}
          /\ district \in Select(District) /\ ward \in Select(Ward)
          /\ \A q \in asked : q.id \in 1..loads
          /\ saved = None \/ saved \in Region \X District \X Ward
          /\ crossed \in BOOLEAN

\* As long as every reply was waited for, a district select that can be used
\* lists the districts of the region, and a ward select the wards of the
\* district; and whatever was waited for, a saved place is one.
PlacesAgree ==
  /\ ~crossed /\ district.state = "on" =>
       /\ district.options = Districts(region)
       /\ ward.state = "on" => ward.options = Wards(district.value)
  /\ saved # None => RegionOf[saved[2]] = saved[1] /\ DistrictOf[saved[3]] = saved[2]
=============================================================================
