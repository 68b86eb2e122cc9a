---------------------------- MODULE BrowserProofs ----------------------------
(***************************************************************************)
(* Proofs about Browser, for any places, filters, slots, sizes of a page   *)
(* and numbers of attempts: one prompt at a time, selects that agree, and  *)
(* what a list shows while slots open and close.                           *)
(***************************************************************************)
EXTENDS Browser, SequenceTheorems, FiniteSetTheorems, TLAPS

-----------------------------------------------------------------------------
(* The payment page                                                        *)

\* A prompt that the page gave up for lost is past the server's check.
Overtaken == \E p \in prompts : ~p.waited /\ p.state \in {"pushed", "ok", "error"}

\* Whoever waits for the page's next answer is alone, and the button is off.
PayInv ==
  /\ Pay!TypeOK
  /\ \A p, q \in prompts : p.waited /\ q.waited => p = q
  /\ \A p, q \in pollers : p = q
  /\ \A p \in prompts : p.waited => ~button /\ pollers = {} /\ message # "paid"
  /\ pollers # {} => ~button
  /\ \A p \in pollers : p.state = "PAID" => payment = "PAID" \/ Overtaken
  /\ message = "paid" => payment = "PAID" \/ Overtaken

LEMMA PayInit == Pay!Init => PayInv
BY BrowserAssumption DEF Pay!Init, PayInv, Pay!TypeOK, Pay!Status, Pay!PageAssumption

\* A request moves on at the server.
LEMMA ServerStep ==
  ASSUME PayInv, NEW p \in prompts,
         NEW s \in {"sent", "checked", "pushed", "refused", "ok", "error"},
         Pay!Prompted(p, s), payment' \in Pay!Status,
         UNCHANGED <<button, clicks, pollers, message>>,
         payment' = payment \/ s \in {"pushed", "ok", "error"},
         p.state \in {"pushed", "ok", "error"} => s \in {"pushed", "ok", "error"}
  PROVE  PayInv'
<1> DEFINE q == [p EXCEPT !.state = s]
<1>1. p \in Pay!Prompt
  BY DEF PayInv, Pay!TypeOK
<1>2. q \in Pay!Prompt /\ q.waited = p.waited /\ q.state = s
  BY <1>1 DEF Pay!Prompt
<1>3. prompts' = (prompts \ {p}) \cup {q}
  BY DEF Pay!Prompted
<1> HIDE DEF q
<1>4. Pay!TypeOK'
  BY <1>2, <1>3 DEF PayInv, Pay!TypeOK
<1>5. \A x, y \in prompts' : x.waited /\ y.waited => x = y
  BY <1>2, <1>3 DEF PayInv
<1>6. \A x \in prompts' : x.waited => ~button' /\ pollers' = {} /\ message' # "paid"
  BY <1>2, <1>3 DEF PayInv
<1>7. Overtaken => Overtaken'
  BY <1>2, <1>3 DEF Overtaken
<1>8. ~p.waited /\ s \in {"pushed", "ok", "error"} => Overtaken'
  BY <1>2, <1>3 DEF Overtaken
<1>9. CASE p.waited
  BY <1>4, <1>5, <1>6, <1>7, <1>9 DEF PayInv
<1>10. CASE ~p.waited
  BY <1>4, <1>5, <1>6, <1>7, <1>8, <1>10 DEF PayInv
<1> QED BY <1>9, <1>10

LEMMA PromptStep ==
  ASSUME PayInv, NEW p \in prompts,
         \/ Pay!CheckPrompt(p) \/ Pay!ResetPayment(p) \/ Pay!PushAnswered(p)
         \/ Pay!PromptArrives(p) \/ Pay!PromptLost(p)
  PROVE  PayInv'
<1>1. p \in Pay!Prompt /\ payment \in Pay!Status
  BY DEF PayInv, Pay!TypeOK
<1>2. CASE Pay!CheckPrompt(p) \/ Pay!ResetPayment(p) \/ Pay!PushAnswered(p)
  BY <1>1, <1>2, ServerStep
  DEF Pay!CheckPrompt, Pay!ResetPayment, Pay!PushAnswered, Pay!Status
<1>4. CASE Pay!PromptArrives(p)
  <2>1. p.waited /\ ~button /\ pollers = {} /\ message # "paid"
        /\ \A x \in prompts' : x \in prompts /\ ~x.waited
    BY <1>4 DEF Pay!PromptArrives, PayInv
  <2>2. CASE p.state = "ok"
    <3> DEFINE q == [id |-> p.id, attempts |-> 0, state |-> "timer"]
    <3>1. q \in Pay!Poller /\ q.state # "PAID"
      BY <1>1, BrowserAssumption DEF Pay!Prompt, Pay!Poller, Pay!PageAssumption
    <3>2. pollers' = {q} /\ UNCHANGED <<button, message, payment, clicks>>
      BY <1>4, <2>1, <2>2 DEF Pay!PromptArrives
    <3> HIDE DEF q
    <3> QED BY <2>1, <3>1, <3>2 DEF PayInv, Pay!TypeOK
  <2>3. CASE p.state # "ok"
    BY <1>4, <2>1, <2>3 DEF Pay!PromptArrives, PayInv, Pay!TypeOK
  <2> QED BY <2>2, <2>3
<1>5. CASE Pay!PromptLost(p)
  <2> DEFINE q == [p EXCEPT !.waited = FALSE]
  <2>1. q \in Pay!Prompt /\ ~q.waited
    BY <1>1 DEF Pay!Prompt
  <2>2. prompts' = (prompts \ {p}) \cup {q} /\ pollers = {}
        /\ \A x \in prompts \ {p} : ~x.waited
    BY <1>5 DEF Pay!PromptLost, PayInv
  <2> HIDE DEF q
  <2>3. \A x \in prompts' : ~x.waited /\ x \in Pay!Prompt
    BY <2>1, <2>2 DEF PayInv, Pay!TypeOK
  <2> QED BY <1>5, <2>2, <2>3 DEF Pay!PromptLost, PayInv, Pay!TypeOK
<1> QED BY <1>2, <1>4, <1>5

LEMMA PollerStep ==
  ASSUME PayInv, NEW p \in pollers,
         Pay!CheckStatus(p) \/ Pay!ReadStatus(p) \/ Pay!StatusArrives(p) \/ Pay!StatusFails(p)
  PROVE  PayInv'
<1>1. p \in Pay!Poller /\ pollers = {p} /\ ~button /\ \A x \in prompts : ~x.waited
  BY DEF PayInv, Pay!TypeOK
<1>2. ASSUME NEW q \in Pay!Poller, Pay!Loop(p, q), q.state = "PAID" => payment = "PAID" \/ Overtaken,
             UNCHANGED <<payment, button, clicks, prompts, message>>
      PROVE  PayInv'
  <2>1. pollers' = {q}
    BY <1>1, <1>2 DEF Pay!Loop
  <2> QED BY <1>1, <1>2, <2>1 DEF PayInv, Pay!TypeOK, Overtaken
<1>3. ASSUME NEW outcome \in {"paid", "failed", "timeout"}, NEW enable \in BOOLEAN,
             Pay!EndLoop(p, outcome, enable), outcome = "paid" => payment = "PAID" \/ Overtaken,
             UNCHANGED <<payment, clicks, prompts>>
      PROVE  PayInv'
  <2>1. pollers' = {}
    BY <1>1, <1>3 DEF Pay!EndLoop
  <2> QED BY <1>1, <1>3, <2>1 DEF PayInv, Pay!TypeOK, Pay!EndLoop, Overtaken
<1>4. CASE Pay!CheckStatus(p)
  <2>1. CASE p.attempts = MaxAttempts
    BY <1>3, <1>4, <2>1 DEF Pay!CheckStatus
  <2>2. CASE p.attempts # MaxAttempts
    <3> DEFINE q == [p EXCEPT !.attempts = p.attempts + 1, !.state = "asked"]
    <3>1. p.attempts + 1 \in 0..MaxAttempts
      BY <1>1, <2>2, BrowserAssumption DEF Pay!Poller, Pay!PageAssumption
    <3>2. q \in Pay!Poller /\ q.state = "asked"
      BY <1>1, <3>1 DEF Pay!Poller
    <3>3. Pay!Loop(p, q) /\ UNCHANGED <<payment, button, clicks, prompts, message>>
      BY <1>4, <2>2 DEF Pay!CheckStatus
    <3> HIDE DEF q
    <3> QED BY <1>2, <3>2, <3>3
  <2> QED BY <2>1, <2>2
<1>5. CASE Pay!ReadStatus(p)
  <2>1. [p EXCEPT !.state = payment] \in Pay!Poller /\ [p EXCEPT !.state = payment].state = payment
    BY <1>1 DEF Pay!Poller, PayInv, Pay!TypeOK
  <2>2. PICK q : q = [p EXCEPT !.state = payment]
    OBVIOUS
  <2> QED BY <1>2, <1>5, <2>1, <2>2 DEF Pay!ReadStatus
<1>6. ASSUME Pay!Loop(p, [p EXCEPT !.state = "timer"]),
             UNCHANGED <<payment, button, clicks, prompts, message>>
      PROVE  PayInv'
  <2>1. [p EXCEPT !.state = "timer"] \in Pay!Poller /\ [p EXCEPT !.state = "timer"].state = "timer"
    BY <1>1 DEF Pay!Poller
  <2> QED BY <1>2, <1>6, <2>1
<1>7. CASE Pay!StatusArrives(p)
  <2>1. CASE p.state = "PAID"
    <3>1. payment = "PAID" \/ Overtaken
      BY <2>1 DEF PayInv
    <3> QED BY <1>1, <1>3, <1>7, <2>1, <3>1 DEF Pay!StatusArrives, Pay!EndLoop, PayInv, Pay!TypeOK
  <2>2. CASE p.state = "FAILED"
    BY <1>3, <1>7, <2>2 DEF Pay!StatusArrives
  <2>3. CASE p.state = "PENDING"
    BY <1>6, <1>7, <2>3 DEF Pay!StatusArrives
  <2> QED BY <1>7, <2>1, <2>2, <2>3 DEF Pay!StatusArrives, Pay!Status
<1>8. CASE Pay!StatusFails(p)
  BY <1>6, <1>8 DEF Pay!StatusFails
<1> QED BY <1>4, <1>5, <1>7, <1>8

LEMMA PayNextStep == PayInv /\ Pay!Next => PayInv'
<1> SUFFICES ASSUME PayInv, Pay!Next PROVE PayInv'
  OBVIOUS
<1>1. CASE Pay!Click
  <2> DEFINE q == [id |-> clicks + 1, waited |-> TRUE, state |-> "sent"]
  <2>1. clicks + 1 \in 0..MaxClicks /\ q \in Pay!Prompt /\ q.waited
    BY <1>1, BrowserAssumption DEF Pay!Click, PayInv, Pay!TypeOK, Pay!Prompt, Pay!PageAssumption
  <2>2. prompts' = prompts \cup {q} /\ pollers = {} /\ \A x \in prompts : ~x.waited
    BY <1>1 DEF Pay!Click, PayInv
  <2> HIDE DEF q
  <2> QED BY <1>1, <2>1, <2>2 DEF Pay!Click, PayInv, Pay!TypeOK
<1>2. ASSUME NEW s \in {"PAID", "FAILED"}, Pay!Webhook(s) PROVE PayInv'
  BY <1>2 DEF Pay!Webhook, PayInv, Pay!TypeOK, Pay!Status, Overtaken
<1> QED BY <1>1, <1>2, PromptStep, PollerStep DEF Pay!Next, Pay!Step

LEMMA PayStays == PayInv /\ UNCHANGED payVars => PayInv'
BY DEF PayInv, payVars, Pay!TypeOK, Overtaken

-----------------------------------------------------------------------------
(* The selects of a form                                                   *)

\* While replies are waited for, at most one is on its way, and it is for what
\* the selects say now.
FormInOrder ==
  /\ \A p, q \in placesAsked : p = q
  /\ \A q \in placesAsked :
       /\ q.kind = "districts" => q.of = region /\ district.state = "loading"
       /\ q.kind # "districts" => q.of = district.value /\ district.state = "on"
                                  /\ ward.state = "loading"
  /\ district.state = "on" => district.options = Form!Districts(region)
  /\ district.state = "on" /\ ward.state = "on" => ward.options = Form!Wards(district.value)

FormInv ==
  /\ Form!TypeOK
  /\ placeLoads \in Nat
  /\ saved # None => RegionOf[saved[2]] = saved[1] /\ DistrictOf[saved[3]] = saved[2]
  /\ ~placesCrossed => FormInOrder

LEMMA EmptyIsSelect ==
  ASSUME NEW state \in {"off", "loading", "on"}, NEW options
  PROVE  /\ Form!Empty(state) \in Form!Select(options)
         /\ Form!Empty(state).state = state
BY DEF Form!Empty, Form!Select

LEMMA FilledIsSelect ==
  ASSUME NEW options, NEW all, options \subseteq all, NEW value
  PROVE  LET s == Form!Filled(options, value)
         IN  s \in Form!Select(all) /\ s.state = "on" /\ s.options = options
BY DEF Form!Filled, Form!Select

LEMMA FormInit == Form!Init => FormInv
<1> SUFFICES ASSUME Form!Init PROVE FormInv
  OBVIOUS
<1>1. PICK w \in Ward \cup {None} :
        LET d == IF w = None THEN None ELSE DistrictOf[w]
        IN  /\ region = IF w = None THEN None ELSE RegionOf[d]
            /\ district = Form!Empty(IF w = None THEN "off" ELSE "loading")
            /\ ward = Form!Empty("off")
            /\ placeLoads = IF w = None THEN 0 ELSE 1
            /\ placesAsked = IF w = None THEN {} ELSE
                 {[id |-> 1, kind |-> "districts", of |-> region, district |-> d, ward |-> w]}
            /\ saved = None
            /\ placesCrossed = FALSE
  BY DEF Form!Init
<1>2. region \in Region \cup {None}
  BY <1>1, BrowserAssumption DEF Form!CascadeAssumption
<1>3. /\ district \in Form!Select(District) /\ ward \in Form!Select(Ward)
      /\ district.state = (IF w = None THEN "off" ELSE "loading") /\ ward.state = "off"
  BY <1>1, EmptyIsSelect
<1>4. Form!TypeOK /\ placeLoads \in Nat
  <2>1. placeLoads \in Nat /\ saved = None /\ placesCrossed \in BOOLEAN
    BY <1>1
  <2>2. \A q \in placesAsked : q.id \in 1..placeLoads
    <3>1. CASE w = None
      BY <1>1, <3>1
    <3>2. CASE w # None
      BY <1>1, <3>2
    <3> QED BY <3>1, <3>2
  <2> QED BY <1>2, <1>3, <2>1, <2>2 DEF Form!TypeOK
<1>5. FormInOrder
  BY <1>1, <1>3 DEF FormInOrder
<1> QED BY <1>1, <1>4, <1>5 DEF FormInv

\* A change of a select that loads: the request it sends, if any, is the only one
\* unless others were on their way.
LEMMA ChooseStep ==
  ASSUME FormInv, \/ \E r \in Region \cup {None} : Form!ChooseRegion(r)
                  \/ \E d \in District \cup {None} : Form!ChooseDistrict(d)
  PROVE  FormInv'
<1>1. ASSUME NEW r \in Region \cup {None}, Form!ChooseRegion(r) PROVE FormInv'
  <2>1. /\ region' = r /\ saved' = saved /\ placesCrossed' = (placesCrossed \/ placesAsked # {})
        /\ Form!LoadDistricts(r, None, None)
    BY <1>1 DEF Form!ChooseRegion, Form!Changed
  <2>2. CASE r = None
    <3>1. /\ district' = Form!Empty("off") /\ ward' = Form!Empty("off")
          /\ placesAsked' = placesAsked /\ placeLoads' = placeLoads
      BY <2>1, <2>2 DEF Form!LoadDistricts, Form!LoadWards
    <3>2. /\ district' \in Form!Select(District) /\ ward' \in Form!Select(Ward)
          /\ district'.state = "off"
      BY <3>1, EmptyIsSelect
    <3> QED BY <2>1, <3>1, <3>2 DEF FormInv, Form!TypeOK, FormInOrder
  <2>3. CASE r # None
    <3> DEFINE q == [id |-> placeLoads + 1, kind |-> "districts", of |-> r,
                     district |-> None, ward |-> None]
    <3>1. /\ district' = Form!Empty("loading") /\ ward' = ward
          /\ placesAsked' = placesAsked \cup {q} /\ placeLoads' = placeLoads + 1
      BY <2>1, <2>3 DEF Form!LoadDistricts, Form!Ask, Form!Request
    <3>2. district' \in Form!Select(District) /\ district'.state = "loading"
      BY <3>1, EmptyIsSelect
    <3>3. q.id = placeLoads + 1 /\ q.kind = "districts" /\ q.of = r
      OBVIOUS
    <3> HIDE DEF q
    <3>4. Form!TypeOK' /\ placeLoads' \in Nat
      BY <2>1, <3>1, <3>2, <3>3 DEF FormInv, Form!TypeOK
    <3> QED BY <2>1, <3>1, <3>2, <3>3, <3>4 DEF FormInv, FormInOrder
  <2> QED BY <2>2, <2>3
<1>2. ASSUME NEW d \in District \cup {None}, Form!ChooseDistrict(d) PROVE FormInv'
  <2>1. /\ region' = region /\ saved' = saved
        /\ placesCrossed' = (placesCrossed \/ placesAsked # {})
        /\ district.state = "on"
        /\ district' = [district EXCEPT !.value = d]
        /\ Form!LoadWards(d, None, placesAsked)
    BY <1>2 DEF Form!ChooseDistrict, Form!Changed
  <2>2. /\ district' \in Form!Select(District) /\ district'.value = d
        /\ district'.state = "on" /\ district'.options = district.options
    BY <2>1 DEF FormInv, Form!TypeOK, Form!Select
  <2>3. CASE d = None
    <3>1. ward' = Form!Empty("off") /\ placesAsked' = placesAsked /\ placeLoads' = placeLoads
      BY <2>1, <2>3 DEF Form!LoadWards
    <3>2. ward' \in Form!Select(Ward) /\ ward'.state = "off"
      BY <3>1, EmptyIsSelect
    <3> QED BY <2>1, <2>2, <3>1, <3>2 DEF FormInv, Form!TypeOK, FormInOrder
  <2>4. CASE d # None
    <3> DEFINE q == [id |-> placeLoads + 1, kind |-> "wards", of |-> d,
                     district |-> None, ward |-> None]
    <3>1. /\ ward' = Form!Empty("loading")
          /\ placesAsked' = placesAsked \cup {q} /\ placeLoads' = placeLoads + 1
      BY <2>1, <2>4 DEF Form!LoadWards, Form!Ask, Form!Request
    <3>2. ward' \in Form!Select(Ward) /\ ward'.state = "loading"
      BY <3>1, EmptyIsSelect
    <3>3. q.id = placeLoads + 1 /\ q.kind = "wards" /\ q.of = d
      OBVIOUS
    <3> HIDE DEF q
    <3>4. Form!TypeOK' /\ placeLoads' \in Nat
      BY <2>1, <2>2, <3>1, <3>2, <3>3 DEF FormInv, Form!TypeOK
    <3> QED BY <2>1, <2>2, <3>1, <3>2, <3>3, <3>4 DEF FormInv, FormInOrder
  <2> QED BY <2>3, <2>4
<1> QED BY <1>1, <1>2

LEMMA PlacesReplyStep ==
  ASSUME FormInv, Form!Reply
  PROVE  FormInv'
<1>1. PICK q \in placesAsked : Form!DistrictsArrive(q) \/ Form!WardsArrive(q) \/ Form!LoadFails(q)
  BY DEF Form!Reply
<1>2. ~placesCrossed => placesAsked \ {q} = {}
  BY DEF FormInv, FormInOrder
<1>3. CASE Form!DistrictsArrive(q)
  <2>1. /\ district' = Form!Filled(Form!Districts(q.of), q.district)
        /\ Form!LoadWards(district'.value, q.ward, placesAsked \ {q})
        /\ UNCHANGED <<region, saved, placesCrossed>> /\ q.kind = "districts"
    BY <1>3 DEF Form!DistrictsArrive
  <2>2. /\ district' \in Form!Select(District) /\ district'.state = "on"
        /\ district'.options = Form!Districts(q.of)
    <3>1. Form!Districts(q.of) \subseteq District
      BY DEF Form!Districts
    <3> QED BY <2>1, <3>1, FilledIsSelect
  <2>3. ~placesCrossed => district'.options = Form!Districts(region)
    BY <2>1, <2>2 DEF FormInv, FormInOrder
  <2>4. CASE district'.value = None
    <3>1. /\ ward' = Form!Empty("off") /\ placesAsked' = placesAsked \ {q}
          /\ placeLoads' = placeLoads
      BY <2>1, <2>4 DEF Form!LoadWards
    <3>2. ward' \in Form!Select(Ward) /\ ward'.state = "off"
      BY <3>1, EmptyIsSelect
    <3>3. Form!TypeOK'
      BY <2>1, <2>2, <3>1, <3>2 DEF FormInv, Form!TypeOK
    <3> QED BY <1>2, <2>1, <2>2, <2>3, <3>1, <3>2, <3>3 DEF FormInv, FormInOrder
  <2>5. CASE district'.value # None
    <3> DEFINE n == [id |-> placeLoads + 1, kind |-> "wards", of |-> district'.value,
                     district |-> None, ward |-> q.ward]
    <3>1. /\ ward' = Form!Empty("loading")
          /\ placesAsked' = (placesAsked \ {q}) \cup {n} /\ placeLoads' = placeLoads + 1
      BY <2>1, <2>5 DEF Form!LoadWards, Form!Ask, Form!Request
    <3>2. ward' \in Form!Select(Ward) /\ ward'.state = "loading"
      BY <3>1, EmptyIsSelect
    <3>3. n.id = placeLoads + 1 /\ n.kind = "wards" /\ n.of = district'.value
      OBVIOUS
    <3>4. PICK m : m = n
      OBVIOUS
    <3> HIDE DEF n
    <3>5. Form!TypeOK' /\ placeLoads' \in Nat
      BY <2>1, <2>2, <3>1, <3>2, <3>3, <3>4 DEF FormInv, Form!TypeOK
    <3> QED BY <1>2, <2>1, <2>2, <2>3, <3>1, <3>2, <3>3, <3>4, <3>5 DEF FormInv, FormInOrder
  <2> QED BY <2>4, <2>5
<1>4. CASE Form!WardsArrive(q)
  <2>1. /\ ward' = Form!Filled(Form!Wards(q.of), q.ward) /\ placesAsked' = placesAsked \ {q}
        /\ UNCHANGED <<region, district, placeLoads, saved, placesCrossed>> /\ q.kind = "wards"
    BY <1>4 DEF Form!WardsArrive
  <2>2. ward' \in Form!Select(Ward) /\ ward'.options = Form!Wards(q.of)
    <3>1. Form!Wards(q.of) \subseteq Ward
      BY DEF Form!Wards
    <3> QED BY <2>1, <3>1, FilledIsSelect
  <2>3. Form!TypeOK'
    BY <2>1, <2>2 DEF FormInv, Form!TypeOK
  <2> QED BY <1>2, <2>1, <2>2, <2>3 DEF FormInv, FormInOrder
<1>5. CASE Form!LoadFails(q)
  <2>1. /\ placesAsked' = placesAsked \ {q} /\ UNCHANGED <<region, placeLoads, saved, placesCrossed>>
        /\ \/ district' = Form!Empty("off") /\ ward' = ward
           \/ ward' = Form!Empty("off") /\ district' = district
    BY <1>5 DEF Form!LoadFails
  <2>2. /\ Form!Empty("off") \in Form!Select(District) /\ Form!Empty("off") \in Form!Select(Ward)
        /\ Form!Empty("off").state = "off"
    BY EmptyIsSelect
  <2>3. Form!TypeOK'
    BY <2>1, <2>2 DEF FormInv, Form!TypeOK
  <2> QED BY <1>2, <2>1, <2>2, <2>3 DEF FormInv, FormInOrder
<1> QED BY <1>1, <1>3, <1>4, <1>5

LEMMA FormNextStep == FormInv /\ Form!Next => FormInv'
<1> SUFFICES ASSUME FormInv, Form!Next PROVE FormInv'
  OBVIOUS
<1>1. ASSUME NEW w \in Ward \cup {None}, Form!ChooseWard(w) PROVE FormInv'
  <2>1. /\ ward' \in Form!Select(Ward) /\ ward'.state = ward.state /\ ward'.options = ward.options
        /\ UNCHANGED <<region, district, placesAsked, placeLoads, saved, placesCrossed>>
    BY <1>1 DEF Form!ChooseWard, FormInv, Form!TypeOK, Form!Select
  <2> QED BY <2>1 DEF FormInv, Form!TypeOK, FormInOrder
<1>2. CASE Form!Submit
  <2> DEFINE d == IF district.state = "on" THEN district.value ELSE None
             w == IF ward.state = "on" THEN ward.value ELSE None
  <2>1. Form!Accepts(region, d, w) /\ saved' = <<region, d, w>>
        /\ UNCHANGED <<region, district, ward, placesAsked, placeLoads, placesCrossed>>
    BY <1>2 DEF Form!Submit
  <2> HIDE DEF d, w
  <2>2. region \in Region /\ d \in District /\ w \in Ward /\ RegionOf[d] = region /\ DistrictOf[w] = d
    BY <2>1 DEF Form!Accepts, Form!Districts, Form!Wards, FormInv, Form!TypeOK
  <2> QED BY <2>1, <2>2 DEF FormInv, Form!TypeOK, FormInOrder
<1> QED BY <1>1, <1>2, ChooseStep, PlacesReplyStep DEF Form!Next

LEMMA FormStays == FormInv /\ UNCHANGED formVars => FormInv'
BY DEF FormInv, formVars, Form!TypeOK, FormInOrder

-----------------------------------------------------------------------------
(* Pages that are cut from a listing: pure facts about its slots            *)

\* Of the slots that f finds in l, those that did not open since are in sh or
\* behind the n-th page, unless one closed.
Gapless(l, o, c, f, sh, n) ==
  c = {} => \A s \in (l \cap Finds[f]) \ o :
              s \in sh \/ Market!Position(s, l \cap Finds[f]) > n * PageSize

\* What is in sh is not behind the n-th page, unless a slot opened.
Passed(l, o, f, sh, n) ==
  o = {} => \A s \in sh \cap l : Market!Position(s, l \cap Finds[f]) <= n * PageSize

\* Nothing is left to load.
Whole(l, o, c, f, sh) == c = {} => (l \cap Finds[f]) \ o \subseteq sh

\* A page is n + 1-th after what is in sh.
Joins(l, o, c, f, sh, rows, more, n) ==
  /\ rows \subseteq Finds[f]
  /\ Gapless(l, o, c, f, sh \cup rows, n + 1)
  /\ Passed(l, o, f, sh \cup rows, n + 1)
  /\ o = {} => sh \cap rows = {}
  /\ ~more => Whole(l, o, c, f, sh \cup rows)

\* The instance has the definitions of FiniteSets under names of its own.
LEMMA SameSets == \A S : /\ Market!Cardinality(S) = Cardinality(S)
                         /\ Market!IsFiniteSet(S) <=> IsFiniteSet(S)
<1>1. \A S : Market!Cardinality(S) = Cardinality(S)
  BY DEF Market!Cardinality, Cardinality
<1>2. \A S : Market!IsFiniteSet(S) <=> IsFiniteSet(S)
  BY DEF Market!IsFiniteSet, IsFiniteSet
<1> QED BY <1>1, <1>2

LEMMA Sizes ==
  /\ PageSize \in Nat \ {0} /\ IsFiniteSet(Slot) /\ Slot \subseteq Nat
  /\ \A f \in Market!Filter : Finds[f] \subseteq Slot
  /\ \A n \in Nat : n * PageSize \in Nat /\ (n + 1) * PageSize = n * PageSize + PageSize
<1>1. PageSize \in Nat \ {0} /\ IsFiniteSet(Slot) /\ Slot \subseteq Nat
  BY BrowserAssumption, SameSets DEF Market!MarketplaceAssumption
<1>2. Finds \in [Market!Filter -> SUBSET Slot]
  BY BrowserAssumption DEF Market!MarketplaceAssumption
<1>3. \A f \in Market!Filter : Finds[f] \subseteq Slot
  BY <1>2
<1>4. ASSUME NEW n \in Nat
      PROVE  n * PageSize \in Nat /\ (n + 1) * PageSize = n * PageSize + PageSize
  BY <1>1
<1> QED BY <1>1, <1>3, <1>4

\* With more slots a slot is further behind, and never behind the last.
LEMMA Positions ==
  ASSUME NEW g \in SUBSET Slot, NEW h \in SUBSET g, NEW s \in Slot
  PROVE  /\ Market!Position(s, h) \in Nat /\ Market!Position(s, g) \in Nat
         /\ Market!Position(s, h) <= Market!Position(s, g)
         /\ Cardinality(h) \in Nat /\ Market!Position(s, h) <= Cardinality(h)
         /\ s \in h => Market!Position(s, h) >= 1
<1> DEFINE hs == {u \in h : u >= s}
           gs == {u \in g : u >= s}
<1>1. IsFiniteSet(g) /\ IsFiniteSet(h)
  BY Sizes, FS_Subset
<1>2. IsFiniteSet(gs) /\ gs \in SUBSET g /\ hs \in SUBSET gs /\ hs \in SUBSET h
  BY <1>1, FS_Subset
<1>3. IsFiniteSet(hs) /\ Cardinality(hs) <= Cardinality(gs) /\ Cardinality(hs) <= Cardinality(h)
  BY <1>1, <1>2, FS_Subset
<1>4. Cardinality(hs) \in Nat /\ Cardinality(gs) \in Nat /\ Cardinality(h) \in Nat
  BY <1>1, <1>2, <1>3, FS_CardinalityType
<1>5. s \in h => Cardinality(hs) # 0
  <2>1. s \in h => s \in hs
    BY Sizes
  <2> QED BY <1>3, <2>1, FS_EmptySet
<1>6. Market!Position(s, h) = Cardinality(hs) /\ Market!Position(s, g) = Cardinality(gs)
  BY SameSets DEF Market!Position
<1> HIDE DEF hs, gs
<1> QED BY <1>3, <1>4, <1>5, <1>6

LEMMA OpeningKeeps ==
  ASSUME NEW l \in SUBSET Slot, NEW x \in Slot, NEW o, NEW c, NEW f \in Market!Filter,
         NEW sh, NEW n \in Nat
  PROVE  /\ Gapless(l, o, c, f, sh, n) => Gapless(l \cup {x}, o \cup {x}, c, f, sh, n)
         /\ Whole(l, o, c, f, sh) => Whole(l \cup {x}, o \cup {x}, c, f, sh)
         /\ Passed(l \cup {x}, o \cup {x}, f, sh, n)
<1> DEFINE g == (l \cup {x}) \cap Finds[f]
           h == l \cap Finds[f]
<1>1. g \in SUBSET Slot /\ h \in SUBSET g /\ n * PageSize \in Nat
  BY Sizes
<1>2. \A s \in g \ (o \cup {x}) : s \in h \ o /\ s \in Slot
  BY <1>1
<1>3. \A s \in Slot : /\ Market!Position(s, h) \in Nat /\ Market!Position(s, g) \in Nat
                      /\ Market!Position(s, h) <= Market!Position(s, g)
  BY <1>1, Positions
<1> HIDE DEF g, h
<1>4. ASSUME c = {} => \A s \in h \ o : s \in sh \/ Market!Position(s, h) > n * PageSize
      PROVE  c = {} => \A s \in g \ (o \cup {x}) :
                         s \in sh \/ Market!Position(s, g) > n * PageSize
  BY <1>1, <1>2, <1>3, <1>4
<1>5. (c = {} => h \ o \subseteq sh) => (c = {} => g \ (o \cup {x}) \subseteq sh)
  BY <1>2
<1>6. o \cup {x} # {}
  OBVIOUS
<1> QED BY <1>4, <1>5, <1>6 DEF Gapless, Whole, Passed, g, h

LEMMA ClosingKeeps ==
  ASSUME NEW l \in SUBSET Slot, NEW x \in Slot, NEW o, NEW c, NEW f \in Market!Filter,
         NEW sh, NEW n \in Nat
  PROVE  /\ Passed(l, o, f, sh, n) => Passed(l \ {x}, o, f, sh, n)
         /\ Gapless(l \ {x}, o, c \cup {x}, f, sh, n)
         /\ Whole(l \ {x}, o, c \cup {x}, f, sh)
<1> DEFINE g == l \cap Finds[f]
           h == (l \ {x}) \cap Finds[f]
<1>1. g \in SUBSET Slot /\ h \in SUBSET g /\ n * PageSize \in Nat
  BY Sizes
<1>2. \A s \in Slot : /\ Market!Position(s, h) \in Nat /\ Market!Position(s, g) \in Nat
                      /\ Market!Position(s, h) <= Market!Position(s, g)
  BY <1>1, Positions
<1> HIDE DEF g, h
<1>3. ASSUME o = {} => \A s \in sh \cap l : Market!Position(s, g) <= n * PageSize
      PROVE  o = {} => \A s \in sh \cap (l \ {x}) : Market!Position(s, h) <= n * PageSize
  BY <1>1, <1>2, <1>3
<1>4. c \cup {x} # {}
  OBVIOUS
<1> QED BY <1>3, <1>4 DEF Gapless, Whole, Passed, g, h

\* Cutting the next page.
LEMMA NextPageJoins ==
  ASSUME NEW l \in SUBSET Slot, NEW o, NEW c, NEW f \in Market!Filter, NEW sh, NEW n \in Nat,
         Gapless(l, o, c, f, sh, n), Passed(l, o, f, sh, n), NEW rows, NEW more,
         rows = {s \in l \cap Finds[f] :
                   /\ Market!Position(s, l \cap Finds[f]) > n * PageSize
                   /\ Market!Position(s, l \cap Finds[f]) <= (n + 1) * PageSize},
         more = ((n + 1) * PageSize < Cardinality(l \cap Finds[f]))
  PROVE  Joins(l, o, c, f, sh, rows, more, n)
<1> DEFINE g == l \cap Finds[f]
           a == n * PageSize
           b == (n + 1) * PageSize
<1>1. g \in SUBSET Slot /\ l \subseteq Slot /\ a \in Nat /\ b \in Nat /\ a <= b
  BY Sizes
<1>2. \A s \in Slot : Market!Position(s, g) \in Nat /\ Market!Position(s, g) <= Cardinality(g)
  BY <1>1, Positions
<1>3. Cardinality(g) \in Nat
  BY <1>1, Sizes, FS_Subset, FS_CardinalityType
<1>4. /\ rows = {s \in g : Market!Position(s, g) > a /\ Market!Position(s, g) <= b}
      /\ more = (b < Cardinality(g))
      /\ c = {} => \A s \in g \ o : s \in sh \/ Market!Position(s, g) > a
      /\ o = {} => \A s \in sh \cap l : Market!Position(s, g) <= a
  BY DEF Gapless, Passed
<1>5. rows \subseteq Finds[f] /\ g \subseteq l
  OBVIOUS
<1> HIDE DEF g, a, b
<1>6. ASSUME c = {}, NEW s \in g \ o PROVE s \in sh \cup rows \/ Market!Position(s, g) > b
  <2>1. Market!Position(s, g) \in Nat
    BY <1>1, <1>2
  <2>2. s \in sh \/ Market!Position(s, g) > a
    BY <1>4, <1>6
  <2>3. Market!Position(s, g) > a => s \in rows \/ Market!Position(s, g) > b
    <3>1. Market!Position(s, g) <= b \/ Market!Position(s, g) > b
      BY <1>1, <2>1
    <3>2. ASSUME Market!Position(s, g) > a, Market!Position(s, g) <= b PROVE s \in rows
      BY <1>4, <1>6, <3>2
    <3> QED BY <3>1, <3>2
  <2> QED BY <2>2, <2>3
<1>7. ASSUME o = {}, NEW s \in (sh \cup rows) \cap l PROVE Market!Position(s, g) <= b
  <2>1. Market!Position(s, g) \in Nat
    BY <1>1, <1>2
  <2>2. CASE s \in sh
    <3>1. Market!Position(s, g) <= a
      BY <1>4, <1>7, <2>2
    <3> QED BY <1>1, <2>1, <3>1
  <2> QED BY <1>4, <1>7, <2>2
<1>8. ASSUME o = {}, NEW s \in sh, s \in rows PROVE FALSE
  <2>1. s \in Slot /\ s \in l /\ Market!Position(s, g) > a
    BY <1>1, <1>4, <1>5, <1>8
  <2>2. Market!Position(s, g) <= a /\ Market!Position(s, g) \in Nat
    BY <1>2, <1>4, <1>8, <2>1
  <2> QED BY <1>1, <2>1, <2>2
<1>9. ASSUME ~more, c = {}, NEW s \in g \ o PROVE s \in sh \cup rows
  <2>1. Market!Position(s, g) \in Nat /\ Market!Position(s, g) <= Cardinality(g)
    BY <1>1, <1>2
  <2>2. ~(Market!Position(s, g) > b)
    <3>1. ~(b < Cardinality(g))
      BY <1>4, <1>9
    <3> QED BY <1>1, <1>3, <2>1, <3>1
  <2> QED BY <1>6, <1>9, <2>2
<1> QED BY <1>5, <1>6, <1>7, <1>8, <1>9 DEF Joins, Gapless, Passed, Whole, g, a, b

-----------------------------------------------------------------------------
(* The list of the marketplace                                             *)

Entry == Market!Texts \cup Market!Rows

RowsOf(l) == UNION {l[i].rows : i \in 1..Len(l)}

\* The list e shows the first n pages of f, each cut when it was its turn.
Settles(e, f, n, l, o, c) ==
  /\ Len(e) = n
  /\ \A i \in 1..Len(e) : e[i].filter = f /\ e[i].page = i /\ e[i].rows \subseteq Finds[f]
  /\ o = {} => \A i, j \in 1..Len(e) : i # j => e[i].rows \cap e[j].rows = {}
  /\ Gapless(l, o, c, f, RowsOf(e), n)
  /\ Passed(l, o, f, RowsOf(e), n)

LEMMA NothingSettles ==
  ASSUME NEW l \in SUBSET Slot, NEW o, NEW c, NEW f \in Market!Filter
  PROVE  Settles(<<>>, f, 0, l, o, c) /\ Len(<<>>) = 0 /\ RowsOf(<<>>) = {}
<1>1. Len(<<>>) = 0 /\ RowsOf(<<>>) = {}
  BY DEF RowsOf
<1>2. l \cap Finds[f] \in SUBSET Slot /\ l \cap Finds[f] \in SUBSET (l \cap Finds[f])
      /\ 0 * PageSize = 0
  BY Sizes
<1>3. \A s \in l \cap Finds[f] : /\ Market!Position(s, l \cap Finds[f]) \in Nat
                                /\ Market!Position(s, l \cap Finds[f]) >= 1
  BY <1>2, Positions
<1>4. Gapless(l, o, c, f, {}, 0)
  <2>1. ASSUME NEW s \in l \cap Finds[f]
        PROVE  Market!Position(s, l \cap Finds[f]) > 0 * PageSize
    <3>1. PICK p \in Nat : p = Market!Position(s, l \cap Finds[f])
      BY <1>3
    <3>2. p >= 1
      BY <1>3, <3>1
    <3>3. p > 0
      BY <3>2
    <3> QED BY <1>2, <3>1, <3>3
  <2> QED BY <2>1 DEF Gapless
<1>5. Passed(l, o, f, {}, 0)
  BY DEF Passed
<1> QED BY <1>1, <1>4, <1>5 DEF Settles

\* A list with the page that joins it.
Joined(new, e, f, n, l, o, c, rows, more) ==
  /\ Settles(e, f, n, l, o, c)
  /\ Joins(l, o, c, f, RowsOf(e), rows, more, n)
  /\ new = Append(e, Market!PageOf(f, n + 1, rows))

LEMMA JoinedSettles ==
  ASSUME NEW e \in Seq(Entry), NEW f \in Market!Filter, NEW n \in Nat, NEW l, NEW o, NEW c,
         NEW rows \in SUBSET Slot, NEW more, NEW new, Joined(new, e, f, n, l, o, c, rows, more)
  PROVE  Settles(new, f, n + 1, l, o, c) /\ RowsOf(new) = RowsOf(e) \cup rows
<1> USE DEF Joined
<1>1. PICK p : p = Market!PageOf(f, n + 1, rows)
  OBVIOUS
<1>2. p \in Entry /\ p.filter = f /\ p.page = n + 1 /\ p.rows = rows
  BY <1>1 DEF Market!PageOf, Entry, Market!Rows
<1>3. /\ Len(e) = n /\ Len(new) = n + 1
      /\ \A i \in 1..(n + 1) : new[i] = IF i <= n THEN e[i] ELSE p
  <2>1. /\ new = Append(e, p) /\ Len(new) = Len(e) + 1 /\ new[Len(e) + 1] = p
        /\ \A i \in 1..Len(e) : new[i] = e[i]
    BY <1>1, <1>2, AppendProperties
  <2>2. Len(e) = n
    BY DEF Settles
  <2> QED BY <2>1, <2>2
<1>4. /\ \A i \in 1..n : e[i].filter = f /\ e[i].page = i /\ e[i].rows \subseteq Finds[f]
      /\ o = {} => \A i, j \in 1..n : i # j => e[i].rows \cap e[j].rows = {}
      /\ RowsOf(e) = UNION {e[i].rows : i \in 1..n}
  BY <1>3 DEF Settles, RowsOf
<1>5. /\ rows \subseteq Finds[f] /\ (o = {} => RowsOf(e) \cap rows = {})
      /\ Gapless(l, o, c, f, RowsOf(e) \cup rows, n + 1)
      /\ Passed(l, o, f, RowsOf(e) \cup rows, n + 1)
  BY DEF Joins
<1>6. RowsOf(new) = RowsOf(e) \cup rows
  <2>1. RowsOf(new) = UNION {new[i].rows : i \in 1..(n + 1)}
    BY <1>3 DEF RowsOf
  <2>2. ASSUME NEW i \in 1..(n + 1) PROVE new[i].rows \subseteq RowsOf(e) \cup rows
    <3>1. CASE i <= n
      BY <1>3, <1>4, <3>1
    <3>2. CASE ~(i <= n)
      BY <1>2, <1>3, <3>2
    <3> QED BY <3>1, <3>2
  <2>3. ASSUME NEW i \in 1..n PROVE i \in 1..(n + 1) /\ new[i].rows = e[i].rows
    BY <1>3
  <2>4. n + 1 \in 1..(n + 1) /\ new[n + 1].rows = rows
    BY <1>2, <1>3
  <2>5. RowsOf(new) \subseteq RowsOf(e) \cup rows
    BY <2>1, <2>2
  <2>6. ASSUME NEW s \in RowsOf(e) PROVE s \in RowsOf(new)
    <3>1. PICK i \in 1..n : s \in e[i].rows
      BY <1>4
    <3> QED BY <2>1, <2>3, <3>1
  <2>7. rows \subseteq RowsOf(new)
    BY <2>1, <2>4
  <2> QED BY <2>5, <2>6, <2>7
<1>7. ASSUME NEW i \in 1..(n + 1)
      PROVE  new[i].filter = f /\ new[i].page = i /\ new[i].rows \subseteq Finds[f]
  <2>1. CASE i <= n
    BY <1>3, <1>4, <2>1
  <2>2. CASE ~(i <= n)
    <3>1. i = n + 1
      BY <2>2
    <3> QED BY <1>2, <1>3, <1>5, <3>1
  <2> QED BY <2>1, <2>2
<1>8. ASSUME o = {}, NEW i \in 1..(n + 1), NEW j \in 1..(n + 1), i # j
      PROVE  new[i].rows \cap new[j].rows = {}
  <2>1. CASE i <= n /\ j <= n
    BY <1>3, <1>4, <1>8, <2>1
  <2>2. CASE i <= n /\ ~(j <= n)
    <3>1. new[i].rows \subseteq RowsOf(e) /\ new[j].rows = rows
      BY <1>2, <1>3, <1>4, <2>2
    <3> QED BY <1>5, <1>8, <3>1
  <2>3. CASE ~(i <= n) /\ j <= n
    <3>1. new[j].rows \subseteq RowsOf(e) /\ new[i].rows = rows
      BY <1>2, <1>3, <1>4, <2>3
    <3> QED BY <1>5, <1>8, <3>1
  <2>4. i <= n \/ j <= n
    BY <1>8
  <2> QED BY <2>1, <2>2, <2>3, <2>4
<1> QED BY <1>3, <1>5, <1>6, <1>7, <1>8 DEF Settles

\* A slot opens or closes.
LEMMA ListingChanges ==
  ASSUME NEW l \in SUBSET Slot, NEW o, NEW c, NEW l1, NEW o1, NEW c1, NEW x \in Slot,
         \/ l1 = l \cup {x} /\ o1 = o \cup {x} /\ c1 = c
         \/ l1 = l \ {x} /\ o1 = o /\ c1 = c \cup {x},
         NEW f \in Market!Filter, NEW n \in Nat
  PROVE  /\ \A e : Settles(e, f, n, l, o, c) => Settles(e, f, n, l1, o1, c1)
         /\ \A sh, rows, more :
              Joins(l, o, c, f, sh, rows, more, n) => Joins(l1, o1, c1, f, sh, rows, more, n)
         /\ \A sh : Whole(l, o, c, f, sh) => Whole(l1, o1, c1, f, sh)
<1>1. ASSUME NEW sh, NEW m \in Nat
      PROVE  /\ Gapless(l, o, c, f, sh, m) => Gapless(l1, o1, c1, f, sh, m)
             /\ Passed(l, o, f, sh, m) => Passed(l1, o1, f, sh, m)
             /\ Whole(l, o, c, f, sh) => Whole(l1, o1, c1, f, sh)
  <2>1. CASE l1 = l \cup {x} /\ o1 = o \cup {x} /\ c1 = c
    <3>1. /\ Gapless(l, o, c, f, sh, m) => Gapless(l \cup {x}, o \cup {x}, c, f, sh, m)
          /\ Whole(l, o, c, f, sh) => Whole(l \cup {x}, o \cup {x}, c, f, sh)
          /\ Passed(l \cup {x}, o \cup {x}, f, sh, m)
      BY <1>1, OpeningKeeps
    <3> QED BY <2>1, <3>1
  <2>2. CASE l1 = l \ {x} /\ o1 = o /\ c1 = c \cup {x}
    <3>1. /\ Passed(l, o, f, sh, m) => Passed(l \ {x}, o, f, sh, m)
          /\ Gapless(l \ {x}, o, c \cup {x}, f, sh, m)
          /\ Whole(l \ {x}, o, c \cup {x}, f, sh)
      BY <1>1, ClosingKeeps
    <3> QED BY <2>2, <3>1
  <2> QED BY <2>1, <2>2
<1>2. o1 = {} => o = {}
  OBVIOUS
<1>3. n + 1 \in Nat
  OBVIOUS
<1>4. ASSUME NEW e, Settles(e, f, n, l, o, c) PROVE Settles(e, f, n, l1, o1, c1)
  BY <1>1, <1>2, <1>4 DEF Settles
<1>5. ASSUME NEW sh, NEW rows, NEW more, Joins(l, o, c, f, sh, rows, more, n)
      PROVE  Joins(l1, o1, c1, f, sh, rows, more, n)
  BY <1>1, <1>2, <1>3, <1>5 DEF Joins
<1> QED BY <1>1, <1>4, <1>5

PageRequest == [kind: {"page"}, id: Nat, filter: Market!Filter, page: Nat \ {0},
                append: BOOLEAN, answer: {None} \cup [rows: SUBSET Slot, more: BOOLEAN]]

Request(q) == /\ q.id \in 1..pageLoads
              /\ q.kind = "page" => q \in PageRequest

NoText == \A i \in DOMAIN list : list[i] \notin Market!Texts

Settled == Settles(list, filter, page, listing, opened, closed)

\* What a page will be put behind, and how it joins it.
Base(q) == IF q.append THEN list ELSE <<>>

Answered(q) == Joins(listing, opened, closed, filter, RowsOf(Base(q)), q.answer.rows,
                     q.answer.more, Len(Base(q)))

NoPageAsked == \A q \in pagesAsked : q.kind # "page"

\* The one page that is on its way.
Awaited(q) ==
  /\ q.filter = filter
  /\ q.append \/ ~NoText
  /\ q.append /\ NoText => loadMore = q.id
  /\ (q.append => NoText) => q.page = Len(Base(q)) + 1 /\ (q.answer # None => Answered(q))

\* While replies are waited for, at most one page is on its way, for the filters
\* of now; what it will be appended to is settled.
MarketInOrder ==
  /\ typing => pagesAsked = {}
  /\ \A p, q \in pagesAsked : p.kind = "page" /\ q.kind = "page" => p = q
  /\ \A q \in pagesAsked : q.kind # "page" => filter.district = None
  /\ \A q \in pagesAsked : q.kind = "page" => Awaited(q)
  /\ NoText /\ ~typing => Settled
  /\ NoText /\ ~typing /\ NoPageAsked /\ loadMore # Market!Enabled =>
       Whole(listing, opened, closed, filter, RowsOf(list))

MarketInv ==
  /\ Market!TypeOK
  /\ list \in Seq(Entry)
  /\ pageLoads \in Nat
  /\ \A q \in pagesAsked : Request(q)
  /\ ~pagesCrossed => MarketInOrder

LEMMA TextIsEntry ==
  ASSUME NEW t \in {"loading", "error"}
  PROVE  /\ <<Market!Text(t)>> \in Seq(Entry)
         /\ \A i \in DOMAIN <<Market!Text(t)>> : <<Market!Text(t)>>[i] \in Market!Texts
         /\ 1 \in DOMAIN <<Market!Text(t)>>
BY DEF Entry, Market!Text, Market!Texts

LEMMA EntriesType ==
  ASSUME list \in Seq(Entry)
  PROVE  \A i \in DOMAIN list : list[i] \in Market!Texts \cup Market!Rows
BY DEF Entry

LEMMA MarketInit == Market!Init => MarketInv
<1> SUFFICES ASSUME Market!Init PROVE MarketInv
  OBVIOUS
<1>1. /\ filter = [region |-> None, district |-> None, word |-> None] /\ filter \in Market!Filter
      /\ places = {} /\ typing = FALSE /\ page = 1 /\ loadMore = None /\ pageLoads = 1
      /\ pagesCrossed = FALSE /\ list = <<Market!Text("loading")>>
      /\ listing \subseteq Slot /\ opened = {} /\ closed = {}
      /\ pagesAsked = {[kind |-> "page", id |-> 1, filter |-> filter, page |-> 1, append |-> FALSE,
                        answer |-> None]}
  BY DEF Market!Init, Market!Filter
<1>2. list \in Seq(Entry) /\ ~NoText
  BY <1>1, TextIsEntry DEF NoText
<1>3. \A q \in pagesAsked : /\ q.kind = "page" /\ q.id = 1 /\ q.filter = filter
                            /\ ~q.append /\ q.page = 1 /\ q.answer = None
  BY <1>1
<1>4. \A q \in pagesAsked : Request(q)
  <2>1. [kind |-> "page", id |-> 1, filter |-> filter, page |-> 1, append |-> FALSE,
         answer |-> None] \in PageRequest
    BY <1>1 DEF PageRequest
  <2>2. \A q \in pagesAsked : q \in PageRequest
    BY <1>1, <2>1, Zenon
  <2>3. \A q \in pagesAsked : q.id \in 1..pageLoads
    BY <1>1, <1>3
  <2> QED BY <2>2, <2>3 DEF Request
<1>5. Market!TypeOK
  <2>1. typing \in BOOLEAN
    BY <1>1
  <2>2. page \in Nat \ {0}
    BY <1>1
  <2>3. places \subseteq District /\ opened \subseteq Slot /\ closed \subseteq Slot
    BY <1>1
  <2> QED BY <1>1, <1>2, <1>3, <1>4, <2>1, <2>2, <2>3, EntriesType DEF Market!TypeOK
<1>6. MarketInOrder
  <2>1. Len(<<>>) = 0
    OBVIOUS
  <2>2. \A q \in pagesAsked : Awaited(q)
    BY <1>2, <1>3, <2>1 DEF Awaited, Base
  <2>3. \A p, q \in pagesAsked : p = q
    BY <1>1
  <2> QED BY <1>1, <1>2, <1>3, <2>2, <2>3 DEF MarketInOrder
<1> QED BY <1>1, <1>2, <1>4, <1>5, <1>6 DEF MarketInv

\* A load of the first page, with the filters of the new state.
LEMMA FirstPageStep ==
  ASSUME MarketInv, NEW others, Market!FetchPage(1, FALSE, others),
         filter' \in Market!Filter, UNCHANGED <<page, loadMore>>,
         \A q \in others : q.id = pageLoads + 1 /\ q.kind # "page",
         others # {} => filter'.district = None,
         places' = None \/ places' \subseteq District, typing' \in BOOLEAN
  PROVE  MarketInv'
<1> DEFINE n == [kind |-> "page", id |-> pageLoads + 1, filter |-> filter', page |-> 1,
                 append |-> FALSE, answer |-> None]
<1>1. /\ pageLoads' = pageLoads + 1
      /\ pagesAsked' = pagesAsked \cup others \cup {n}
      /\ list' = <<Market!Text("loading")>>
      /\ ~pagesCrossed' => pagesAsked = {} /\ ~typing'
      /\ UNCHANGED <<listing, changes, opened, closed>>
  BY DEF Market!FetchPage, Market!server
<1>2. /\ n.kind = "page" /\ n.id = pageLoads + 1 /\ n.filter = filter' /\ n.page = 1 /\ ~n.append
      /\ n.answer = None
  OBVIOUS
<1>3. PICK m : m = n
  OBVIOUS
<1>4. /\ pagesAsked' = pagesAsked \cup others \cup {m}
      /\ m.kind = "page" /\ m.id = pageLoads + 1 /\ m.filter = filter' /\ m.page = 1 /\ ~m.append
      /\ m.answer = None
  BY <1>1, <1>2, <1>3
<1> HIDE DEF n
<1>5. list' \in Seq(Entry) /\ ~NoText'
  BY <1>1, TextIsEntry DEF NoText
<1>6. \A q \in pagesAsked' : Request(q)'
  <2>1. n \in PageRequest
    BY DEF n, PageRequest, MarketInv
  <2> QED BY <1>1, <1>2, <2>1 DEF MarketInv, Request
<1>7. Market!TypeOK'
  <2>1. \A i \in DOMAIN list' : list'[i] \in Market!Texts \cup Market!Rows
    BY <1>5 DEF Entry
  <2>2. loadMore' = None \/ loadMore' \in 0..pageLoads'
    BY <1>1 DEF MarketInv, Market!TypeOK
  <2> QED BY <1>1, <1>6, <2>1, <2>2 DEF MarketInv, Market!TypeOK, Request
<1>8. ASSUME ~pagesCrossed' PROVE MarketInOrder'
  <2>1. Len(<<>>) = 0
    OBVIOUS
  <2>2. \A q \in pagesAsked' : q.kind = "page" => q = m
    BY <1>1, <1>8, <1>4
  <2>3. Awaited(m)'
    BY <1>5, <1>4, <2>1 DEF Awaited, Base
  <2>4. \A q \in pagesAsked' : q.kind # "page" => filter'.district = None
    BY <1>1, <1>8, <1>4
  <2> QED BY <1>1, <1>5, <1>8, <2>2, <2>3, <2>4 DEF MarketInOrder
<1> QED BY <1>1, <1>5, <1>6, <1>7, <1>8 DEF MarketInv

LEMMA FilterStep ==
  ASSUME MarketInv,
         \/ \E r \in Region \cup {None} : Market!ChangeRegion(r)
         \/ \E d \in District \cup {None} : Market!ChangeDistrict(d)
         \/ \E w \in Word \cup {None} : Market!Type(w)
         \/ Market!DebounceEnds
  PROVE  MarketInv'
<1>1. filter \in Market!Filter
  BY DEF MarketInv, Market!TypeOK
<1>2. ASSUME NEW r \in Region \cup {None}, Market!ChangeRegion(r) PROVE MarketInv'
  <2> DEFINE others == IF r = None THEN {} ELSE
                         {[kind |-> "places", id |-> pageLoads + 1, region |-> r]}
  <2>1. Market!FetchPage(1, FALSE, others) /\ UNCHANGED <<typing, page, loadMore>>
        /\ (places' = {} \/ places' = None)
    BY <1>2 DEF Market!ChangeRegion
  <2>2. filter' \in Market!Filter /\ filter'.district = None
    BY <1>1, <1>2 DEF Market!ChangeRegion, Market!Filter
  <2>3. \A q \in others : q.id = pageLoads + 1 /\ q.kind # "page"
    OBVIOUS
  <2>4. typing' \in BOOLEAN
    BY <2>1 DEF MarketInv, Market!TypeOK
  <2> HIDE DEF others
  <2> QED BY <2>1, <2>2, <2>3, <2>4, FirstPageStep
<1>3. ASSUME NEW d \in District \cup {None}, Market!ChangeDistrict(d) PROVE MarketInv'
  <2>1. Market!FetchPage(1, FALSE, {}) /\ UNCHANGED <<typing, page, loadMore, places>>
    BY <1>3 DEF Market!ChangeDistrict
  <2>2. filter' \in Market!Filter
    BY <1>1, <1>3 DEF Market!ChangeDistrict, Market!Filter
  <2>3. typing' \in BOOLEAN /\ (places' = None \/ places' \subseteq District)
    BY <2>1 DEF MarketInv, Market!TypeOK
  <2>4. PICK others : others = {}
    OBVIOUS
  <2>5. Market!FetchPage(1, FALSE, others)
    BY <2>1, <2>4
  <2>6. (\A q \in others : q.id = pageLoads + 1 /\ q.kind # "page")
        /\ (others # {} => filter'.district = None)
    BY <2>4
  <2> QED BY <2>1, <2>2, <2>3, <2>5, <2>6, FirstPageStep
<1>4. ASSUME NEW w \in Word \cup {None}, Market!Type(w) PROVE MarketInv'
  <2>1. /\ typing' = TRUE /\ pagesCrossed' = (pagesCrossed \/ pagesAsked # {})
        /\ UNCHANGED <<listing, opened, closed>>
        /\ UNCHANGED <<places, page, hasMore, list, loadMore, pagesAsked, pageLoads>>
    BY <1>4 DEF Market!Type, Market!server
  <2>2. filter' \in Market!Filter
    BY <1>1, <1>4 DEF Market!Type, Market!Filter
  <2>3. Market!TypeOK' /\ \A q \in pagesAsked' : Request(q)'
    BY <2>1, <2>2 DEF MarketInv, Market!TypeOK, Request
  <2>4. ASSUME ~pagesCrossed' PROVE MarketInOrder'
    BY <2>1, <2>4 DEF MarketInOrder
  <2> QED BY <2>1, <2>3, <2>4 DEF MarketInv
<1>5. CASE Market!DebounceEnds
  <2>1. Market!FetchPage(1, FALSE, {}) /\ UNCHANGED <<filter, page, loadMore, places>>
        /\ typing' = FALSE
    BY <1>5 DEF Market!DebounceEnds
  <2>2. places' = None \/ places' \subseteq District
    BY <2>1 DEF MarketInv, Market!TypeOK
  <2>3. PICK others : others = {}
    OBVIOUS
  <2>4. Market!FetchPage(1, FALSE, others)
    BY <2>1, <2>3
  <2>5. (\A q \in others : q.id = pageLoads + 1 /\ q.kind # "page")
        /\ (others # {} => filter'.district = None)
    BY <2>3
  <2>6. typing' \in BOOLEAN /\ filter' \in Market!Filter /\ UNCHANGED <<page, loadMore>>
    BY <1>1, <2>1
  <2> QED BY <2>2, <2>4, <2>5, <2>6, FirstPageStep
<1> QED BY <1>2, <1>3, <1>4, <1>5

LEMMA LoadMoreStep ==
  ASSUME MarketInv, Market!LoadMore
  PROVE  MarketInv'
<1> DEFINE n == [kind |-> "page", id |-> pageLoads + 1, filter |-> filter, page |-> page + 1,
                 append |-> TRUE, answer |-> None]
<1>1. /\ pageLoads' = pageLoads + 1 /\ loadMore = Market!Enabled /\ loadMore' = pageLoads + 1
      /\ pagesAsked' = pagesAsked \cup {n}
      /\ UNCHANGED <<filter, places, typing, page, list, listing, opened, closed>>
      /\ pagesCrossed' = (pagesAsked # {} \/ typing \/ pagesCrossed)
  BY DEF Market!LoadMore, Market!FetchPage, Market!server
<1>2. /\ n.kind = "page" /\ n.id = pageLoads + 1 /\ n.filter = filter /\ n.page = page + 1 /\ n.append
      /\ n.answer = None
  OBVIOUS
<1>3. PICK m : m = n
  OBVIOUS
<1> HIDE DEF n
<1>4. \A q \in pagesAsked' : Request(q)'
  <2>1. n \in PageRequest
    BY DEF n, PageRequest, MarketInv, Market!TypeOK
  <2> QED BY <1>1, <1>2, <2>1 DEF MarketInv, Request
<1>5. Market!TypeOK'
  BY <1>1, <1>4 DEF MarketInv, Market!TypeOK, Request
<1>6. ASSUME ~pagesCrossed' PROVE MarketInOrder'
  <2>1. MarketInOrder /\ pagesAsked = {} /\ ~typing
    BY <1>1, <1>6 DEF MarketInv
  <2>2. NoText' = NoText /\ Settled' = Settled
    BY <1>1 DEF NoText, Settled
  <2>3. NoText => page = Len(list)
    BY <2>1 DEF MarketInOrder, Settled, Settles
  <2>4. pagesAsked' = {m} /\ m.filter = filter' /\ m.append /\ m.id = loadMore'
        /\ m.page = page + 1 /\ m.answer = None /\ m.kind = "page"
    BY <1>1, <1>2, <1>3, <2>1
  <2>5. Awaited(m)'
    BY <1>1, <2>2, <2>3, <2>4 DEF Awaited, Base
  <2>6. ~NoPageAsked'
    BY <2>4 DEF NoPageAsked
  <2> QED BY <1>1, <2>1, <2>2, <2>4, <2>5, <2>6 DEF MarketInOrder
<1> QED BY <1>1, <1>4, <1>5, <1>6 DEF MarketInv

\* A page that is awaited goes behind what settles.
LEMMA BaseSettles ==
  ASSUME MarketInv, MarketInOrder, NEW q \in pagesAsked, q.kind = "page", q.append => NoText,
         NEW o, NEW c, q.append => o = opened /\ c = closed
  PROVE  /\ q.filter = filter /\ ~typing /\ Base(q) \in Seq(Entry) /\ Len(Base(q)) \in Nat
         /\ q.page = Len(Base(q)) + 1
         /\ Settles(Base(q), filter, Len(Base(q)), listing, o, c)
<1>1. q.filter = filter /\ ~typing /\ q.page = Len(Base(q)) + 1
  BY DEF MarketInOrder, Awaited
<1>2. filter \in Market!Filter /\ listing \in SUBSET Slot /\ list \in Seq(Entry)
  BY DEF MarketInv, Market!TypeOK
<1>3. CASE q.append
  <2>1. Base(q) = list /\ Settled
    BY <1>1, <1>3 DEF Base, MarketInOrder
  <2>2. Len(list) = page
    BY <2>1 DEF Settled, Settles
  <2> QED BY <1>1, <1>2, <1>3, <2>1, <2>2 DEF Settled
<1>4. CASE ~q.append
  <2>1. Base(q) = <<>>
    BY <1>4 DEF Base
  <2> QED BY <1>1, <1>2, <2>1, NothingSettles
<1> QED BY <1>3, <1>4

LEMMA SearchStep ==
  ASSUME MarketInv, NEW q \in pagesAsked, Market!Search(q)
  PROVE  MarketInv'
<1> DEFINE rows == Market!Results(q.filter, q.page)
           more == Market!More(q.filter, q.page)
           n == [q EXCEPT !.answer = [rows |-> rows, more |-> more]]
<1>1. /\ q.kind = "page" /\ pagesAsked' = (pagesAsked \ {q}) \cup {n}
      /\ opened' = (IF q.append THEN opened ELSE {}) /\ closed' = (IF q.append THEN closed ELSE {})
      /\ UNCHANGED <<listing, filter, places, typing, page, list, loadMore, pageLoads,
                     pagesCrossed>>
  BY DEF Market!Search
<1>2. q \in PageRequest /\ q.id \in 1..pageLoads
  BY <1>1 DEF MarketInv, Request
<1>3. rows \in SUBSET Slot /\ listing \in SUBSET Slot /\ more \in BOOLEAN
  BY DEF Market!Results, Market!Found, Market!More, MarketInv, Market!TypeOK
<1> HIDE DEF rows, more
<1>4. /\ n \in PageRequest /\ n.kind = "page" /\ n.id = q.id /\ n.filter = q.filter
      /\ n.page = q.page /\ n.append = q.append /\ n.answer.rows = rows /\ n.answer.more = more
  BY <1>2, <1>3 DEF PageRequest
<1>5. PICK m : m = n
  OBVIOUS
<1>6. /\ m \in PageRequest /\ m.kind = "page" /\ m.id = q.id /\ m.filter = q.filter
      /\ m.page = q.page /\ m.append = q.append /\ m.answer.rows = rows /\ m.answer.more = more
      /\ pagesAsked' = (pagesAsked \ {q}) \cup {m}
  BY <1>1, <1>4, <1>5
<1> HIDE DEF n
<1>7. \A x \in pagesAsked' : Request(x)'
  BY <1>1, <1>2, <1>6 DEF MarketInv, Request
<1>8. Market!TypeOK'
  <2>1. opened' \subseteq Slot /\ closed' \subseteq Slot
    BY <1>1 DEF MarketInv, Market!TypeOK
  <2> QED BY <1>1, <1>7, <2>1 DEF MarketInv, Market!TypeOK, Request
<1>9. ASSUME ~pagesCrossed' PROVE MarketInOrder'
  <2>1. MarketInOrder /\ Awaited(q) /\ q.filter = filter /\ ~typing
    BY <1>1, <1>9 DEF MarketInv, MarketInOrder, Awaited
  <2>2. NoText' = NoText /\ Base(m)' = Base(q)
    BY <1>1, <1>6 DEF NoText, Base
  <2>3. ASSUME q.append => NoText
        PROVE  m.page = Len(Base(q)) + 1 /\ Answered(m)'
    <3>1. PICK o, c : o = opened' /\ c = closed'
      OBVIOUS
    <3>2. q.append => o = opened /\ c = closed
      BY <1>1, <3>1
    <3>3. /\ Base(q) \in Seq(Entry) /\ Len(Base(q)) \in Nat /\ q.page = Len(Base(q)) + 1
          /\ Settles(Base(q), filter, Len(Base(q)), listing, o, c)
      BY <1>1, <2>1, <2>3, <3>2, BaseSettles
    <3>4. PICK k \in Nat : k = Len(Base(q))
      BY <3>3
    <3>5. PICK sh : sh = RowsOf(Base(q))
      OBVIOUS
    <3>6. Gapless(listing, o, c, filter, sh, k) /\ Passed(listing, o, filter, sh, k)
      BY <3>3, <3>4, <3>5 DEF Settles
    <3>7. /\ rows = {s \in listing \cap Finds[filter] :
                     /\ Market!Position(s, listing \cap Finds[filter]) > k * PageSize
                     /\ Market!Position(s, listing \cap Finds[filter]) <= (k + 1) * PageSize}
          /\ more = ((k + 1) * PageSize < Cardinality(listing \cap Finds[filter]))
      <4>1. q.page = k + 1 /\ (k + 1) - 1 = k
        BY <3>3, <3>4
      <4> QED BY <2>1, <4>1, SameSets DEF rows, more, Market!Results, Market!More, Market!Found
    <3>8. filter \in Market!Filter
      BY DEF MarketInv, Market!TypeOK
    <3>9. Joins(listing, o, c, filter, sh, rows, more, k)
      BY <1>3, <3>6, <3>7, <3>8, NextPageJoins
    <3>10. Answered(m)'
      BY <1>1, <1>6, <2>2, <3>1, <3>4, <3>5, <3>9 DEF Answered
    <3> QED BY <1>6, <3>3, <3>10
  <2>4. Awaited(m)'
    BY <1>1, <1>6, <2>1, <2>2, <2>3 DEF Awaited
  <2>5. \A x \in pagesAsked' : x.kind = "page" => x = m
    BY <1>1, <1>6, <2>1 DEF MarketInOrder
  <2>6. \A x \in pagesAsked' : x.kind # "page" => filter'.district = None
    BY <1>1, <1>6, <2>1 DEF MarketInOrder
  <2>7. NoText' => Settled'
    <3>1. CASE q.append
      BY <1>1, <2>1, <2>2, <3>1 DEF MarketInOrder, Settled
    <3>2. CASE ~q.append
      BY <2>1, <2>2, <3>2 DEF Awaited
    <3> QED BY <3>1, <3>2
  <2>8. ~NoPageAsked'
    BY <1>6 DEF NoPageAsked
  <2>9. ~typing'
    BY <1>1, <2>1
  <2> QED BY <2>4, <2>5, <2>6, <2>7, <2>8, <2>9 DEF MarketInOrder
<1> QED BY <1>1, <1>7, <1>8, <1>9 DEF MarketInv

LEMMA PageArrivesStep ==
  ASSUME MarketInv, NEW q \in pagesAsked, Market!PageArrives(q)
  PROVE  MarketInv'
<1>1. /\ pagesAsked' = pagesAsked \ {q} /\ page' = q.page /\ q.kind = "page"
      /\ q.answer # None
      /\ list' = Append(Base(q), Market!PageOf(q.filter, q.page, q.answer.rows))
      /\ UNCHANGED <<listing, opened, closed>>
      /\ UNCHANGED <<filter, places, typing, pageLoads, pagesCrossed>>
      /\ loadMore' = IF q.answer.more THEN Market!Enabled ELSE None
  BY DEF Market!PageArrives, Market!server, Base
<1>2. q \in PageRequest /\ Base(q) \in Seq(Entry)
  <2>1. <<>> \in Seq(Entry)
    OBVIOUS
  <2> QED BY <1>1, <2>1 DEF MarketInv, Request, Base
<1>3. q.filter \in Market!Filter /\ q.page \in Nat \ {0} /\ q.answer.rows \in SUBSET Slot
  BY <1>1, <1>2 DEF PageRequest
<1>4. PICK p : p = Market!PageOf(q.filter, q.page, q.answer.rows)
  OBVIOUS
<1>5. p \in Entry
  BY <1>3, <1>4 DEF Market!PageOf, Entry, Market!Rows
<1>6. /\ list' \in Seq(Entry) /\ Len(list') = Len(Base(q)) + 1
      /\ \A i \in 1..Len(Base(q)) : list'[i] = Base(q)[i]
  BY <1>1, <1>2, <1>4, <1>5, AppendProperties
<1>7. Market!TypeOK' /\ \A x \in pagesAsked' : Request(x)'
  <2>1. \A i \in DOMAIN list' : list'[i] \in Market!Texts \cup Market!Rows
    BY <1>6 DEF Entry
  <2>2. loadMore' = None \/ loadMore' \in 0..pageLoads'
    BY <1>1 DEF Market!Enabled, MarketInv
  <2> QED BY <1>1, <1>3, <2>1, <2>2 DEF MarketInv, Market!TypeOK, Request
<1>8. ASSUME ~pagesCrossed' PROVE MarketInOrder'
  <2>1. MarketInOrder /\ Awaited(q) /\ q.filter = filter /\ ~typing
    BY <1>1, <1>8 DEF MarketInv, MarketInOrder, Awaited
  <2>2. \A x \in pagesAsked' : x \in pagesAsked /\ x.kind # "page"
    BY <1>1, <2>1 DEF MarketInOrder
  <2>3. q.append /\ NoText' => NoText
    <3>1. ASSUME q.append, NoText', NEW i \in DOMAIN list PROVE list[i] \notin Market!Texts
      <4>1. Base(q) = list /\ list \in Seq(Entry) /\ i \in 1..Len(list)
        BY <3>1 DEF Base, MarketInv
      <4>2. i \in DOMAIN list' /\ list'[i] = list[i]
        BY <1>6, <4>1
      <4> QED BY <3>1, <4>2 DEF NoText
    <3> QED BY <3>1 DEF NoText
  <2>4. ASSUME NoText'
        PROVE  /\ Settles(list', filter, page', listing, opened, closed)
               /\ ~q.answer.more => Whole(listing, opened, closed, filter, RowsOf(list'))
    <3>1. q.append => NoText
      BY <2>3, <2>4
    <3>2. /\ Len(Base(q)) \in Nat /\ q.page = Len(Base(q)) + 1
          /\ Settles(Base(q), filter, Len(Base(q)), listing, opened, closed)
      BY <1>1, <2>1, <3>1, BaseSettles
    <3>3. PICK k \in Nat : k = Len(Base(q))
      BY <3>2
    <3>4. PICK e \in Seq(Entry) : e = Base(q)
      BY <1>2
    <3>5. PICK rows \in SUBSET Slot : rows = q.answer.rows
      BY <1>3
    <3>6. PICK more : more = q.answer.more
      OBVIOUS
    <3>7. PICK new : new = list'
      OBVIOUS
    <3>8. Joins(listing, opened, closed, filter, RowsOf(e), rows, more, k)
      BY <1>1, <2>1, <3>1, <3>3, <3>4, <3>5, <3>6 DEF Awaited, Answered
    <3>9. new = Append(e, Market!PageOf(filter, k + 1, rows)) /\ filter \in Market!Filter
      BY <1>1, <1>3, <2>1, <3>2, <3>3, <3>4, <3>5, <3>7
    <3>10. Settles(e, filter, k, listing, opened, closed)
      BY <3>2, <3>3, <3>4
    <3>11. /\ Settles(new, filter, k + 1, listing, opened, closed)
           /\ RowsOf(new) = RowsOf(e) \cup rows
      <4>1. PICK f \in Market!Filter : f = filter
        BY <3>9
      <4>2. PICK l, o, c : l = listing /\ o = opened /\ c = closed
        OBVIOUS
      <4>3. Joins(l, o, c, f, RowsOf(e), rows, more, k) /\ Settles(e, f, k, l, o, c)
        BY <3>8, <3>10, <4>1, <4>2
      <4>4. new = Append(e, Market!PageOf(f, k + 1, rows))
        BY <3>9, <4>1
      <4>5. Joined(new, e, f, k, l, o, c, rows, more)
        BY <4>3, <4>4 DEF Joined
      <4>6. Settles(new, f, k + 1, l, o, c) /\ RowsOf(new) = RowsOf(e) \cup rows
        BY <4>5, JoinedSettles
      <4> QED BY <4>1, <4>6, <4>2
    <3>12. ~more => Whole(listing, opened, closed, filter, RowsOf(new))
      BY <3>8, <3>11 DEF Joins
    <3> QED BY <1>1, <3>2, <3>3, <3>6, <3>7, <3>11, <3>12
  <2>5. NoText' => Settled'
    BY <1>1, <2>4 DEF Settled
  <2>6. NoText' /\ loadMore' # Market!Enabled =>
          Whole(listing, opened, closed, filter, RowsOf(list))'
    BY <1>1, <2>4
  <2>7. ~typing'
    BY <1>1, <2>1
  <2>8. \A x \in pagesAsked' : x.kind # "page" => filter'.district = None
    BY <1>1, <2>1 DEF MarketInOrder
  <2> QED BY <2>2, <2>5, <2>6, <2>7, <2>8 DEF MarketInOrder
<1> QED BY <1>1, <1>6, <1>7, <1>8 DEF MarketInv

LEMMA PageFailsStep ==
  ASSUME MarketInv, NEW q \in pagesAsked, Market!PageFails(q)
  PROVE  MarketInv'
<1>1. /\ pagesAsked' = pagesAsked \ {q} /\ q.kind = "page"
      /\ list' = (IF q.append THEN list ELSE <<Market!Text("error")>>)
      /\ loadMore' = (IF loadMore = q.id THEN Market!Enabled ELSE loadMore)
      /\ UNCHANGED <<listing, opened, closed>>
      /\ UNCHANGED <<filter, places, typing, page, hasMore, pageLoads, pagesCrossed>>
  BY DEF Market!PageFails, Market!server
<1>2. list' \in Seq(Entry)
  BY <1>1, TextIsEntry DEF MarketInv
<1>3. Market!TypeOK' /\ \A x \in pagesAsked' : Request(x)'
  <2>1. \A i \in DOMAIN list' : list'[i] \in Market!Texts \cup Market!Rows
    BY <1>2 DEF Entry
  <2>2. loadMore' = None \/ loadMore' \in 0..pageLoads'
    BY <1>1 DEF Market!Enabled, MarketInv, Market!TypeOK
  <2> QED BY <1>1, <2>1, <2>2 DEF MarketInv, Market!TypeOK, Request
<1>4. ASSUME ~pagesCrossed' PROVE MarketInOrder'
  <2>1. MarketInOrder /\ Awaited(q) /\ ~typing /\ ~typing'
    BY <1>1, <1>4 DEF MarketInv, MarketInOrder
  <2>2. \A x \in pagesAsked' : x \in pagesAsked /\ x.kind # "page"
    BY <1>1, <2>1 DEF MarketInOrder
  <2>3. CASE ~q.append
    <3>1. ~NoText'
      BY <1>1, <2>3, TextIsEntry DEF NoText
    <3> QED BY <1>1, <2>1, <2>2, <3>1 DEF MarketInOrder
  <2>4. CASE q.append
    <3>1. list' = list /\ NoText' = NoText /\ Settled' = Settled
      BY <1>1, <2>4 DEF NoText, Settled
    <3>2. NoText => loadMore' = Market!Enabled
      BY <1>1, <2>1, <2>4 DEF Awaited
    <3> QED BY <1>1, <2>1, <2>2, <3>1, <3>2 DEF MarketInOrder
  <2> QED BY <2>3, <2>4
<1> QED BY <1>1, <1>2, <1>3, <1>4 DEF MarketInv

\* What does not concern the list: a reply with places, or a stutter.
LEMMA PagesStay ==
  ASSUME MarketInOrder, pagesAsked' \subseteq pagesAsked,
         \A q \in pagesAsked : q.kind = "page" => q \in pagesAsked',
         UNCHANGED <<listing, opened, closed, filter, typing, page, list, loadMore>>
  PROVE  MarketInOrder'
<1>1. NoText' = NoText /\ Settled' = Settled /\ NoPageAsked' = NoPageAsked
  BY DEF NoText, Settled, NoPageAsked
<1>2. \A q : Awaited(q) => Awaited(q)'
  BY <1>1 DEF Awaited, Answered, Base
<1>3. /\ typing' => pagesAsked' = {}
      /\ \A p, q \in pagesAsked' : p.kind = "page" /\ q.kind = "page" => p = q
      /\ \A q \in pagesAsked' : q.kind # "page" => filter'.district = None
  BY DEF MarketInOrder
<1>4. NoText' /\ ~typing' => Settled'
  BY <1>1 DEF MarketInOrder
<1>5. NoText' /\ ~typing' /\ NoPageAsked' /\ loadMore' # Market!Enabled =>
        Whole(listing, opened, closed, filter, RowsOf(list))'
  BY <1>1 DEF MarketInOrder
<1>6. \A q \in pagesAsked' : q.kind = "page" => Awaited(q)'
  BY <1>2 DEF MarketInOrder
<1> QED BY <1>3, <1>4, <1>5, <1>6 DEF MarketInOrder

LEMMA PlacesStep ==
  ASSUME MarketInv, NEW q \in pagesAsked, Market!PlacesArrive(q) \/ Market!PlacesFail(q)
  PROVE  MarketInv'
<1>1. /\ pagesAsked' = pagesAsked \ {q} /\ q.kind = "places"
      /\ filter' = [filter EXCEPT !.district = None]
      /\ UNCHANGED <<listing, opened, closed>>
      /\ UNCHANGED <<typing, page, hasMore, list, loadMore, pageLoads, pagesCrossed>>
      /\ (places' = None \/ places' \subseteq District)
  BY DEF Market!PlacesArrive, Market!PlacesFail, Market!server
<1>2. filter \in Market!Filter /\ filter' \in Market!Filter
  BY <1>1 DEF MarketInv, Market!TypeOK, Market!Filter
<1>3. Market!TypeOK' /\ \A x \in pagesAsked' : Request(x)'
  BY <1>1, <1>2 DEF MarketInv, Market!TypeOK, Request
<1>4. ASSUME ~pagesCrossed' PROVE MarketInOrder'
  <2>1. MarketInOrder /\ filter.district = None
    BY <1>1, <1>4 DEF MarketInv, MarketInOrder
  <2>2. filter' = filter
    BY <1>1, <1>2, <2>1 DEF Market!Filter
  <2>3. \A x \in pagesAsked : x.kind = "page" => x \in pagesAsked'
    BY <1>1
  <2> QED BY <1>1, <2>1, <2>2, <2>3, PagesStay
<1> QED BY <1>1, <1>3, <1>4 DEF MarketInv

LEMMA ListingStep ==
  ASSUME MarketInv, NEW s \in Slot, Market!SlotOpens(s) \/ Market!SlotCloses(s)
  PROVE  MarketInv'
<1>1. /\ \/ listing' = listing \cup {s} /\ opened' = opened \cup {s} /\ closed' = closed
         \/ listing' = listing \ {s} /\ opened' = opened /\ closed' = closed \cup {s}
      /\ UNCHANGED <<filter, places, typing, page, hasMore, list, loadMore, pagesAsked,
                     pageLoads, pagesCrossed>>
  BY DEF Market!SlotOpens, Market!SlotCloses, Market!script
<1>2. Market!TypeOK' /\ \A q \in pagesAsked' : Request(q)'
  <2>1. listing' \subseteq Slot /\ opened' \subseteq Slot /\ closed' \subseteq Slot
    BY <1>1 DEF MarketInv, Market!TypeOK
  <2> QED BY <1>1, <2>1 DEF MarketInv, Market!TypeOK, Request
<1>3. ASSUME ~pagesCrossed' PROVE MarketInOrder'
  <2>1. MarketInOrder /\ list \in Seq(Entry) /\ page \in Nat
    BY <1>1, <1>3 DEF MarketInv, Market!TypeOK
  <2>2. PICK l1, o1, c1 : l1 = listing' /\ o1 = opened' /\ c1 = closed'
    OBVIOUS
  <2>3. \/ l1 = listing \cup {s} /\ o1 = opened \cup {s} /\ c1 = closed
        \/ l1 = listing \ {s} /\ o1 = opened /\ c1 = closed \cup {s}
    BY <1>1, <2>2
  <2>4. listing \in SUBSET Slot /\ filter \in Market!Filter
    BY DEF MarketInv, Market!TypeOK
  <2>5. ASSUME NEW n \in Nat
        PROVE  /\ \A e : Settles(e, filter, n, listing, opened, closed) =>
                        Settles(e, filter, n, l1, o1, c1)
               /\ \A sh, rows, more :
                    Joins(listing, opened, closed, filter, sh, rows, more, n) =>
                    Joins(l1, o1, c1, filter, sh, rows, more, n)
               /\ \A sh : Whole(listing, opened, closed, filter, sh) =>
                         Whole(l1, o1, c1, filter, sh)
    BY <2>3, <2>4, ListingChanges
  <2>6. NoText' = NoText /\ NoPageAsked' = NoPageAsked
    BY <1>1 DEF NoText, NoPageAsked
  <2>7. Settled => Settled'
    BY <1>1, <2>1, <2>2, <2>5 DEF Settled
  <2>8. ASSUME NEW q, Awaited(q) PROVE Awaited(q)'
    <3>1. Base(q)' = Base(q) /\ Len(Base(q)) \in Nat
      BY <1>1, <2>1 DEF Base
    <3>2. Answered(q) => Answered(q)'
      BY <1>1, <2>2, <2>5, <3>1 DEF Answered
    <3> QED BY <1>1, <2>6, <2>8, <3>1, <3>2 DEF Awaited
  <2>9. Whole(listing, opened, closed, filter, RowsOf(list)) =>
          Whole(listing, opened, closed, filter, RowsOf(list))'
    BY <1>1, <2>2, <2>5
  <2>10. NoText' /\ ~typing' => Settled'
    BY <1>1, <2>1, <2>6, <2>7 DEF MarketInOrder
  <2>11. NoText' /\ ~typing' /\ NoPageAsked' /\ loadMore' # Market!Enabled =>
           Whole(listing, opened, closed, filter, RowsOf(list))'
    BY <1>1, <2>1, <2>6, <2>9 DEF MarketInOrder
  <2>12. \A q \in pagesAsked' : q.kind = "page" => Awaited(q)'
    BY <1>1, <2>1, <2>8 DEF MarketInOrder
  <2>13. /\ typing' => pagesAsked' = {}
         /\ \A p, q \in pagesAsked' : p.kind = "page" /\ q.kind = "page" => p = q
         /\ \A q \in pagesAsked' : q.kind # "page" => filter'.district = None
    BY <1>1, <2>1 DEF MarketInOrder
  <2> QED BY <2>10, <2>11, <2>12, <2>13 DEF MarketInOrder
<1> QED BY <1>1, <1>2, <1>3 DEF MarketInv

LEMMA MarketNextStep == MarketInv /\ Market!Next => MarketInv'
<1> SUFFICES ASSUME MarketInv, Market!Next PROVE MarketInv'
  OBVIOUS
<1>1. CASE Market!Reply
  BY <1>1, SearchStep, PageArrivesStep, PageFailsStep, PlacesStep DEF Market!Reply
<1> QED BY <1>1, ListingStep, FilterStep, LoadMoreStep DEF Market!Next

LEMMA MarketStays == MarketInv /\ UNCHANGED marketVars => MarketInv'
<1> SUFFICES ASSUME MarketInv, UNCHANGED marketVars PROVE MarketInv'
  OBVIOUS
<1>1. Market!TypeOK' /\ \A q \in pagesAsked' : Request(q)'
  BY DEF MarketInv, marketVars, Market!TypeOK, Request
<1>2. ~pagesCrossed => MarketInOrder'
  BY PagesStay DEF MarketInv, marketVars
<1> QED BY <1>1, <1>2 DEF MarketInv, marketVars

-----------------------------------------------------------------------------
(* Theorems                                                                *)

BrowserInv == PayInv /\ FormInv /\ MarketInv

LEMMA BrowserStep == BrowserInv /\ [Next]_vars => BrowserInv'
<1> SUFFICES ASSUME BrowserInv, [Next]_vars PROVE BrowserInv'
  OBVIOUS
<1>1. CASE FormStep
  BY <1>1, FormNextStep, MarketStays, PayStays DEF FormStep, BrowserInv
<1>2. CASE MarketStep
  BY <1>2, FormStays, MarketNextStep, PayStays DEF MarketStep, BrowserInv
<1>3. CASE PayStep
  BY <1>3, FormStays, MarketStays, PayNextStep DEF PayStep, BrowserInv
<1>4. CASE UNCHANGED vars
  BY <1>4, FormStays, MarketStays, PayStays DEF vars, BrowserInv
<1> QED BY <1>1, <1>2, <1>3, <1>4 DEF Next

LEMMA BrowserAlways == Spec => []BrowserInv
<1>1. Init => BrowserInv
  BY PayInit, FormInit, MarketInit DEF Init, BrowserInv
<1> QED BY <1>1, BrowserStep, PTL DEF Spec

\* Selects, lists, requests and loops of polling always are of the kinds the
\* scripts make.
THEOREM BrowserTypeCorrect == Spec => []TypeOK
<1>1. BrowserInv => TypeOK
  BY DEF BrowserInv, PayInv, FormInv, MarketInv, TypeOK
<1> QED BY <1>1, BrowserAlways, PTL

\* For any tree of places: selects that can be used agree as long as every reply
\* was waited for, and a place that was saved is one.
THEOREM SelectsAgree == Spec => []PlacesAgree
<1>1. BrowserInv => PlacesAgree
  BY DEF BrowserInv, FormInv, FormInOrder, PlacesAgree, Form!PlacesAgree
<1> QED BY <1>1, BrowserAlways, PTL

\* For any filters, any slots that open and close between two requests, and any
\* size of a page: a list whose replies were waited for shows its pages in order,
\* no slot twice unless one opened, none missing at its end unless one closed.
THEOREM ListsAreComplete == Spec => []ListIsComplete
<1>1. BrowserInv => ListIsComplete
  <2> SUFFICES ASSUME BrowserInv, ~pagesCrossed, ~typing, pagesAsked = {}, NoText
               PROVE  /\ \A i \in DOMAIN list : /\ list[i].filter = filter /\ list[i].page = i
                                                /\ list[i].rows \subseteq Finds[filter]
                      /\ opened = {} => \A i, j \in DOMAIN list :
                                           i # j => list[i].rows \cap list[j].rows = {}
                      /\ closed = {} /\ loadMore # Market!Enabled =>
                           Market!Found(filter) \ opened \subseteq Market!Shown
    BY DEF ListIsComplete, Market!ListIsComplete, NoText
  <2>1. MarketInOrder /\ DOMAIN list = 1..Len(list)
    BY DEF BrowserInv, MarketInv
  <2>2. Settled /\ NoPageAsked
    BY <2>1 DEF MarketInOrder, NoPageAsked
  <2>3. loadMore # Market!Enabled => Whole(listing, opened, closed, filter, RowsOf(list))
    BY <2>1, <2>2 DEF MarketInOrder
  <2>4. RowsOf(list) = Market!Shown
    BY <2>1 DEF RowsOf, Market!Shown
  <2>5. closed = {} /\ loadMore # Market!Enabled =>
          Market!Found(filter) \ opened \subseteq Market!Shown
    BY <2>3, <2>4 DEF Whole, Market!Found
  <2> QED BY <2>1, <2>2, <2>5 DEF Settled, Settles
<1> QED BY <1>1, BrowserAlways, PTL

\* For any number of attempts and of clicks: one prompt at a time, and what the
\* page reports as paid is paid unless a prompt it gave up for lost undid it.
THEOREM OnePromptAtATime == Spec => []OnePrompt
<1>1. BrowserInv => OnePrompt
  BY DEF BrowserInv, PayInv, OnePrompt, Pay!OnePrompt, Overtaken
<1> QED BY <1>1, BrowserAlways, PTL
=============================================================================
