------------------------------- MODULE Browser -------------------------------
(***************************************************************************)
(* A tab of the browser with the page that is open in it: the form of a    *)
(* profile, the marketplace or a payment.  The pages share no state; what  *)
(* they have in common is that every reply ends the wait it was asked for. *)
(***************************************************************************)
EXTENDS Naturals, Sequences

CONSTANTS Region, District, Ward, RegionOf, DistrictOf, Word, Slot, Finds, PageSize,
          MaxPlaceLoads, MaxPageLoads, MaxChanges, MaxAttempts, MaxClicks, None

VARIABLES open,
          region, district, ward, placesAsked, placeLoads, saved, placesCrossed,
          listing, changes, filter, places, typing, page, hasMore, list, loadMore,
          pagesAsked, pageLoads, pagesCrossed, opened, closed,
          payment, button, clicks, prompts, pollers, message

Form == INSTANCE LocationCascade WITH
  MaxLoads <- MaxPlaceLoads, asked <- placesAsked, loads <- placeLoads,
  crossed <- placesCrossed
Market == INSTANCE Marketplace WITH
  MaxLoads <- MaxPageLoads, asked <- pagesAsked, loads <- pageLoads,
  crossed <- pagesCrossed, button <- loadMore
Pay == INSTANCE PaymentPage

ASSUME BrowserAssumption == /\ Form!CascadeAssumption
                            /\ Market!MarketplaceAssumption
                            /\ Pay!PageAssumption

formVars == <<region, district, ward, placesAsked, placeLoads, saved, placesCrossed>>
marketVars == <<listing, changes, filter, places, typing, page, hasMore, list, loadMore,
                pagesAsked, pageLoads, pagesCrossed, opened, closed>>
payVars == <<payment, button, clicks, prompts, pollers, message>>
vars == <<open, formVars, marketVars, payVars>>

\* The pages that are not open are as they would be opened first.
Init == /\ open \in {"form", "market", "payment"}
        /\ Form!Init /\ (open # "form" => region = None)
        /\ Market!Init /\ (open # "market" => listing = {})
        /\ Pay!Init /\ (open # "payment" => payment = "PENDING")

FormStep == /\ open = "form"
            /\ Form!Next
            /\ UNCHANGED <<open, marketVars, payVars>>

MarketStep == /\ open = "market"
              /\ Market!Next
              /\ UNCHANGED <<open, formVars, payVars>>

PayStep == /\ open = "payment"
           /\ Pay!Next
           /\ UNCHANGED <<open, formVars, marketVars>>

Next == FormStep \/ MarketStep \/ PayStep

\* What goes on by itself: a request is answered or fails, a timer runs out.
\* The user and the payment gateway owe nothing.
Fairness == /\ WF_vars(FormStep /\ Form!Reply)
            /\ WF_vars(MarketStep /\ Market!Reply)
            /\ WF_vars(PayStep /\ Pay!Step)

Spec == Init /\ [][Next]_vars /\ Fairness

TypeOK == Form!TypeOK /\ Market!TypeOK /\ Pay!TypeOK

PlacesAgree == Form!PlacesAgree
ListIsComplete == Market!ListIsComplete
OnePrompt == Pay!OnePrompt

\* No page waits for ever: a select leaves its "Loading" placeholder, the list
\* its "Loading" text and "Load more" the request it waits for, and after a click
\* the page has reported the payment or enables its button again.
WaitingEnds ==
  /\ (district.state = "loading") ~> (district.state # "loading")
  /\ (ward.state = "loading") ~> (ward.state # "loading")
  /\ (open = "market" /\ list = <<Market!Text("loading")>>)
       ~> (list # <<Market!Text("loading")>>)
  /\ (loadMore \notin {None, Market!Enabled}) ~> (loadMore \in {None, Market!Enabled})
  /\ ~button ~> (button \/ message = "paid")
=============================================================================
