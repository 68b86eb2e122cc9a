---------------------------- MODULE PlacementRaces ----------------------------
(***************************************************************************)
(* Placement with two history variables, for what concurrent requests and  *)
(* deaths can do to an application that is paid for: which jobs were under *)
(* way when it was decided, and which applications such a job has written. *)
(* The steps are those of Placement.                                       *)
(***************************************************************************)
EXTENDS Placement

VARIABLES
  behind, \* pairs of a worker and an application that was decided during its job
  harmed  \* applications written by a worker that was behind, or left half paid

raceVars == <<vars, behind, harmed>>

Becomes(old, new, values) == new # old /\ new \in values

\* A step that verifies the payment of a, makes a PAID or CANCELLED, accepts it or
\* deletes its row.
Decided(a) ==
  \/ Becomes(payment[a].status, payment'[a].status, {"PAID"})
  \/ Becomes(application[a].status, application'[a].status, {"PAID", "CANCELLED", "NONE"})
  \/ Becomes(application[a].is_accepted, application'[a].is_accepted, {TRUE})

\* A job that goes on with a, alone or among others.
WorksOn(j, a) == \/ "app" \in DOMAIN j /\ j.app = a
                 \/ "ids" \in DOMAIN j /\ a \in j.ids

\* The worker that takes the step.
Acts(w) == job'[w] # job[w]

Written(a) == application'[a] # application[a] \/ payment'[a] # payment[a]

\* The worker dies between the payment it has verified and the application.
LeavesHalfPaid(w, a) == /\ crashes' # crashes /\ Acts(w)
                        /\ At(w, "paid_application") /\ job[w].app = a

Remember ==
  /\ behind' = {x \in Workers \X App :
                  /\ WorksOn(job'[x[1]], x[2])
                  /\ x \in behind \/ (Decided(x[2]) /\ ~Acts(x[1]))}
  /\ harmed' = harmed \cup
       {a \in App : \E w \in Workers : \/ Acts(w) /\ <<w, a>> \in behind /\ Written(a)
                                       \/ LeavesHalfPaid(w, a)}

RaceInit == Init /\ behind = {} /\ harmed = {}
RaceNext == Next /\ Remember
RaceSpec == RaceInit /\ [][RaceNext]_raceVars

RaceTypeOK == TypeOK /\ behind \subseteq Workers \X App /\ harmed \subseteq App

\* Somebody is about to make a PAID.
Owed(a) == \E w \in Workers : At(w, "paid_application") /\ job[w].app = a

\* A verified payment and the place it buys are lost in two ways only, whatever
\* runs beside whatever: to a request that was under way when the application was
\* paid, cancelled, accepted or deleted, and saves what it read before, and to a
\* death between mark_paid and the save of the application.  Otherwise the payment
\* stays PAID and the application is PAID, about to be, or cancelled and was never
\* accepted.
PaidPlaceStands ==
  \A a \in App \ harmed : payment[a].is_paid =>
    /\ payment[a].status = "PAID"
    /\ \/ application[a].status = "PAID"
       \/ application[a].status = "CANCELLED" /\ ~application[a].is_accepted
       \/ Owed(a)
=============================================================================
