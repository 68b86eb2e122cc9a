------------------------------ MODULE Placement ------------------------------
(***************************************************************************)
(* Seats, applications, payments and cancellation credits of the placement *)
(* system, at the grain at which the database sees them.                   *)
(*                                                                         *)
(* ATOMIC_REQUESTS is off, so every ORM statement of a view or task        *)
(* commits on its own; only create_application opens a transaction and     *)
(* locks the slot row.  A worker runs one request or task at a time, and   *)
(* one step of the model is one committing statement with the reads that   *)
(* lead up to it.  What a handler read earlier stays in job[w]: instances  *)
(* are not reloaded, so a later save() writes back what was true then.     *)
(* With one worker the steps of different requests never interleave and    *)
(* the model is the serial system; with two it shows the races.            *)
(*                                                                         *)
(* Outside this module: the verification of students and companies (every  *)
(* requester here has passed those gates), rate limits, notifications, the *)
(* integrity ledger, the listing cache and the FastAPI callback.           *)
(***************************************************************************)
EXTENDS Integers, FiniteSets

CONSTANTS
  Students,    \* student profiles
  Slots,       \* slot ids a company may ever create
  Workers,     \* web and Celery worker processes
  Capacities,  \* capacities the slot form may be submitted with
  Ops,         \* the requests and tasks that arrive in this instance
  MaxCrashes   \* how many workers may die in the middle of a job

AllOps == {"apply", "cancel", "initiate", "webhook", "expire", "accept",
           "toggle", "edit", "delete", "profile"}

ASSUME PlacementAssumption ==
  /\ IsFiniteSet(Students)
  /\ Capacities \subseteq Nat
  /\ Ops \subseteq AllOps
  /\ MaxCrashes \in Nat

VARIABLES
  application, \* applications_application, one row per (student, slot) at most
  payment,     \* payments_payment, one-to-one with its application
  slot,        \* slots_slot: status and capacity
  credit,      \* StudentProfile.reapplication_credit
  tasks,       \* slots whose refresh_status task waits in the broker
  gateway,     \* per payment reference: what the wallet gateway holds
  job,         \* what each worker is doing, with the values it has read
  crashes,     \* number of workers that died in mid-job so far
  stray        \* history: applications whose seat no reservation gave them

vars == <<application, payment, slot, credit, tasks, gateway, job, crashes,
          stray>>

-----------------------------------------------------------------------------
(* Rows                                                                    *)

App == Students \X Slots        \* uniq_student_slot_application
StudentOf(a) == a[1]
SlotOf(a) == a[2]

ApplicationStatus == {"NONE", "PENDING", "PAID", "UNPAID", "CANCELLED"}
Deadline == {"none", "running", "passed"}
ApplicationRow == [status: ApplicationStatus, can_cancel: BOOLEAN,
                   deadline: Deadline, is_accepted: BOOLEAN]
NoApplication == [status |-> "NONE", can_cancel |-> TRUE,
                  deadline |-> "none", is_accepted |-> FALSE]

\* is_paid and paid_at are written together, so is_paid stands for both;
\* window: the 24 hours after paid_at; via: gateway_txn_id is the credit marker.
PaymentStatus == {"NONE", "PENDING", "PAID", "FAILED"}
PaymentRow == [status: PaymentStatus, is_paid: BOOLEAN, window: BOOLEAN,
               via: {"gateway", "credit"}]
NoPayment == [status |-> "NONE", is_paid |-> FALSE, window |-> FALSE,
              via |-> "gateway"]
NewPayment == [NoPayment EXCEPT !.status = "PENDING"]
CreditedPayment == [status |-> "PAID", is_paid |-> TRUE, window |-> TRUE,
                    via |-> "credit"]

SlotStatus == {"ABSENT", "OPEN", "FULL", "PAUSED", "CLOSED", "DELETED"}
SlotRow == [status: SlotStatus, capacity: Nat]

SlotExists(l) == slot[l].status \notin {"ABSENT", "DELETED"}
Applied(a) == application[a].status # "NONE"
HasPayment(a) == payment[a].status # "NONE"

\* Slot.booked_count and Slot.is_full: a pending application holds a seat.
Booked(l) ==
  {a \in App : SlotOf(a) = l /\ application[a].status \in {"PENDING", "PAID"}}
IsFull(l, capacity) == Cardinality(Booked(l)) >= capacity

\* Application.is_paid
IsPaid(a) == application[a].status = "PAID" \/ payment[a].is_paid

-----------------------------------------------------------------------------
(* Workers                                                                 *)

\* Steps that only carry the application they work on.
AppSteps == {"credit_payment", "spend_credit", "find_payment",
             "create_payment", "reset_payment", "initiate", "push",
             "mark_paid", "paid_application", "fail_payment",
             "fail_application", "read_slot", "accept"}

Job ==
  [pc: {"idle"}]
  \cup [pc: {"lock_slot"}, app: App, credit: BOOLEAN]
  \cup [pc: {"reserve"}, app: App, credit: BOOLEAN, row: ApplicationRow]
  \cup [pc: {"letter"}, app: App, credit: BOOLEAN,
        status: ApplicationStatus, can_cancel: BOOLEAN]
  \cup [pc: AppSteps, app: App]
  \cup [pc: {"cancel"}, app: App, seen: SlotRow]
  \cup [pc: {"refresh"}, slot: Slots, seen: SlotRow, grants: SUBSET Students]
  \cup [pc: {"refresh_save"}, slot: Slots, status: SlotStatus,
        grants: SUBSET Students]
  \cup [pc: {"grant"}, grants: SUBSET Students]
  \cup [pc: {"expire", "expire_payments"}, ids: SUBSET App]
  \cup [pc: {"queue_refresh"}, slots: SUBSET Slots]
  \cup [pc: {"toggle"}, slot: Slots, status: SlotStatus]
  \cup [pc: {"edit"}, slot: Slots, status: SlotStatus, capacity: Nat]
  \cup [pc: {"profile"}, student: Students, credit: BOOLEAN]

Idle == [pc |-> "idle"]

\* A step that reads and decides, and writes nothing.
OnlyJob == UNCHANGED <<application, payment, slot, credit, tasks, gateway,
                       crashes, stray>>

At(w, step) == job[w].pc = step
Go(w, next) == job' = [job EXCEPT ![w] = next]
Done(w) == Go(w, Idle)
Start(w, op, next) == op \in Ops /\ job[w] = Idle /\ Go(w, next)

\* Mutant of Locked: the slot is read without select_for_update.
NeverLocked(l) == FALSE

\* A transaction of create_application holds the slot row (SELECT FOR UPDATE)
\* from its full check to its commit; another FOR UPDATE, and any UPDATE or
\* DELETE of the row, waits.
Locked(l) == \E w \in Workers : At(w, "reserve") /\ SlotOf(job[w].app) = l

\* Saves that name fields write those columns of the row, whatever it is now.
SaveStatus(a, status) ==
  application' = [application EXCEPT ![a].status = status]
SavePaymentStatus(a, status) ==
  payment' = [payment EXCEPT ![a].status = status]

\* History: a that holds a seat now and held none before is astray.
StrayAfter(a, status) ==
  IF status \in {"PENDING", "PAID"} /\ a \notin Booked(SlotOf(a))
  THEN stray \cup {a} ELSE stray

-----------------------------------------------------------------------------
(* students.views.apply -> applications.services.create_application        *)

\* The profile, and with it the credit, is read when the request starts.
StartApply(w, a) ==
  /\ SlotExists(SlotOf(a))
  /\ Start(w, "apply",
           [pc |-> "lock_slot", app |-> a, credit |-> credit[StudentOf(a)]])
  /\ OnlyJob

\* Lock the slot; refuse when full, before looking at the own application;
\* then get_or_create reads the own row.  A slot gone by now is refused too.
LockSlot(w) ==
  /\ At(w, "lock_slot")
  /\ LET a == job[w].app
         l == SlotOf(a)
     IN \/ /\ SlotExists(l) /\ ~Locked(l) /\ ~IsFull(l, slot[l].capacity)
           /\ Go(w, [pc |-> "reserve", app |-> a, credit |-> job[w].credit,
                     row |-> application[a]])
        \/ /\ SlotExists(l) => ~Locked(l) /\ IsFull(l, slot[l].capacity)
           /\ Done(w)
  /\ OnlyJob

\* The transaction refuses a paid row, and an unpaid one if the slot has
\* filled up by now; it rolls back.
RefuseReservation(w) ==
  /\ At(w, "reserve")
  /\ \/ job[w].row.status = "PAID"
     \/ /\ job[w].row.status = "UNPAID"
        /\ LET l == SlotOf(job[w].app) IN IsFull(l, slot[l].capacity)
  /\ Done(w)
  /\ OnlyJob

\* Mutant of ReserveSeat: a new application gets no deadline.
ReserveSeatForever(w) ==
  /\ At(w, "reserve")
  /\ LET a == job[w].app
     IN /\ job[w].row.status \in {"NONE", "UNPAID"}
        /\ application' = [application EXCEPT ![a].status = "PENDING"]
        /\ stray' = stray \ {a}
        /\ Go(w, [pc |-> "letter", app |-> a, credit |-> job[w].credit,
                  status |-> "PENDING", can_cancel |-> job[w].row.can_cancel])
  /\ UNCHANGED <<payment, slot, credit, tasks, gateway, crashes>>

\* A new or unpaid application becomes PENDING with a deadline three hours
\* ahead.  A pending or cancelled one is returned as it is: it has a deadline.
ReserveSeat(w) ==
  /\ At(w, "reserve")
  /\ LET a    == job[w].app
         l    == SlotOf(a)
         row  == job[w].row
         held == IF row.status \in {"NONE", "UNPAID"} THEN "PENDING"
                                                      ELSE row.status
     IN /\ row.status # "PAID"
        /\ row.status = "UNPAID" => ~IsFull(l, slot[l].capacity)
        /\ IF row.status \in {"NONE", "UNPAID"}
           THEN /\ application' = [application EXCEPT
                     ![a].status = "PENDING", ![a].deadline = "running"]
                /\ stray' = stray \ {a}
           ELSE UNCHANGED <<application, stray>>
        /\ Go(w, [pc |-> "letter", app |-> a, credit |-> job[w].credit,
                  status |-> held, can_cancel |-> row.can_cancel])
  /\ UNCHANGED <<payment, slot, credit, tasks, gateway, crashes>>

\* application.save(update_fields=[letter..., "can_cancel", "status"]): the
\* instance's status goes back into the row, or PAID when a credit was seen.
SaveLetter(w) ==
  /\ At(w, "letter")
  /\ LET a      == job[w].app
         status == IF job[w].credit THEN "PAID" ELSE job[w].status
     IN /\ Applied(a)
        /\ application' = [application EXCEPT
             ![a].status = status,
             ![a].can_cancel = ~job[w].credit /\ job[w].can_cancel]
        /\ stray' = StrayAfter(a, status)
        /\ Go(w, [pc |-> IF job[w].credit THEN "credit_payment"
                                          ELSE "find_payment", app |-> a])
  /\ UNCHANGED <<payment, slot, credit, tasks, gateway, crashes>>

\* Payment.objects.create with the credit; a second payment of the same
\* application is an IntegrityError that ends the request.
CreatePaidPayment(w) ==
  /\ At(w, "credit_payment")
  /\ LET a == job[w].app
     IN /\ Applied(a)
        /\ IF HasPayment(a)
           THEN Done(w) /\ UNCHANGED payment
           ELSE /\ payment' = [payment EXCEPT ![a] = CreditedPayment]
                /\ Go(w, [pc |-> "spend_credit", app |-> a])
  /\ UNCHANGED <<application, slot, credit, tasks, gateway, crashes, stray>>

\* Mutant of SpendCredit: the cleared credit is not among the saved fields.
KeepCredit(w) ==
  /\ At(w, "spend_credit")
  /\ Done(w)
  /\ OnlyJob

SpendCredit(w) ==
  /\ At(w, "spend_credit")
  /\ credit' = [credit EXCEPT ![StudentOf(job[w].app)] = FALSE]
  /\ Done(w)
  /\ UNCHANGED <<application, payment, slot, tasks, gateway, crashes, stray>>

\* Mutant of FindPayment: an existing payment is left as it is.
CreatePaymentOnly(w) ==
  /\ At(w, "find_payment")
  /\ IF HasPayment(job[w].app) THEN Done(w)
     ELSE Go(w, [pc |-> "create_payment", app |-> job[w].app])
  /\ OnlyJob

\* Without credit: a missing payment is created, an unpaid one put back to
\* PENDING, a paid one left alone.
FindPayment(w) ==
  /\ At(w, "find_payment")
  /\ LET a == job[w].app
     IN /\ Applied(a)
        /\ \/ /\ ~HasPayment(a)
              /\ Go(w, [pc |-> "create_payment", app |-> a])
           \/ /\ HasPayment(a) /\ payment[a].is_paid
              /\ Done(w)
           \/ /\ HasPayment(a) /\ ~payment[a].is_paid
              /\ Go(w, [pc |-> "reset_payment", app |-> a])
  /\ OnlyJob

\* Somebody else may have created it meanwhile: then the INSERT raises.
CreatePendingPayment(w) ==
  /\ At(w, "create_payment")
  /\ LET a == job[w].app
     IN /\ Applied(a)
        /\ payment' = IF HasPayment(a) THEN payment
                      ELSE [payment EXCEPT ![a] = NewPayment]
  /\ Done(w)
  /\ UNCHANGED <<application, slot, credit, tasks, gateway, crashes, stray>>

ResetPayment(w) ==
  /\ At(w, "reset_payment")
  /\ HasPayment(job[w].app)
  /\ SavePaymentStatus(job[w].app, "PENDING")
  /\ Done(w)
  /\ UNCHANGED <<application, slot, credit, tasks, gateway, crashes, stray>>

-----------------------------------------------------------------------------
(* students.views.cancel_application and Slot.refresh_status               *)

\* Mutant of StartCancel: an accepted application may be cancelled.
StartCancelAccepted(w, a) ==
  /\ Applied(a) /\ application[a].can_cancel /\ IsPaid(a)
  /\ payment[a].is_paid /\ payment[a].window
  /\ Start(w, "cancel",
           [pc |-> "cancel", app |-> a, seen |-> slot[SlotOf(a)]])
  /\ OnlyJob

\* All checks are made on the rows joined at the start of the request.
StartCancel(w, a) ==
  /\ Applied(a) /\ application[a].can_cancel /\ IsPaid(a)
  /\ payment[a].is_paid /\ payment[a].window
  /\ ~application[a].is_accepted
  /\ Start(w, "cancel",
           [pc |-> "cancel", app |-> a, seen |-> slot[SlotOf(a)]])
  /\ OnlyJob

CancelApplication(w) ==
  /\ At(w, "cancel")
  /\ LET a == job[w].app
     IN /\ Applied(a)
        /\ application' = [application EXCEPT ![a].status = "CANCELLED",
                                              ![a].can_cancel = FALSE]
        /\ Go(w, [pc |-> "refresh", slot |-> SlotOf(a), seen |-> job[w].seen,
                  grants |-> {StudentOf(a)}])
  /\ UNCHANGED <<payment, slot, credit, tasks, gateway, crashes, stray>>

\* The bookings are counted now, against the capacity and status seen earlier.
Refreshed(l, seen) ==
  IF IsFull(l, seen.capacity) THEN "FULL"
  ELSE IF seen.status = "FULL" THEN "OPEN" ELSE seen.status

CountBookings(w) ==
  /\ At(w, "refresh")
  /\ Go(w, [pc |-> "refresh_save", slot |-> job[w].slot,
            status |-> Refreshed(job[w].slot, job[w].seen),
            grants |-> job[w].grants])
  /\ OnlyJob

SaveSlotStatus(w) ==
  /\ At(w, "refresh_save")
  /\ SlotExists(job[w].slot) /\ ~Locked(job[w].slot)
  /\ slot' = [slot EXCEPT ![job[w].slot].status = job[w].status]
  /\ IF job[w].grants = {} THEN Done(w)
     ELSE Go(w, [pc |-> "grant", grants |-> job[w].grants])
  /\ UNCHANGED <<application, payment, credit, tasks, gateway, crashes, stray>>

GrantCredit(w) ==
  /\ At(w, "grant")
  /\ credit' = [s \in Students |-> s \in job[w].grants \/ credit[s]]
  /\ Done(w)
  /\ UNCHANGED <<application, payment, slot, tasks, gateway, crashes, stray>>

\* The student's profile form and the console's: both save every column of the
\* profile, and with them the credit as it was when the request read it.
StartProfile(w, s) ==
  /\ Start(w, "profile", [pc |-> "profile", student |-> s, credit |-> credit[s]])
  /\ OnlyJob

SaveProfile(w) ==
  /\ At(w, "profile")
  /\ credit' = [credit EXCEPT ![job[w].student] = job[w].credit]
  /\ Done(w)
  /\ UNCHANGED <<application, payment, slot, tasks, gateway, crashes, stray>>

-----------------------------------------------------------------------------
(* payments.views: InitiateSTKPushView.post and PaymentWebhookView.post    *)

\* The serializer refuses an application that is paid when it looks.
StartInitiate(w, a) ==
  /\ Applied(a) /\ ~IsPaid(a)
  /\ Start(w, "initiate", [pc |-> "initiate", app |-> a])
  /\ OnlyJob

\* get_or_create; an existing payment is saved as PENDING, paid or not.  The
\* application keeps its status: an UNPAID one gets no seat here.
RecordPayment(w) ==
  /\ At(w, "initiate")
  /\ LET a == job[w].app
     IN /\ Applied(a)
        /\ IF HasPayment(a)
           THEN SavePaymentStatus(a, "PENDING")
           ELSE payment' = [payment EXCEPT ![a] = NewPayment]
        /\ Go(w, [pc |-> "push", app |-> a])
  /\ UNCHANGED <<application, slot, credit, tasks, gateway, crashes, stray>>

\* The gateway call.  An error reply, or an exception that the client turns
\* into one, does not tell whether the prompt reached the handset.  After a
\* success the transaction id is saved, over a credit marker if there is one.
PushSucceeds(w) ==
  /\ At(w, "push")
  /\ LET a == job[w].app
     IN /\ HasPayment(a)
        /\ gateway' = [gateway EXCEPT ![a] = @ \cup {"prompt"}]
        /\ payment' = [payment EXCEPT ![a].via = "gateway"]
  /\ Done(w)
  /\ UNCHANGED <<application, slot, credit, tasks, crashes, stray>>

PushFails(w) ==
  /\ At(w, "push")
  /\ LET a == job[w].app
     IN /\ \/ gateway' = [gateway EXCEPT ![a] = @ \cup {"prompt"}]
           \/ UNCHANGED gateway
        /\ Go(w, [pc |-> "fail_payment", app |-> a])
  /\ UNCHANGED <<application, payment, slot, credit, tasks, crashes, stray>>

\* Mutant of StartWebhook: no idempotency check.
StartWebhookAgain(w, a, result) ==
  /\ result \in gateway[a] /\ HasPayment(a)
  /\ Start(w, "webhook",
           [pc |-> IF result = "ok" THEN "mark_paid" ELSE "fail_payment",
            app |-> a])
  /\ OnlyJob

\* Mutant of StartWebhook: the result code is not looked at.
StartWebhookBlind(w, a, result) ==
  /\ result \in gateway[a]
  /\ payment[a].status = "PENDING"
  /\ Start(w, "webhook", [pc |-> "mark_paid", app |-> a])
  /\ OnlyJob

\* A webhook whose payment is PAID or FAILED answers "Already processed" and
\* changes nothing; result code 000 goes on to mark_paid, others to failure.
StartWebhook(w, a, result) ==
  /\ result \in gateway[a]
  /\ payment[a].status = "PENDING"
  /\ Start(w, "webhook",
           [pc |-> IF result = "ok" THEN "mark_paid" ELSE "fail_payment",
            app |-> a])
  /\ OnlyJob

\* Payment.mark_paid
MarkPaid(w) ==
  /\ At(w, "mark_paid")
  /\ LET a == job[w].app
     IN /\ HasPayment(a)
        /\ payment' = [payment EXCEPT ![a] =
             [status |-> "PAID", is_paid |-> TRUE, window |-> TRUE,
              via |-> "gateway"]]
        /\ Go(w, [pc |-> "paid_application", app |-> a])
  /\ UNCHANGED <<application, slot, credit, tasks, gateway, crashes, stray>>

\* Mutant of SavePaidApplication: only a pending application becomes PAID.
SavePaidIfPending(w) ==
  /\ At(w, "paid_application")
  /\ IF application[job[w].app].status = "PENDING"
     THEN SaveStatus(job[w].app, "PAID") ELSE UNCHANGED application
  /\ Done(w)
  /\ UNCHANGED <<payment, slot, credit, tasks, gateway, crashes, stray>>

\* The application becomes PAID whatever it is now, and the slot is not looked
\* at.  The receipt that follows changes nothing modelled here.
SavePaidApplication(w) ==
  /\ At(w, "paid_application")
  /\ Applied(job[w].app)
  /\ SaveStatus(job[w].app, "PAID")
  /\ stray' = StrayAfter(job[w].app, "PAID")
  /\ Done(w)
  /\ UNCHANGED <<payment, slot, credit, tasks, gateway, crashes>>

\* Failure, of the push or reported by the webhook: payment, application, slot.
FailPayment(w) ==
  /\ At(w, "fail_payment")
  /\ HasPayment(job[w].app)
  /\ SavePaymentStatus(job[w].app, "FAILED")
  /\ Go(w, [pc |-> "fail_application", app |-> job[w].app])
  /\ UNCHANGED <<application, slot, credit, tasks, gateway, crashes, stray>>

\* Mutant of FailApplication: the released seat is not reported to the slot.
FailApplicationOnly(w) ==
  /\ At(w, "fail_application")
  /\ Applied(job[w].app)
  /\ SaveStatus(job[w].app, "UNPAID")
  /\ Done(w)
  /\ UNCHANGED <<payment, slot, credit, tasks, gateway, crashes, stray>>

FailApplication(w) ==
  /\ At(w, "fail_application")
  /\ LET a == job[w].app
     IN /\ Applied(a)
        /\ SaveStatus(a, "UNPAID")
        /\ Go(w, [pc |-> "read_slot", app |-> a])
  /\ UNCHANGED <<payment, slot, credit, tasks, gateway, crashes, stray>>

\* app.slot is fetched when it is used, which is now.
ReadSlot(w) ==
  /\ At(w, "read_slot")
  /\ LET l == SlotOf(job[w].app)
     IN /\ SlotExists(l)
        /\ Go(w, [pc |-> "refresh", slot |-> l, seen |-> slot[l], grants |-> {}])
  /\ OnlyJob

-----------------------------------------------------------------------------
(* applications.tasks.expire_unpaid, slots.tasks.refresh_status            *)

Overdue ==
  {a \in App : application[a].status = "PENDING"
               /\ application[a].deadline = "passed"}

\* Several may run at a time: one that waited in the broker starts beside the next.
StartExpire(w) ==
  /\ Overdue # {}
  /\ Start(w, "expire", [pc |-> "expire", ids |-> Overdue])
  /\ OnlyJob

\* UPDATE of the selected ids that are still PENDING; deadlines are not
\* compared again.
ExpireApplications(w) ==
  /\ At(w, "expire")
  /\ application' = [a \in App |->
       IF a \in job[w].ids /\ application[a].status = "PENDING"
       THEN [application[a] EXCEPT !.status = "UNPAID"] ELSE application[a]]
  /\ Go(w, [pc |-> "expire_payments", ids |-> job[w].ids])
  /\ UNCHANGED <<payment, slot, credit, tasks, gateway, crashes, stray>>

ExpirePayments(w) ==
  /\ At(w, "expire_payments")
  /\ payment' = [a \in App |->
       IF a \in job[w].ids /\ payment[a].status = "PENDING"
       THEN [payment[a] EXCEPT !.status = "FAILED"] ELSE payment[a]]
  /\ Go(w, [pc |-> "queue_refresh", slots |-> {SlotOf(a) : a \in job[w].ids}])
  /\ UNCHANGED <<application, slot, credit, tasks, gateway, crashes, stray>>

\* One refresh_status.delay(slot_id) after the other.
QueueRefresh(w) ==
  /\ At(w, "queue_refresh")
  /\ \E l \in job[w].slots :
       /\ tasks' = tasks \cup {l}
       /\ IF job[w].slots = {l} THEN Done(w)
          ELSE Go(w, [pc |-> "queue_refresh", slots |-> job[w].slots \ {l}])
  /\ UNCHANGED <<application, payment, slot, credit, gateway, crashes, stray>>

\* The task is off the queue when it starts; on a deleted slot it raises.
StartRefresh(w, l) ==
  /\ l \in tasks
  /\ job[w] = Idle
  /\ tasks' = tasks \ {l}
  /\ IF SlotExists(l)
     THEN Go(w, [pc |-> "refresh", slot |-> l, seen |-> slot[l],
                 grants |-> {}])
     ELSE UNCHANGED job
  /\ UNCHANGED <<application, payment, slot, credit, gateway, crashes, stray>>

-----------------------------------------------------------------------------
(* The company: acceptance and slots                                       *)

StartAccept(w, a) ==
  /\ application[a].status = "PAID"
  /\ Start(w, "accept", [pc |-> "accept", app |-> a])
  /\ OnlyJob

AcceptApplication(w) ==
  /\ At(w, "accept")
  /\ Applied(job[w].app)
  /\ application' = [application EXCEPT ![job[w].app].is_accepted = TRUE]
  /\ Done(w)
  /\ UNCHANGED <<payment, slot, credit, tasks, gateway, crashes, stray>>

SlotCreate(l) ==
  /\ slot[l].status = "ABSENT"
  /\ \E c \in Capacities : slot' = [slot EXCEPT ![l] =
                             [status |-> "OPEN", capacity |-> c]]
  /\ UNCHANGED <<application, payment, credit, tasks, gateway, job, crashes,
                 stray>>

StartToggle(w, l) ==
  /\ SlotExists(l)
  /\ Start(w, "toggle",
           [pc |-> "toggle", slot |-> l,
            status |-> IF slot[l].status = "PAUSED" THEN "OPEN" ELSE "PAUSED"])
  /\ OnlyJob

ToggleSlot(w) ==
  /\ At(w, "toggle")
  /\ SlotExists(job[w].slot) /\ ~Locked(job[w].slot)
  /\ slot' = [slot EXCEPT ![job[w].slot].status = job[w].status]
  /\ Done(w)
  /\ UNCHANGED <<application, payment, credit, tasks, gateway, crashes, stray>>

\* form.save() writes every column of the instance: the new capacity, and the
\* status as it was when the request read it.  With no update_fields a save
\* whose UPDATE finds no row inserts it: an edit brings a deleted slot back.
StartEdit(w, l) ==
  /\ SlotExists(l)
  /\ \E c \in Capacities :
       Start(w, "edit", [pc |-> "edit", slot |-> l,
                         status |-> slot[l].status, capacity |-> c])
  /\ OnlyJob

EditSlot(w) ==
  /\ At(w, "edit")
  /\ ~Locked(job[w].slot)
  /\ slot' = [slot EXCEPT ![job[w].slot] =
                [status |-> job[w].status, capacity |-> job[w].capacity]]
  /\ Done(w)
  /\ UNCHANGED <<application, payment, credit, tasks, gateway, crashes, stray>>

\* Deletion cascades to the applications and their payments.
SlotDelete(l) ==
  /\ "delete" \in Ops
  /\ SlotExists(l) /\ ~Locked(l)
  /\ slot' = [slot EXCEPT ![l].status = "DELETED"]
  /\ application' = [a \in App |-> IF SlotOf(a) = l THEN NoApplication
                                                    ELSE application[a]]
  /\ payment' = [a \in App |-> IF SlotOf(a) = l THEN NoPayment ELSE payment[a]]
  /\ stray' = {a \in stray : SlotOf(a) # l}
  /\ UNCHANGED <<credit, tasks, gateway, job, crashes>>

-----------------------------------------------------------------------------
(* Time, the gateway, and failure                                          *)

DeadlinePasses(a) ==
  /\ application[a].status = "PENDING" /\ application[a].deadline = "running"
  /\ application' = [application EXCEPT ![a].deadline = "passed"]
  /\ UNCHANGED <<payment, slot, credit, tasks, gateway, job, crashes, stray>>

\* Only a cancellation looks at the window, so it closes while one is possible.
WindowCloses(a) ==
  /\ payment[a].window /\ IsPaid(a)
  /\ application[a].can_cancel /\ ~application[a].is_accepted
  /\ payment' = [payment EXCEPT ![a].window = FALSE]
  /\ UNCHANGED <<application, slot, credit, tasks, gateway, job, crashes,
                 stray>>

\* The customer answers the prompt or lets it lapse.  The gateway may report
\* the outcome at any later time and any number of times: StartWebhook takes
\* nothing out of gateway[a].
PromptAnswered(a, result) ==
  /\ "prompt" \in gateway[a]
  /\ gateway' = [gateway EXCEPT ![a] = (@ \ {"prompt"}) \cup {result}]
  /\ UNCHANGED <<application, payment, slot, credit, tasks, job, crashes,
                 stray>>

\* A worker dies in mid-job: what it committed stays, the rest never happens.
Crash(w) ==
  /\ job[w] # Idle /\ crashes < MaxCrashes
  /\ crashes' = crashes + 1
  /\ Done(w)
  /\ UNCHANGED <<application, payment, slot, credit, tasks, gateway, stray>>

\* A save(update_fields=...) whose row was deleted meanwhile raises.
SaveSteps == {"letter", "credit_payment", "find_payment", "create_payment",
              "reset_payment", "initiate", "push", "mark_paid",
              "paid_application", "fail_payment", "fail_application",
              "read_slot", "accept", "cancel", "refresh_save", "toggle"}

SlotOfJob(j) == IF j.pc \in {"refresh_save", "toggle"} THEN j.slot
                                                       ELSE SlotOf(j.app)

RowGone(w) ==
  /\ job[w].pc \in SaveSteps
  /\ ~SlotExists(SlotOfJob(job[w]))
  /\ Done(w)
  /\ OnlyJob

-----------------------------------------------------------------------------

Init ==
  /\ application = [a \in App |-> NoApplication]
  /\ payment = [a \in App |-> NoPayment]
  /\ slot = [l \in Slots |-> [status |-> "ABSENT", capacity |-> 0]]
  /\ credit = [s \in Students |-> FALSE]
  /\ tasks = {}
  /\ gateway = [a \in App |-> {}]
  /\ job = [w \in Workers |-> Idle]
  /\ crashes = 0
  /\ stray = {}

\* A request arrives, or a task is taken up.
Arrive(w) ==
  \/ \E a \in App : \/ StartApply(w, a) \/ StartCancel(w, a)
                    \/ StartInitiate(w, a) \/ StartAccept(w, a)
                    \/ \E result \in {"ok", "fail"} : StartWebhook(w, a, result)
  \/ StartExpire(w)
  \/ \E l \in Slots : StartRefresh(w, l) \/ StartToggle(w, l) \/ StartEdit(w, l)
  \/ \E s \in Students : StartProfile(w, s)

\* A worker goes on with its job.
Continue(w) ==
  \/ LockSlot(w) \/ RefuseReservation(w) \/ ReserveSeat(w) \/ SaveLetter(w)
  \/ CreatePaidPayment(w) \/ SpendCredit(w) \/ FindPayment(w)
  \/ CreatePendingPayment(w) \/ ResetPayment(w)
  \/ CancelApplication(w) \/ CountBookings(w) \/ SaveSlotStatus(w)
  \/ GrantCredit(w) \/ SaveProfile(w)
  \/ RecordPayment(w) \/ PushSucceeds(w) \/ PushFails(w)
  \/ MarkPaid(w) \/ SavePaidApplication(w) \/ FailPayment(w)
  \/ FailApplication(w) \/ ReadSlot(w)
  \/ ExpireApplications(w) \/ ExpirePayments(w) \/ QueueRefresh(w)
  \/ AcceptApplication(w) \/ ToggleSlot(w) \/ EditSlot(w) \/ RowGone(w)

Environment ==
  \/ \E a \in App : \/ DeadlinePasses(a) \/ WindowCloses(a)
                    \/ \E result \in {"ok", "fail"} : PromptAnswered(a, result)
  \/ \E l \in Slots : SlotCreate(l) \/ SlotDelete(l)

Next ==
  \/ \E w \in Workers : Arrive(w) \/ Continue(w) \/ Crash(w)
  \/ Environment

Spec == Init /\ [][Next]_vars

-----------------------------------------------------------------------------
(* Properties of every interleaving                                        *)

\* Every variable holds rows and jobs of the kinds the code writes.
TypeOK ==
  /\ application \in [App -> ApplicationRow]
  /\ payment \in [App -> PaymentRow]
  /\ slot \in [Slots -> SlotRow]
  /\ credit \in [Students -> BOOLEAN]
  /\ tasks \subseteq Slots
  /\ gateway \in [App -> SUBSET {"prompt", "ok", "fail"}]
  /\ job \in [Workers -> Job]
  /\ crashes \in 0..MaxCrashes
  /\ stray \subseteq App

\* create_application never sells a seat the slot does not have: when an
\* application gets its seat by a reservation, the seats held by reservation
\* fit the capacity the slot has at that moment.  The full check and the
\* commit are separate steps, so this is the work of the row lock.
ReservationWithinCapacity ==
  [][\A l \in Slots :
       (Booked(l)' \ stray') \ Booked(l) # {}
         => Cardinality(Booked(l)' \ stray') <= slot[l].capacity]_vars

\* The gateway collected money from s at least once.
Charged(s) == \E a \in App : StudentOf(a) = s /\ "ok" \in gateway[a]

\* Nobody is placed for nothing: whatever races, retries and crashes, a
\* student has a PAID or CANCELLED application, a paid payment or a credit
\* only if the gateway collected a payment from that student.
NoFreePlacement ==
  \A a \in App :
    \/ application[a].status \in {"PAID", "CANCELLED"}
    \/ payment[a].is_paid
    \/ credit[StudentOf(a)]
    => Charged(StudentOf(a))

\* A reservation that is not paid for is given back: expire_unpaid reaches
\* every pending application, also one whose request never finished.
SeatReleased ==
  \A a \in App :
    application[a].status = "PENDING" ~> application[a].status # "PENDING"

\* Web and Celery workers go on with what they have begun; beat keeps sending
\* expire_unpaid to Celery, whose workers serve no web requests, so that it is not
\* shut out for ever; deadlines pass.
FairSpec ==
  /\ Spec
  /\ \A w \in Workers : WF_vars(Continue(w))
  /\ SF_vars(\E w \in Workers : StartExpire(w))
  /\ \A a \in App : WF_vars(DeadlinePasses(a))

-----------------------------------------------------------------------------
(* Properties of the serial system: one worker that does not die           *)

Quiet == \A w \in Workers : job[w] = Idle

\* A payment that was verified once keeps the status PAID: no later webhook,
\* push or application puts it back to PENDING or FAILED.
PaidPaymentStaysPaid ==
  \A a \in App : payment[a].is_paid => payment[a].status = "PAID"

\* Who paid has the place: between requests, a verified payment belongs to an
\* application that is PAID, or was cancelled by its student.
MoneyGetsThePlace ==
  Quiet => \A a \in App : payment[a].is_paid
                            => application[a].status \in {"PAID", "CANCELLED"}

\* What the student paid for and the company accepted stands: between requests
\* it is never found cancelled, expired, failed or sent back to PENDING.
PaidAcceptanceStands ==
  Quiet => \A a \in App : application[a].is_accepted /\ payment[a].is_paid
                            => application[a].status = "PAID"

\* Between requests, an application that waits for money can be paid: its
\* payment exists and waits for a webhook.
PendingIsPayable ==
  Quiet => \A a \in App : application[a].status = "PENDING"
                            => payment[a].status = "PENDING"

\* Once all work is done, a slot is shown as full only if it is: every path
\* that releases a seat also refreshes the status.
FullSlotIsFull ==
  Quiet /\ tasks = {} => \A l \in Slots : slot[l].status = "FULL"
                                            => IsFull(l, slot[l].capacity)

\* Between requests, every credit, spent or unspent, comes from a paid
\* application of that student that can no longer be cancelled, as long as no
\* slot was deleted with what was paid for it.
CreditConservation ==
  Quiet /\ (\A l \in Slots : slot[l].status # "DELETED") => \A s \in Students :
    LET mine == {a \in App : StudentOf(a) = s /\ payment[a].is_paid}
    IN Cardinality({a \in mine : payment[a].via = "credit"})
         + (IF credit[s] THEN 1 ELSE 0)
       <= Cardinality({a \in mine : payment[a].via = "gateway"
                                     /\ ~application[a].can_cancel})

-----------------------------------------------------------------------------
(* What the repository says of the program and the code does not do        *)

\* A slot never has more pending and paid applications than its capacity.
SlotNeverOversold ==
  \A l \in Slots : Cardinality(Booked(l)) <= slot[l].capacity

\* Once accepted, an application keeps the status PAID.
AcceptedStaysPaid ==
  \A a \in App : application[a].is_accepted => application[a].status = "PAID"

\* An application is PAID only with a verified payment of its own.
PaidHasPayment ==
  Quiet => \A a \in App : application[a].status = "PAID" => payment[a].is_paid
=============================================================================
