--------------------------- MODULE PlacementProofs ---------------------------
(***************************************************************************)
(* Theorems about Placement and PlacementRaces for every number of         *)
(* students, slots, workers and crashes and every choice of capacities and *)
(* requests.                                                               *)
(***************************************************************************)
EXTENDS PlacementRaces, FiniteSetTheorems, TLAPS

USE DEF OnlyJob

-----------------------------------------------------------------------------
(* Types                                                                   *)

LEMMA AppParts ==
  ASSUME NEW a \in App
  PROVE  StudentOf(a) \in Students /\ SlotOf(a) \in Slots
  BY DEF App, StudentOf, SlotOf

\* What the program counter says of the rest of a job.
LEMMA JobFields ==
  ASSUME NEW j \in Job
  PROVE  /\ j.pc \in AppSteps \cup {"lock_slot", "reserve", "letter", "cancel"}
              => j.app \in App
         /\ j.pc \in {"lock_slot", "reserve", "letter"} => j.credit \in BOOLEAN
         /\ j.pc = "reserve" => j.row \in ApplicationRow
         /\ j.pc = "letter" => /\ j.status \in ApplicationStatus
                               /\ j.can_cancel \in BOOLEAN
         /\ j.pc \in {"cancel", "refresh"} => j.seen \in SlotRow
         /\ j.pc \in {"refresh", "refresh_save", "toggle", "edit"}
              => j.slot \in Slots
         /\ j.pc \in {"refresh_save", "toggle", "edit"}
              => j.status \in SlotStatus
         /\ j.pc \in {"refresh", "refresh_save", "grant"}
              => j.grants \subseteq Students
         /\ j.pc \in {"expire", "expire_payments"} => j.ids \subseteq App
         /\ j.pc = "queue_refresh" => j.slots \subseteq Slots
         /\ j.pc = "edit" => j.capacity \in Nat
         /\ j.pc = "profile" => j.student \in Students /\ j.credit \in BOOLEAN
  BY DEF Job, AppSteps

LEMMA JobOfWorker ==
  ASSUME TypeOK, NEW w \in Workers
  PROVE  job[w] \in Job
  BY DEF TypeOK

LEMMA IdleIsJob == Idle \in Job
  BY DEF Idle, Job

LEMMA AppStepIsJob ==
  ASSUME NEW a \in App, NEW step \in AppSteps
  PROVE  [pc |-> step, app |-> a] \in Job
  BY DEF Job

LEMMA GoKeepsType ==
  ASSUME TypeOK, NEW w \in Workers, NEW j \in Job, Go(w, j)
  PROVE  job' \in [Workers -> Job]
  BY DEF Go, TypeOK

LEMMA DoneKeepsType ==
  ASSUME TypeOK, NEW w \in Workers, Done(w)
  PROVE  job' \in [Workers -> Job]
  BY GoKeepsType, IdleIsJob DEF Done

LEMMA StartKeepsType ==
  ASSUME TypeOK, NEW w \in Workers, NEW j \in Job, NEW op, Start(w, op, j)
  PROVE  job' \in [Workers -> Job]
  BY GoKeepsType DEF Start

LEMMA InitTypes == Init => TypeOK
  BY PlacementAssumption, IdleIsJob
  DEF Init, TypeOK, ApplicationRow, NoApplication, ApplicationStatus, Deadline,
      PaymentRow, NoPayment, PaymentStatus, SlotRow, SlotStatus

\* The constant rows, and updates of single columns, are rows.
LEMMA ConstantRows ==
  /\ NewPayment \in PaymentRow /\ CreditedPayment \in PaymentRow
  /\ NoPayment \in PaymentRow /\ NoApplication \in ApplicationRow
  BY DEF ApplicationRow, PaymentRow, PaymentStatus, NewPayment,
         CreditedPayment, NoPayment, NoApplication, ApplicationStatus, Deadline

LEMMA RowUpdates ==
  ASSUME TypeOK, NEW a \in App
  PROVE  /\ application[a] \in ApplicationRow /\ payment[a] \in PaymentRow
         /\ \A st \in ApplicationStatus :
              SaveStatus(a, st) => application' \in [App -> ApplicationRow]
         /\ \A st \in PaymentStatus :
              SavePaymentStatus(a, st) => payment' \in [App -> PaymentRow]
<1>1. application[a] \in ApplicationRow /\ payment[a] \in PaymentRow
  BY DEF TypeOK
<1>2. ASSUME NEW st \in ApplicationStatus, SaveStatus(a, st)
      PROVE  application' \in [App -> ApplicationRow]
  <2>1. [application[a] EXCEPT !.status = st] \in ApplicationRow
    BY <1>1 DEF ApplicationRow
  <2> QED  BY <1>2, <2>1 DEF SaveStatus, TypeOK
<1>3. ASSUME NEW st \in PaymentStatus, SavePaymentStatus(a, st)
      PROVE  payment' \in [App -> PaymentRow]
  <2>1. [payment[a] EXCEPT !.status = st] \in PaymentRow
    BY <1>1 DEF PaymentRow
  <2> QED  BY <1>3, <2>1 DEF SavePaymentStatus, TypeOK
<1> QED  BY <1>1, <1>2, <1>3

LEMMA StrayKeepsType ==
  ASSUME TypeOK, NEW a \in App, NEW st
  PROVE  StrayAfter(a, st) \subseteq App
  BY DEF StrayAfter, TypeOK

\* Requests and tasks that arrive: only the job changes, or the queue with it.
LEMMA ArrivalTypes ==
  ASSUME TypeOK, NEW w \in Workers, Arrive(w)
  PROVE  TypeOK'
<1>1. ASSUME NEW a \in App, StartApply(w, a) PROVE TypeOK'
  <2> DEFINE next == [pc |-> "lock_slot", app |-> a,
                      credit |-> credit[StudentOf(a)]]
  <2>1. next \in Job  BY AppParts DEF Job, TypeOK
  <2>2. Start(w, "apply", next)  BY <1>1 DEF StartApply
  <2> QED  BY <1>1, <2>1, <2>2, StartKeepsType DEF StartApply, TypeOK
<1>2. ASSUME NEW a \in App, StartCancel(w, a) PROVE TypeOK'
  <2> DEFINE next == [pc |-> "cancel", app |-> a, seen |-> slot[SlotOf(a)]]
  <2>1. next \in Job  BY AppParts DEF Job, TypeOK
  <2>2. Start(w, "cancel", next)  BY <1>2 DEF StartCancel
  <2> QED  BY <1>2, <2>1, <2>2, StartKeepsType DEF StartCancel, TypeOK
<1>3. ASSUME NEW a \in App, StartInitiate(w, a) PROVE TypeOK'
  <2> DEFINE next == [pc |-> "initiate", app |-> a]
  <2>1. next \in Job  BY AppStepIsJob DEF AppSteps
  <2>2. Start(w, "initiate", next)  BY <1>3 DEF StartInitiate
  <2> QED  BY <1>3, <2>1, <2>2, StartKeepsType DEF StartInitiate, TypeOK
<1>4. ASSUME NEW a \in App, StartAccept(w, a) PROVE TypeOK'
  <2> DEFINE next == [pc |-> "accept", app |-> a]
  <2>1. next \in Job  BY AppStepIsJob DEF AppSteps
  <2>2. Start(w, "accept", next)  BY <1>4 DEF StartAccept
  <2> QED  BY <1>4, <2>1, <2>2, StartKeepsType DEF StartAccept, TypeOK
<1>5. ASSUME NEW a \in App, NEW result \in {"ok", "fail"},
             StartWebhook(w, a, result)
      PROVE  TypeOK'
  <2> DEFINE next == [pc |-> IF result = "ok" THEN "mark_paid"
                                              ELSE "fail_payment", app |-> a]
  <2>1. next \in Job
    <3>1. (IF result = "ok" THEN "mark_paid" ELSE "fail_payment") \in AppSteps
      BY DEF AppSteps
    <3> QED  BY <3>1, AppStepIsJob
  <2>2. Start(w, "webhook", next)  BY <1>5 DEF StartWebhook
  <2> QED  BY <1>5, <2>1, <2>2, StartKeepsType DEF StartWebhook, TypeOK
<1>6. CASE StartExpire(w)
  <2> DEFINE next == [pc |-> "expire", ids |-> Overdue]
  <2>1. next \in Job  BY DEF Job, Overdue
  <2>2. Start(w, "expire", next)  BY <1>6 DEF StartExpire
  <2> QED  BY <1>6, <2>1, <2>2, StartKeepsType DEF StartExpire, TypeOK
<1>7. ASSUME NEW l \in Slots, StartRefresh(w, l) PROVE TypeOK'
  <2> DEFINE next == [pc |-> "refresh", slot |-> l, seen |-> slot[l],
                      grants |-> {}]
  <2>1. next \in Job  BY DEF Job, TypeOK
  <2>2. job' \in [Workers -> Job]
    BY <1>7, <2>1, GoKeepsType DEF StartRefresh, TypeOK
  <2> QED  BY <1>7, <2>2 DEF StartRefresh, TypeOK
<1>8. ASSUME NEW l \in Slots, StartToggle(w, l) PROVE TypeOK'
  <2> DEFINE status == IF slot[l].status = "PAUSED" THEN "OPEN" ELSE "PAUSED"
             next == [pc |-> "toggle", slot |-> l, status |-> status]
  <2>1. next \in Job  BY DEF Job, SlotStatus
  <2>2. Start(w, "toggle", next)  BY <1>8 DEF StartToggle
  <2> QED  BY <1>8, <2>1, <2>2, StartKeepsType DEF StartToggle, TypeOK
<1>9. ASSUME NEW l \in Slots, StartEdit(w, l) PROVE TypeOK'
  <2> DEFINE next(c) == [pc |-> "edit", slot |-> l, status |-> slot[l].status,
                         capacity |-> c]
  <2>1. PICK c \in Capacities : Start(w, "edit", next(c))
    BY <1>9 DEF StartEdit
  <2>2. next(c) \in Job  BY PlacementAssumption DEF Job, TypeOK, SlotRow
  <2> QED  BY <1>9, <2>1, <2>2, StartKeepsType DEF StartEdit, TypeOK
<1>10. ASSUME NEW s \in Students, StartProfile(w, s) PROVE TypeOK'
  <2> DEFINE next == [pc |-> "profile", student |-> s, credit |-> credit[s]]
  <2>1. next \in Job  BY DEF Job, TypeOK
  <2>2. Start(w, "profile", next)  BY <1>10 DEF StartProfile
  <2> QED  BY <1>10, <2>1, <2>2, StartKeepsType DEF StartProfile, TypeOK
<1> QED
  BY <1>1, <1>2, <1>3, <1>4, <1>5, <1>6, <1>7, <1>8, <1>9, <1>10 DEF Arrive

\* Steps of create_application and apply.
LEMMA ApplyTypes ==
  ASSUME TypeOK, NEW w \in Workers,
         \/ LockSlot(w) \/ RefuseReservation(w) \/ ReserveSeat(w)
         \/ SaveLetter(w) \/ CreatePaidPayment(w) \/ SpendCredit(w)
         \/ FindPayment(w) \/ CreatePendingPayment(w) \/ ResetPayment(w)
  PROVE  TypeOK'
<1> DEFINE a == job[w].app
<1>j. job[w] \in Job  BY JobOfWorker
<1>1. CASE LockSlot(w)
  <2>1. a \in App /\ job[w].credit \in BOOLEAN
    BY <1>1, <1>j, JobFields DEF LockSlot, At
  <2> DEFINE next == [pc |-> "reserve", app |-> a, credit |-> job[w].credit,
                      row |-> application[a]]
  <2>2. next \in Job  BY <2>1, RowUpdates DEF Job
  <2>3. Go(w, next) \/ Done(w)  BY <1>1 DEF LockSlot
  <2> QED  BY <1>1, <2>2, <2>3, GoKeepsType, DoneKeepsType DEF LockSlot, TypeOK
<1>2. CASE RefuseReservation(w)
  BY <1>2, DoneKeepsType DEF RefuseReservation, TypeOK
<1>3. CASE ReserveSeat(w)
  <2> DEFINE row == job[w].row
             held == IF row.status \in {"NONE", "UNPAID"} THEN "PENDING"
                                                          ELSE row.status
             next == [pc |-> "letter", app |-> a, credit |-> job[w].credit,
                      status |-> held, can_cancel |-> row.can_cancel]
             reserved == [application[a] EXCEPT !.status = "PENDING",
                                                !.deadline = "running"]
  <2>1. a \in App /\ job[w].credit \in BOOLEAN /\ row \in ApplicationRow
    BY <1>3, <1>j, JobFields DEF ReserveSeat, At
  <2>2. next \in Job
    BY <2>1 DEF Job, ApplicationRow, ApplicationStatus
  <2>3. reserved \in ApplicationRow
    BY <2>1, RowUpdates DEF ApplicationRow, ApplicationStatus, Deadline
  <2>4. application' \in [App -> ApplicationRow] /\ stray' \subseteq App
    BY <1>3, <2>1, <2>3 DEF ReserveSeat, TypeOK
  <2>5. job' \in [Workers -> Job]
    BY <1>3, <2>2, GoKeepsType DEF ReserveSeat
  <2> QED  BY <1>3, <2>4, <2>5 DEF ReserveSeat, TypeOK
<1>4. CASE SaveLetter(w)
  <2> DEFINE status == IF job[w].credit THEN "PAID" ELSE job[w].status
             kept == ~job[w].credit /\ job[w].can_cancel
             saved == [application[a] EXCEPT !.status = status,
                                             !.can_cancel = kept]
             step == IF job[w].credit THEN "credit_payment" ELSE "find_payment"
  <2>1. /\ a \in App /\ job[w].credit \in BOOLEAN
        /\ job[w].status \in ApplicationStatus /\ job[w].can_cancel \in BOOLEAN
    BY <1>4, <1>j, JobFields DEF SaveLetter, At
  <2>2. status \in ApplicationStatus  BY <2>1 DEF ApplicationStatus
  <2>3. kept \in BOOLEAN  OBVIOUS
  <2>4. saved \in ApplicationRow
    BY <2>1, <2>2, <2>3, RowUpdates DEF ApplicationRow
  <2>5. application' = [application EXCEPT ![a] = saved]
    BY <1>4, <2>1 DEF SaveLetter, TypeOK
  <2>6. application' \in [App -> ApplicationRow]
    BY <2>1, <2>4, <2>5 DEF TypeOK
  <2>7. stray' \subseteq App
    BY <1>4, <2>1, StrayKeepsType DEF SaveLetter
  <2>8. [pc |-> step, app |-> a] \in Job
    <3>1. step \in AppSteps  BY DEF AppSteps
    <3> QED  BY <2>1, <3>1, AppStepIsJob
  <2>9. job' \in [Workers -> Job]
    BY <1>4, <2>8, GoKeepsType DEF SaveLetter
  <2> QED  BY <1>4, <2>6, <2>7, <2>9 DEF SaveLetter, TypeOK
<1>5. CASE CreatePaidPayment(w)
  <2>1. a \in App
    BY <1>5, <1>j, JobFields DEF CreatePaidPayment, At, AppSteps
  <2>2. [pc |-> "spend_credit", app |-> a] \in Job
    BY <2>1, AppStepIsJob DEF AppSteps
  <2>3. job' \in [Workers -> Job]
    BY <1>5, <2>2, GoKeepsType, DoneKeepsType DEF CreatePaidPayment
  <2>4. payment' \in [App -> PaymentRow]
    BY <1>5, <2>1, ConstantRows DEF CreatePaidPayment, TypeOK
  <2> QED  BY <1>5, <2>3, <2>4 DEF CreatePaidPayment, TypeOK
<1>6. CASE SpendCredit(w)
  BY <1>6, DoneKeepsType DEF SpendCredit, TypeOK
<1>7. CASE FindPayment(w)
  <2>1. a \in App
    BY <1>7, <1>j, JobFields DEF FindPayment, At, AppSteps
  <2>2. /\ [pc |-> "create_payment", app |-> a] \in Job
        /\ [pc |-> "reset_payment", app |-> a] \in Job
    BY <2>1, AppStepIsJob DEF AppSteps
  <2>3. job' \in [Workers -> Job]
    BY <1>7, <2>2, GoKeepsType, DoneKeepsType DEF FindPayment
  <2> QED  BY <1>7, <2>3 DEF FindPayment, TypeOK
<1>9. CASE CreatePendingPayment(w)
  <2>1. a \in App
    BY <1>9, <1>j, JobFields DEF CreatePendingPayment, At, AppSteps
  <2>2. payment' \in [App -> PaymentRow]
    BY <1>9, <2>1, ConstantRows DEF CreatePendingPayment, TypeOK
  <2> QED  BY <1>9, <2>2, DoneKeepsType DEF CreatePendingPayment, TypeOK
<1>8. CASE ResetPayment(w)
  <2>1. a \in App
    BY <1>8, <1>j, JobFields DEF ResetPayment, At, AppSteps
  <2>2. payment' \in [App -> PaymentRow]
    BY <1>8, <2>1, RowUpdates DEF ResetPayment, PaymentStatus
  <2> QED  BY <1>8, <2>2, DoneKeepsType DEF ResetPayment, TypeOK
<1> QED  BY <1>1, <1>2, <1>3, <1>4, <1>5, <1>6, <1>7, <1>8, <1>9

\* Steps of a cancellation, and of refresh_status wherever it is called.
LEMMA CancelTypes ==
  ASSUME TypeOK, NEW w \in Workers,
         \/ CancelApplication(w) \/ CountBookings(w) \/ SaveSlotStatus(w)
         \/ GrantCredit(w) \/ SaveProfile(w)
  PROVE  TypeOK'
<1>j. job[w] \in Job  BY JobOfWorker
<1>1. CASE CancelApplication(w)
  <2> DEFINE a == job[w].app
             next == [pc |-> "refresh", slot |-> SlotOf(a),
                      seen |-> job[w].seen, grants |-> {StudentOf(a)}]
             cancelled == [application[a] EXCEPT !.status = "CANCELLED",
                                                 !.can_cancel = FALSE]
  <2>1. a \in App /\ job[w].seen \in SlotRow
    BY <1>1, <1>j, JobFields DEF CancelApplication, At
  <2>2. next \in Job  BY <2>1, AppParts DEF Job
  <2>3. cancelled \in ApplicationRow
    BY <2>1, RowUpdates DEF ApplicationRow, ApplicationStatus
  <2>4. application' \in [App -> ApplicationRow]
    BY <1>1, <2>1, <2>3 DEF CancelApplication, TypeOK
  <2>5. job' \in [Workers -> Job]
    BY <1>1, <2>2, GoKeepsType DEF CancelApplication
  <2> QED  BY <1>1, <2>4, <2>5 DEF CancelApplication, TypeOK
<1>2. CASE CountBookings(w)
  <2> DEFINE status == Refreshed(job[w].slot, job[w].seen)
             next == [pc |-> "refresh_save", slot |-> job[w].slot,
                      status |-> status, grants |-> job[w].grants]
  <2>1. /\ job[w].slot \in Slots /\ job[w].seen \in SlotRow
        /\ job[w].grants \subseteq Students
    BY <1>2, <1>j, JobFields DEF CountBookings, At
  <2>2. status \in SlotStatus  BY <2>1 DEF Refreshed, SlotRow, SlotStatus
  <2>3. next \in Job  BY <2>1, <2>2 DEF Job
  <2> QED  BY <1>2, <2>3, GoKeepsType DEF CountBookings, TypeOK
<1>3. CASE SaveSlotStatus(w)
  <2> DEFINE l == job[w].slot
             saved == [slot[l] EXCEPT !.status = job[w].status]
             next == [pc |-> "grant", grants |-> job[w].grants]
  <2>1. /\ l \in Slots /\ job[w].status \in SlotStatus
        /\ job[w].grants \subseteq Students
    BY <1>3, <1>j, JobFields DEF SaveSlotStatus, At
  <2>2. saved \in SlotRow  BY <2>1 DEF TypeOK, SlotRow
  <2>3. slot' \in [Slots -> SlotRow]
    BY <1>3, <2>1, <2>2 DEF SaveSlotStatus, TypeOK
  <2>4. next \in Job  BY <2>1 DEF Job
  <2>5. job' \in [Workers -> Job]
    BY <1>3, <2>4, GoKeepsType, DoneKeepsType DEF SaveSlotStatus
  <2> QED  BY <1>3, <2>3, <2>5 DEF SaveSlotStatus, TypeOK
<1>4. CASE GrantCredit(w)
  <2>1. credit' \in [Students -> BOOLEAN]  BY <1>4 DEF GrantCredit, TypeOK
  <2> QED  BY <1>4, <2>1, DoneKeepsType DEF GrantCredit, TypeOK
<1>5. CASE SaveProfile(w)
  <2>1. job[w].credit \in BOOLEAN
    BY <1>5, <1>j, JobFields DEF SaveProfile, At
  <2>2. credit' \in [Students -> BOOLEAN]
    BY <1>5, <2>1 DEF SaveProfile, TypeOK
  <2> QED  BY <1>5, <2>2, DoneKeepsType DEF SaveProfile, TypeOK
<1> QED  BY <1>1, <1>2, <1>3, <1>4, <1>5

\* Steps of the two payment views.
LEMMA PaymentTypes ==
  ASSUME TypeOK, NEW w \in Workers,
         \/ RecordPayment(w) \/ PushSucceeds(w) \/ PushFails(w) \/ MarkPaid(w)
         \/ SavePaidApplication(w) \/ FailPayment(w) \/ FailApplication(w)
         \/ ReadSlot(w)
  PROVE  TypeOK'
<1> DEFINE a == job[w].app
<1>j. job[w] \in Job  BY JobOfWorker
<1>a. a \in App
  BY <1>j, JobFields DEF At, AppSteps, RecordPayment, PushSucceeds, PushFails,
         MarkPaid, SavePaidApplication, FailPayment, FailApplication, ReadSlot
<1>b. \A step \in AppSteps : [pc |-> step, app |-> a] \in Job
  BY <1>a, AppStepIsJob
<1>1. CASE RecordPayment(w)
  <2>1. job' \in [Workers -> Job]
    BY <1>1, <1>b, GoKeepsType DEF RecordPayment, AppSteps
  <2>2. payment' \in [App -> PaymentRow]
    <3>1. CASE HasPayment(a)
      BY <1>1, <1>a, <3>1, RowUpdates DEF RecordPayment, PaymentStatus
    <3>2. CASE ~HasPayment(a)
      BY <1>1, <1>a, <3>2, ConstantRows DEF RecordPayment, TypeOK
    <3> QED  BY <3>1, <3>2
  <2> QED  BY <1>1, <2>1, <2>2 DEF RecordPayment, TypeOK
<1>2. CASE PushSucceeds(w)
  <2>1. gateway' \in [App -> SUBSET {"prompt", "ok", "fail"}]
    BY <1>2, <1>a DEF PushSucceeds, TypeOK
  <2>2. [payment[a] EXCEPT !.via = "gateway"] \in PaymentRow
    BY <1>a, RowUpdates DEF PaymentRow
  <2>3. payment' \in [App -> PaymentRow]
    BY <1>2, <1>a, <2>2 DEF PushSucceeds, TypeOK
  <2> QED  BY <1>2, <2>1, <2>3, DoneKeepsType DEF PushSucceeds, TypeOK
<1>3. CASE PushFails(w)
  <2>1. gateway' \in [App -> SUBSET {"prompt", "ok", "fail"}]
    BY <1>3, <1>a DEF PushFails, TypeOK
  <2>2. job' \in [Workers -> Job]
    BY <1>3, <1>b, GoKeepsType DEF PushFails, AppSteps
  <2> QED  BY <1>3, <2>1, <2>2 DEF PushFails, TypeOK
<1>4. CASE MarkPaid(w)
  <2>1. job' \in [Workers -> Job]
    BY <1>4, <1>b, GoKeepsType DEF MarkPaid, AppSteps
  <2>2. payment' \in [App -> PaymentRow]
    BY <1>4, <1>a DEF MarkPaid, TypeOK, PaymentRow, PaymentStatus
  <2> QED  BY <1>4, <2>1, <2>2 DEF MarkPaid, TypeOK
<1>5. CASE SavePaidApplication(w)
  <2>1. application' \in [App -> ApplicationRow]
    BY <1>5, <1>a, RowUpdates DEF SavePaidApplication, ApplicationStatus
  <2>2. stray' \subseteq App
    BY <1>5, <1>a, StrayKeepsType DEF SavePaidApplication
  <2> QED  BY <1>5, <2>1, <2>2, DoneKeepsType DEF SavePaidApplication, TypeOK
<1>6. CASE FailPayment(w)
  <2>1. job' \in [Workers -> Job]
    BY <1>6, <1>b, GoKeepsType DEF FailPayment, AppSteps
  <2>2. payment' \in [App -> PaymentRow]
    BY <1>6, <1>a, RowUpdates DEF FailPayment, PaymentStatus
  <2> QED  BY <1>6, <2>1, <2>2 DEF FailPayment, TypeOK
<1>7. CASE FailApplication(w)
  <2>1. job' \in [Workers -> Job]
    BY <1>7, <1>b, GoKeepsType DEF FailApplication, AppSteps
  <2>2. application' \in [App -> ApplicationRow]
    BY <1>7, <1>a, RowUpdates DEF FailApplication, ApplicationStatus
  <2> QED  BY <1>7, <2>1, <2>2 DEF FailApplication, TypeOK
<1>8. CASE ReadSlot(w)
  <2> DEFINE next == [pc |-> "refresh", slot |-> SlotOf(a),
                      seen |-> slot[SlotOf(a)], grants |-> {}]
  <2>1. next \in Job  BY <1>a, AppParts DEF Job, TypeOK
  <2>2. Go(w, next)  BY <1>8 DEF ReadSlot
  <2> QED  BY <1>8, <2>1, <2>2, GoKeepsType DEF ReadSlot, TypeOK
<1> QED  BY <1>1, <1>2, <1>3, <1>4, <1>5, <1>6, <1>7, <1>8

\* Steps of expire_unpaid, of the company's requests, and a raised exception.
LEMMA TaskAndCompanyTypes ==
  ASSUME TypeOK, NEW w \in Workers,
         \/ ExpireApplications(w) \/ ExpirePayments(w) \/ QueueRefresh(w)
         \/ AcceptApplication(w) \/ ToggleSlot(w) \/ EditSlot(w) \/ RowGone(w)
  PROVE  TypeOK'
<1>j. job[w] \in Job  BY JobOfWorker
<1>1. CASE ExpireApplications(w)
  <2>1. job[w].ids \subseteq App
    BY <1>1, <1>j, JobFields DEF ExpireApplications, At
  <2>2. job' \in [Workers -> Job]
    <3>1. [pc |-> "expire_payments", ids |-> job[w].ids] \in Job
      BY <2>1 DEF Job
    <3> QED  BY <1>1, <3>1, GoKeepsType DEF ExpireApplications
  <2>3. \A a \in App : [application[a] EXCEPT !.status = "UNPAID"]
                         \in ApplicationRow
    BY RowUpdates DEF ApplicationRow, ApplicationStatus
  <2>4. application' \in [App -> ApplicationRow]
    BY <1>1, <2>3, RowUpdates DEF ExpireApplications
  <2> QED  BY <1>1, <2>2, <2>4 DEF ExpireApplications, TypeOK
<1>2. CASE ExpirePayments(w)
  <2>1. job[w].ids \subseteq App
    BY <1>2, <1>j, JobFields DEF ExpirePayments, At
  <2>2. job' \in [Workers -> Job]
    <3> DEFINE next == [pc |-> "queue_refresh",
                        slots |-> {SlotOf(a) : a \in job[w].ids}]
    <3>1. next \in Job  BY <2>1, AppParts DEF Job
    <3> QED  BY <1>2, <3>1, GoKeepsType DEF ExpirePayments
  <2>3. \A a \in App : [payment[a] EXCEPT !.status = "FAILED"] \in PaymentRow
    BY RowUpdates DEF PaymentRow, PaymentStatus
  <2>4. payment' \in [App -> PaymentRow]
    BY <1>2, <2>3, RowUpdates DEF ExpirePayments
  <2> QED  BY <1>2, <2>2, <2>4 DEF ExpirePayments, TypeOK
<1>3. CASE QueueRefresh(w)
  <2>1. job[w].slots \subseteq Slots
    BY <1>3, <1>j, JobFields DEF QueueRefresh, At
  <2>2. PICK l \in job[w].slots :
          /\ tasks' = tasks \cup {l}
          /\ IF job[w].slots = {l} THEN Done(w)
             ELSE Go(w, [pc |-> "queue_refresh", slots |-> job[w].slots \ {l}])
    BY <1>3 DEF QueueRefresh
  <2>3. [pc |-> "queue_refresh", slots |-> job[w].slots \ {l}] \in Job
    BY <2>1 DEF Job
  <2>4. job' \in [Workers -> Job]  BY <2>2, <2>3, GoKeepsType, DoneKeepsType
  <2> QED  BY <1>3, <2>1, <2>2, <2>4 DEF QueueRefresh, TypeOK
<1>4. CASE AcceptApplication(w)
  <2> DEFINE a == job[w].app
  <2>1. a \in App
    BY <1>4, <1>j, JobFields DEF AcceptApplication, At, AppSteps
  <2>2. [application[a] EXCEPT !.is_accepted = TRUE] \in ApplicationRow
    BY <2>1, RowUpdates DEF ApplicationRow
  <2>3. application' \in [App -> ApplicationRow]
    BY <1>4, <2>1, <2>2 DEF AcceptApplication, TypeOK
  <2> QED  BY <1>4, <2>3, DoneKeepsType DEF AcceptApplication, TypeOK
<1>5. CASE ToggleSlot(w)
  <2> DEFINE l == job[w].slot
  <2>1. l \in Slots /\ job[w].status \in SlotStatus
    BY <1>5, <1>j, JobFields DEF ToggleSlot, At
  <2>2. [slot[l] EXCEPT !.status = job[w].status] \in SlotRow
    BY <2>1 DEF TypeOK, SlotRow
  <2>3. slot' \in [Slots -> SlotRow]
    BY <1>5, <2>1, <2>2 DEF ToggleSlot, TypeOK
  <2> QED  BY <1>5, <2>3, DoneKeepsType DEF ToggleSlot, TypeOK
<1>6. CASE EditSlot(w)
  <2>1. /\ job[w].slot \in Slots /\ job[w].status \in SlotStatus
        /\ job[w].capacity \in Nat
    BY <1>6, <1>j, JobFields DEF EditSlot, At
  <2>2. slot' \in [Slots -> SlotRow]
    BY <1>6, <2>1 DEF EditSlot, TypeOK, SlotRow
  <2> QED  BY <1>6, <2>2, DoneKeepsType DEF EditSlot, TypeOK
<1>7. CASE RowGone(w)
  BY <1>7, DoneKeepsType DEF RowGone, TypeOK
<1> QED  BY <1>1, <1>2, <1>3, <1>4, <1>5, <1>6, <1>7

LEMMA EnvironmentTypes ==
  ASSUME TypeOK, Environment
  PROVE  TypeOK'
<1>1. ASSUME NEW a \in App, DeadlinePasses(a) PROVE TypeOK'
  <2>1. [application[a] EXCEPT !.deadline = "passed"] \in ApplicationRow
    BY RowUpdates DEF ApplicationRow, Deadline
  <2>2. application' \in [App -> ApplicationRow]
    BY <1>1, <2>1 DEF DeadlinePasses, TypeOK
  <2> QED  BY <1>1, <2>2 DEF DeadlinePasses, TypeOK
<1>2. ASSUME NEW a \in App, WindowCloses(a) PROVE TypeOK'
  <2>1. [payment[a] EXCEPT !.window = FALSE] \in PaymentRow
    BY RowUpdates DEF PaymentRow
  <2>2. payment' \in [App -> PaymentRow]
    BY <1>2, <2>1 DEF WindowCloses, TypeOK
  <2> QED  BY <1>2, <2>2 DEF WindowCloses, TypeOK
<1>3. ASSUME NEW a \in App, NEW result \in {"ok", "fail"},
             PromptAnswered(a, result)
      PROVE  TypeOK'
  <2>1. gateway' \in [App -> SUBSET {"prompt", "ok", "fail"}]
    BY <1>3 DEF PromptAnswered, TypeOK
  <2> QED  BY <1>3, <2>1 DEF PromptAnswered, TypeOK
<1>4. ASSUME NEW l \in Slots, SlotCreate(l) PROVE TypeOK'
  <2>1. slot' \in [Slots -> SlotRow]
    BY <1>4, PlacementAssumption DEF SlotCreate, TypeOK, SlotRow, SlotStatus
  <2> QED  BY <1>4, <2>1 DEF SlotCreate, TypeOK
<1>5. ASSUME NEW l \in Slots, SlotDelete(l) PROVE TypeOK'
  <2>1. [slot[l] EXCEPT !.status = "DELETED"] \in SlotRow
    BY DEF TypeOK, SlotRow, SlotStatus
  <2>2. slot' \in [Slots -> SlotRow]  BY <1>5, <2>1 DEF SlotDelete, TypeOK
  <2>3. /\ application' \in [App -> ApplicationRow]
        /\ payment' \in [App -> PaymentRow]
    BY <1>5, ConstantRows, RowUpdates DEF SlotDelete
  <2> QED  BY <1>5, <2>2, <2>3 DEF SlotDelete, TypeOK
<1> QED  BY <1>1, <1>2, <1>3, <1>4, <1>5 DEF Environment

LEMMA StepTypes == TypeOK /\ [Next]_vars => TypeOK'
<1> SUFFICES ASSUME TypeOK, [Next]_vars PROVE TypeOK'
  OBVIOUS
<1>1. CASE UNCHANGED vars  BY <1>1 DEF vars, TypeOK
<1>2. ASSUME NEW w \in Workers, Arrive(w) PROVE TypeOK'
  BY <1>2, ArrivalTypes
<1>3. ASSUME NEW w \in Workers, Continue(w) PROVE TypeOK'
  BY <1>3, ApplyTypes, CancelTypes, PaymentTypes, TaskAndCompanyTypes
  DEF Continue
<1>4. ASSUME NEW w \in Workers, Crash(w) PROVE TypeOK'
  <2>1. crashes' \in 0..MaxCrashes
    BY <1>4, PlacementAssumption DEF Crash, TypeOK
  <2> QED  BY <1>4, <2>1, DoneKeepsType DEF Crash, TypeOK
<1>5. CASE Environment  BY <1>5, EnvironmentTypes
<1> QED  BY <1>1, <1>2, <1>3, <1>4, <1>5 DEF Next

\* Type correctness: the tables, the queue and the workers always hold rows,
\* tasks and jobs of the kinds that the code of Placement reads and writes.
THEOREM TypeCorrect == Spec => []TypeOK
  BY InitTypes, StepTypes, PTL DEF Spec

-----------------------------------------------------------------------------
(* Seats: the row lock makes check and reservation one step                *)

\* The seats of l that were obtained by a reservation.
Firm(l) == Booked(l) \ stray

Reserving(w, l) == At(w, "reserve") /\ SlotOf(job[w].app) = l

\* Whoever reserves on a slot is alone there, the slot exists, and the full
\* check it made still holds of the seats that were reserved.
ReservationInv ==
  \A w \in Workers, l \in Slots :
    Reserving(w, l) =>
      /\ \A v \in Workers : Reserving(v, l) => v = w
      /\ SlotExists(l)
      /\ Cardinality(Firm(l)) < slot[l].capacity

LEMMA InitReservation == Init => ReservationInv
  BY DEF Init, ReservationInv, Reserving, At, Idle

LEMMA SeatsAreFinite ==
  ASSUME NEW l \in Slots, NEW S \in SUBSET {a \in App : SlotOf(a) = l}
  PROVE  IsFiniteSet(S) /\ Cardinality(S) \in Nat
<1>1. IsFiniteSet(Students \X {l})
  BY PlacementAssumption, FS_Singleton, FS_Product
<1>2. S \in SUBSET (Students \X {l})  BY DEF App, SlotOf
<1>3. IsFiniteSet(S)  BY <1>1, <1>2, FS_Subset
<1> QED  BY <1>3, FS_CardinalityType

\* The firm seats do not grow if every application that holds one after the
\* step held it before.
LEMMA NoNewFirmSeat ==
  ASSUME NEW l \in Slots,
         \A a \in App :
           application'[a].status \in {"PENDING", "PAID"} /\ a \notin stray'
             => application[a].status \in {"PENDING", "PAID"} /\ a \notin stray
  PROVE  Firm(l)' \subseteq Firm(l)
  BY DEF Firm, Booked

\* A save that may turn a seatless application into a booked one marks it.
LEMMA StrayIsNotFirm ==
  ASSUME TypeOK, NEW a \in App, NEW st, NEW l \in Slots,
         stray' = StrayAfter(a, st), application'[a].status = st,
         \A b \in App \ {a} : application'[b] = application[b]
  PROVE  Firm(l)' \subseteq Firm(l)
  BY NoNewFirmSeat, AppParts DEF StrayAfter, Booked

\* Only a reservation adds a firm seat, and it adds one on the slot it locks.
LEMMA FirmSeatsOfArrive ==
  ASSUME NEW w \in Workers, Arrive(w)
  PROVE  UNCHANGED <<application, stray>>
  BY DEF Arrive, StartApply, StartCancel, StartInitiate, StartAccept,
         StartWebhook, StartExpire, StartRefresh, StartToggle, StartEdit,
              StartProfile

LEMMA FirmSeatsOfContinue ==
  ASSUME TypeOK, NEW w \in Workers, Continue(w), ~ReserveSeat(w),
         NEW l \in Slots
  PROVE  Firm(l)' \subseteq Firm(l)
<1> DEFINE a == job[w].app
<1>j. job[w] \in Job  BY JobOfWorker
<1>0. CASE UNCHANGED <<application, stray>>
  BY <1>0, NoNewFirmSeat
<1>1. CASE SaveLetter(w)
  <2>1. a \in App  BY <1>1, <1>j, JobFields DEF SaveLetter, At
  <2> DEFINE status == IF job[w].credit THEN "PAID" ELSE job[w].status
  <2>2. stray' = StrayAfter(a, status)  BY <1>1 DEF SaveLetter
  <2>3. /\ application'[a].status = status
        /\ \A b \in App \ {a} : application'[b] = application[b]
    BY <1>1, <2>1 DEF SaveLetter, TypeOK, ApplicationRow
  <2> QED  BY <2>1, <2>2, <2>3, StrayIsNotFirm
<1>2. CASE SavePaidApplication(w)
  <2>1. a \in App
    BY <1>2, <1>j, JobFields DEF SavePaidApplication, At, AppSteps
  <2>2. stray' = StrayAfter(a, "PAID")  BY <1>2 DEF SavePaidApplication
  <2>3. /\ application'[a].status = "PAID"
        /\ \A b \in App \ {a} : application'[b] = application[b]
    BY <1>2, <2>1 DEF SavePaidApplication, SaveStatus, TypeOK, ApplicationRow
  <2> QED  BY <2>1, <2>2, <2>3, StrayIsNotFirm
<1>3. CASE CancelApplication(w)
  <2>1. a \in App  BY <1>3, <1>j, JobFields DEF CancelApplication, At
  <2> QED  BY <1>3, <2>1, NoNewFirmSeat
           DEF CancelApplication, TypeOK, ApplicationRow
<1>4. CASE FailApplication(w)
  <2>1. a \in App
    BY <1>4, <1>j, JobFields DEF FailApplication, At, AppSteps
  <2> QED  BY <1>4, <2>1, NoNewFirmSeat
           DEF FailApplication, SaveStatus, TypeOK, ApplicationRow
<1>5. CASE ExpireApplications(w)
  <2>1. \A b \in App : application'[b].status \in {"PENDING", "PAID"}
                         => application'[b] = application[b]
    BY <1>5 DEF ExpireApplications, TypeOK, ApplicationRow
  <2> QED  BY <1>5, <2>1, NoNewFirmSeat DEF ExpireApplications
<1>6. CASE AcceptApplication(w)
  <2>1. a \in App
    BY <1>6, <1>j, JobFields DEF AcceptApplication, At, AppSteps
  <2> QED  BY <1>6, <2>1, NoNewFirmSeat
           DEF AcceptApplication, TypeOK, ApplicationRow
<1> QED
  BY <1>0, <1>1, <1>2, <1>3, <1>4, <1>5, <1>6
  DEF Continue, LockSlot, RefuseReservation, CreatePaidPayment, SpendCredit,
      FindPayment, CreatePendingPayment, ResetPayment, CountBookings,
      SaveSlotStatus, GrantCredit, SaveProfile, ReadSlot,
      RecordPayment, PushSucceeds, PushFails, MarkPaid, FailPayment,
      ExpirePayments, QueueRefresh, ToggleSlot, EditSlot, RowGone

LEMMA FirmSeatsOfEnvironment ==
  ASSUME TypeOK, Environment, NEW l \in Slots
  PROVE  Firm(l)' \subseteq Firm(l)
<1>1. ASSUME NEW a \in App, DeadlinePasses(a) PROVE Firm(l)' \subseteq Firm(l)
  BY <1>1, NoNewFirmSeat DEF DeadlinePasses, TypeOK, ApplicationRow
<1>2. ASSUME NEW k \in Slots, SlotDelete(k) PROVE Firm(l)' \subseteq Firm(l)
  <2>1. \A b \in App : \/ SlotOf(b) = k /\ application'[b] = NoApplication
                       \/ /\ application'[b] = application[b]
                          /\ b \in stray' <=> b \in stray
    BY <1>2 DEF SlotDelete
  <2> QED  BY <2>1, NoNewFirmSeat DEF NoApplication
<1>3. CASE UNCHANGED <<application, stray>>  BY <1>3, NoNewFirmSeat
<1> QED
  BY <1>1, <1>2, <1>3 DEF Environment, WindowCloses, PromptAnswered, SlotCreate

LEMMA FirmSeats ==
  ASSUME TypeOK, [Next]_vars, NEW l \in Slots
  PROVE  \/ Firm(l)' \subseteq Firm(l)
         \/ \E u \in Workers :
              /\ ReserveSeat(u) /\ Reserving(u, l)
              /\ Firm(l)' \subseteq Firm(l) \cup {job[u].app}
<1>1. ASSUME NEW u \in Workers, ReserveSeat(u)
      PROVE  \/ Firm(l)' \subseteq Firm(l)
             \/ /\ Reserving(u, l)
                /\ Firm(l)' \subseteq Firm(l) \cup {job[u].app}
  <2> DEFINE a == job[u].app
  <2>1. a \in App
    BY <1>1, JobOfWorker, JobFields DEF ReserveSeat, At
  <2>2. \A b \in App \ {a} :
           application'[b] = application[b] /\ (b \in stray' <=> b \in stray)
    BY <1>1, <2>1 DEF ReserveSeat, TypeOK
  <2>3. Firm(l)' \subseteq Firm(l) \cup {a}
    BY <2>2 DEF Firm, Booked
  <2>4. CASE SlotOf(a) = l
    BY <1>1, <2>3, <2>4 DEF Reserving, ReserveSeat
  <2>5. CASE SlotOf(a) # l
    BY <2>3, <2>5 DEF Firm, Booked
  <2> QED  BY <2>4, <2>5
<1>2. CASE UNCHANGED <<application, stray>>  BY <1>2, NoNewFirmSeat
<1> QED
  BY <1>1, <1>2, FirmSeatsOfArrive, FirmSeatsOfContinue,
     FirmSeatsOfEnvironment DEF Next, Crash, vars

\* Nobody else writes a slot row while it is locked.
LEMMA LockedSlotKept ==
  ASSUME TypeOK, [Next]_vars, NEW w \in Workers, NEW l \in Slots,
         Reserving(w, l), SlotExists(l)
  PROVE  slot'[l] = slot[l]
<1>0. Locked(l)  BY DEF Locked, Reserving
<1>1. ASSUME NEW u \in Workers, SaveSlotStatus(u) PROVE slot'[l] = slot[l]
  BY <1>0, <1>1 DEF SaveSlotStatus, TypeOK
<1>2. ASSUME NEW u \in Workers, ToggleSlot(u) PROVE slot'[l] = slot[l]
  BY <1>0, <1>2 DEF ToggleSlot, TypeOK
<1>3. ASSUME NEW u \in Workers, EditSlot(u) PROVE slot'[l] = slot[l]
  BY <1>0, <1>3 DEF EditSlot, TypeOK
<1>4. ASSUME NEW k \in Slots, SlotCreate(k) PROVE slot'[l] = slot[l]
  BY <1>4 DEF SlotCreate, SlotExists, TypeOK
<1>5. ASSUME NEW k \in Slots, SlotDelete(k) PROVE slot'[l] = slot[l]
  BY <1>0, <1>5 DEF SlotDelete, TypeOK
<1>6. ASSUME NEW u \in Workers, Arrive(u) PROVE slot'[l] = slot[l]
  BY <1>6 DEF Arrive, StartApply, StartCancel, StartInitiate, StartAccept,
              StartWebhook, StartExpire, StartRefresh, StartToggle, StartEdit,
              StartProfile
<1>7. CASE UNCHANGED slot  BY <1>7
<1>8. ASSUME NEW u \in Workers, Continue(u) PROVE slot'[l] = slot[l]
  BY <1>1, <1>2, <1>3, <1>8
  DEF Continue, LockSlot, RefuseReservation, ReserveSeat, SaveLetter,
      CreatePaidPayment, SpendCredit, FindPayment, CreatePendingPayment,
      ResetPayment,
      CancelApplication, CountBookings, GrantCredit, SaveProfile, ReadSlot,
      RecordPayment, PushSucceeds, PushFails, MarkPaid, SavePaidApplication, FailPayment,
      FailApplication, ExpireApplications, ExpirePayments, QueueRefresh,
      AcceptApplication, RowGone
<1> QED
  BY <1>4, <1>5, <1>6, <1>7, <1>8
  DEF Next, Environment, Crash, DeadlinePasses, WindowCloses, PromptAnswered,
      vars

\* Only LockSlot opens a reservation.
LEMMA NotReserving ==
  ASSUME TypeOK, NEW u \in Workers, NEW j, Go(u, j), j.pc # "reserve",
         NEW v \in Workers, At(v, "reserve")'
  PROVE  job'[v] = job[v]
  BY DEF Go, At, TypeOK

LEMMA WhoReserves ==
  ASSUME TypeOK, [Next]_vars, NEW v \in Workers, At(v, "reserve")'
  PROVE  job'[v] = job[v] \/ (LockSlot(v) /\ job'[v].app = job[v].app)
<1>d. ASSUME NEW u \in Workers, Done(u) PROVE job'[v] = job[v]
  BY <1>d, NotReserving DEF Done, Idle
<1>1. ASSUME NEW u \in Workers, Arrive(u) PROVE job'[v] = job[v]
  BY <1>1 DEF Arrive, StartApply, StartCancel, StartInitiate, StartAccept,
              StartWebhook, StartExpire, StartRefresh, StartToggle, StartEdit,
              StartProfile, Start, Go, At, TypeOK
<1>2. ASSUME NEW u \in Workers, LockSlot(u)
      PROVE  job'[v] = job[v] \/ (LockSlot(v) /\ job'[v].app = job[v].app)
  BY <1>d, <1>2 DEF LockSlot, Go, TypeOK
<1>3. ASSUME NEW u \in Workers, ReserveSeat(u) PROVE job'[v] = job[v]
  BY <1>3 DEF ReserveSeat, Go, At, TypeOK
<1>4. ASSUME NEW u \in Workers, SaveLetter(u) PROVE job'[v] = job[v]
  BY <1>4 DEF SaveLetter, Go, At, TypeOK
<1>5. ASSUME NEW u \in Workers,
             \/ CreatePaidPayment(u) \/ FindPayment(u)
             \/ CancelApplication(u) \/ CountBookings(u) \/ SaveSlotStatus(u)
      PROVE  job'[v] = job[v]
  BY <1>d, <1>5 DEF CreatePaidPayment, FindPayment, CancelApplication,
                    CountBookings, SaveSlotStatus, Go, At, TypeOK
<1>6. ASSUME NEW u \in Workers,
             \/ RecordPayment(u) \/ PushFails(u) \/ MarkPaid(u)
             \/ FailPayment(u) \/ FailApplication(u) \/ ReadSlot(u)
      PROVE  job'[v] = job[v]
  BY <1>6 DEF RecordPayment, PushFails, MarkPaid, FailPayment,
              FailApplication, ReadSlot, Go, At, TypeOK
<1>7. ASSUME NEW u \in Workers,
             \/ ExpireApplications(u) \/ ExpirePayments(u) \/ QueueRefresh(u)
      PROVE  job'[v] = job[v]
  BY <1>d, <1>7 DEF ExpireApplications, ExpirePayments, QueueRefresh, Go, At,
                    TypeOK
<1>8. ASSUME NEW u \in Workers, Continue(u)
      PROVE  job'[v] = job[v] \/ (LockSlot(v) /\ job'[v].app = job[v].app)
  BY <1>d, <1>2, <1>3, <1>4, <1>5, <1>6, <1>7, <1>8
  DEF Continue, RefuseReservation, SpendCredit, CreatePendingPayment,
      ResetPayment, GrantCredit, SaveProfile,
      PushSucceeds, SavePaidApplication, AcceptApplication, ToggleSlot,
      EditSlot, RowGone
<1> QED
  BY <1>d, <1>1, <1>8
  DEF Next, Environment, Crash, DeadlinePasses, WindowCloses, PromptAnswered,
      SlotCreate, SlotDelete, vars

LEMMA StepReservation ==
  TypeOK /\ ReservationInv /\ [Next]_vars => ReservationInv'
<1> SUFFICES ASSUME TypeOK, ReservationInv, [Next]_vars,
                    NEW w \in Workers, NEW l \in Slots, Reserving(w, l)'
             PROVE  /\ \A v \in Workers : Reserving(v, l)' => v = w
                    /\ SlotExists(l)'
                    /\ Cardinality(Firm(l)') < slot'[l].capacity
  BY DEF ReservationInv
<1>f. /\ Cardinality(Firm(l)) \in Nat /\ IsFiniteSet(Firm(l))
      /\ Cardinality(Booked(l)) \in Nat /\ IsFiniteSet(Booked(l))
      /\ Cardinality(Firm(l)) <= Cardinality(Booked(l))
      /\ slot[l].capacity \in Nat
  <2>1. Booked(l) \in SUBSET {a \in App : SlotOf(a) = l}  BY DEF Booked
  <2>2. Firm(l) \in SUBSET Booked(l)  BY DEF Firm
  <2>3. Firm(l) \in SUBSET {a \in App : SlotOf(a) = l}  BY <2>1, <2>2
  <2>4. /\ IsFiniteSet(Booked(l)) /\ Cardinality(Booked(l)) \in Nat
        /\ IsFiniteSet(Firm(l)) /\ Cardinality(Firm(l)) \in Nat
    BY <2>1, <2>3, SeatsAreFinite
  <2>5. Cardinality(Firm(l)) <= Cardinality(Booked(l))
    BY <2>2, <2>4, FS_Subset
  <2>6. slot[l].capacity \in Nat  BY DEF TypeOK, SlotRow
  <2> QED  BY <2>4, <2>5, <2>6
<1>1. CASE Reserving(w, l)
  <2>1. /\ \A v \in Workers : Reserving(v, l) => v = w
        /\ SlotExists(l)
        /\ Cardinality(Firm(l)) < slot[l].capacity
    BY <1>1 DEF ReservationInv
  <2>2. slot'[l] = slot[l]  BY <1>1, <2>1, LockedSlotKept
  <2>3. ASSUME NEW v \in Workers, Reserving(v, l)' PROVE v = w
    <3>1. At(v, "reserve")' /\ SlotOf(job'[v].app) = l
      BY <2>3 DEF Reserving
    <3>2. CASE job'[v] = job[v]
      <4>1. Reserving(v, l)  BY <3>1, <3>2 DEF Reserving, At
      <4> QED  BY <2>1, <4>1
    <3>3. CASE LockSlot(v) /\ job'[v].app = job[v].app
      <4>1. At(v, "lock_slot") /\ At(v, "reserve")' /\ SlotOf(job[v].app) = l
        BY <3>1, <3>3 DEF LockSlot
      <4>2. Locked(l)  BY <1>1 DEF Locked, Reserving
      <4>3. Done(v)  BY <3>3, <4>1, <4>2 DEF LockSlot
      <4>4. FALSE  BY <4>1, <4>3 DEF Done, Go, Idle, At, TypeOK
      <4> QED  BY <4>4
    <3> QED  BY <3>1, <3>2, <3>3, WhoReserves
  <2>4. Firm(l)' \subseteq Firm(l)
    <3>1. ASSUME NEW u \in Workers, ReserveSeat(u), Reserving(u, l)
          PROVE  FALSE
      <4>1. u = w  BY <2>1, <3>1
      <4>2. ~At(w, "reserve")'
        BY <3>1, <4>1 DEF ReserveSeat, Go, At, TypeOK
      <4> QED  BY <4>2 DEF Reserving
    <3> QED  BY <3>1, FirmSeats
  <2>5. Cardinality(Firm(l)') <= Cardinality(Firm(l)) /\ IsFiniteSet(Firm(l)')
    BY <1>f, <2>4, FS_Subset
  <2>6. Cardinality(Firm(l)') \in Nat  BY <2>5, FS_CardinalityType
  <2>7. SlotExists(l)'  BY <2>1, <2>2 DEF SlotExists
  <2> QED  BY <1>f, <2>1, <2>2, <2>3, <2>5, <2>6, <2>7
<1>2. CASE ~Reserving(w, l)
  <2>1. At(w, "reserve")' /\ SlotOf(job'[w].app) = l  BY DEF Reserving
  <2>2. LockSlot(w) /\ SlotOf(job[w].app) = l
    <3>1. job'[w] # job[w]  BY <1>2, <2>1 DEF Reserving, At
    <3> QED  BY <2>1, <3>1, WhoReserves
  <2>3. ~Done(w)  BY <2>1 DEF Done, Go, Idle, At, TypeOK
  <2>4. /\ SlotExists(l) /\ ~Locked(l) /\ ~IsFull(l, slot[l].capacity)
        /\ UNCHANGED <<application, slot, stray>>
    BY <2>2, <2>3 DEF LockSlot
  <2>5. ASSUME NEW v \in Workers, Reserving(v, l)', v # w PROVE FALSE
    <3>1. job'[v] = job[v]  BY <2>2, <2>5 DEF LockSlot, Go, Done, TypeOK
    <3>2. Reserving(v, l)  BY <2>5, <3>1 DEF Reserving, At
    <3> QED  BY <2>4, <3>2 DEF Locked, Reserving
  <2>6. Firm(l)' = Firm(l)  BY <2>4 DEF Firm, Booked
  <2>7. Cardinality(Firm(l)') < slot'[l].capacity
    BY <1>f, <2>4, <2>6 DEF IsFull
  <2> QED  BY <2>4, <2>5, <2>7 DEF SlotExists
<1> QED  BY <1>1, <1>2

\* Whoever holds the row lock of create_application is alone on that slot, and
\* the full check made under the lock stays true until the transaction ends.
THEOREM ReservationExclusive == Spec => []ReservationInv
<1>1. Init => TypeOK /\ ReservationInv  BY InitTypes, InitReservation
<1>2. TypeOK /\ ReservationInv /\ [Next]_vars => (TypeOK /\ ReservationInv)'
  BY StepTypes, StepReservation
<1> QED  BY <1>1, <1>2, PTL DEF Spec

\* No reservation oversells a slot: create_application gives out a seat only
\* while the seats that reservations hold fit the capacity of the locked slot.
THEOREM ReservationsFit == Spec => ReservationWithinCapacity
<1>1. ASSUME TypeOK, ReservationInv, [Next]_vars, NEW l \in Slots,
             (Booked(l)' \ stray') \ Booked(l) # {}
      PROVE  Cardinality(Booked(l)' \ stray') <= slot[l].capacity
  <2>1. ~(Firm(l)' \subseteq Firm(l))  BY <1>1 DEF Firm
  <2>2. PICK u \in Workers :
          Reserving(u, l) /\ Firm(l)' \subseteq Firm(l) \cup {job[u].app}
    BY <1>1, <2>1, FirmSeats
  <2>3. Cardinality(Firm(l)) < slot[l].capacity
    BY <1>1, <2>2 DEF ReservationInv
  <2>4. IsFiniteSet(Firm(l)) /\ Cardinality(Firm(l)) \in Nat
    BY SeatsAreFinite DEF Firm, Booked
  <2>5. /\ IsFiniteSet(Firm(l) \cup {job[u].app})
        /\ Cardinality(Firm(l) \cup {job[u].app}) \in Nat
        /\ Cardinality(Firm(l) \cup {job[u].app}) <= Cardinality(Firm(l)) + 1
    <3>1. /\ IsFiniteSet(Firm(l) \cup {job[u].app})
          /\ Cardinality(Firm(l) \cup {job[u].app})
               = IF job[u].app \in Firm(l) THEN Cardinality(Firm(l))
                                           ELSE Cardinality(Firm(l)) + 1
      BY <2>4, FS_AddElement
    <3> QED  BY <2>4, <3>1
  <2>6. IsFiniteSet(Firm(l)') /\ Cardinality(Firm(l)') \in Nat
    BY <2>2, <2>5, FS_Subset, FS_CardinalityType
  <2>7. Cardinality(Firm(l)') <= Cardinality(Firm(l) \cup {job[u].app})
    BY <2>2, <2>5, FS_Subset
  <2>8. slot[l].capacity \in Nat  BY <1>1 DEF TypeOK, SlotRow
  <2>9. Cardinality(Firm(l)') <= slot[l].capacity
    BY <2>3, <2>4, <2>5, <2>6, <2>7, <2>8
  <2> QED  BY <2>9 DEF Firm
<1>2. TypeOK /\ ReservationInv /\ [Next]_vars
        => [\A l \in Slots :
              (Booked(l)' \ stray') \ Booked(l) # {}
                => Cardinality(Booked(l)' \ stray') <= slot[l].capacity]_vars
  BY <1>1
<1> QED
  BY <1>2, TypeCorrect, ReservationExclusive, PTL
  DEF Spec, ReservationWithinCapacity

-----------------------------------------------------------------------------
(* Money: what a job may still give away was collected before               *)

\* s is about to be given a place or a credit by job j.
Entitles(j, s) ==
  \/ /\ j.pc \in {"lock_slot", "reserve", "letter"}
     /\ StudentOf(j.app) = s /\ j.credit
  \/ /\ j.pc = "reserve"
     /\ StudentOf(j.app) = s /\ j.row.status \in {"PAID", "CANCELLED"}
  \/ /\ j.pc = "letter"
     /\ StudentOf(j.app) = s /\ j.status \in {"PAID", "CANCELLED"}
  \/ /\ j.pc \in {"credit_payment", "cancel", "mark_paid", "paid_application"}
     /\ StudentOf(j.app) = s
  \/ /\ j.pc \in {"refresh", "refresh_save", "grant"}
     /\ s \in j.grants
  \/ /\ j.pc = "profile"
     /\ j.student = s /\ j.credit /\ \E a \in App : StudentOf(a) = s

EntitlementInv ==
  \A w \in Workers, s \in Students : Entitles(job[w], s) => Charged(s)

MoneyInv == NoFreePlacement /\ EntitlementInv

\* What NoFreePlacement allows only to the students who were charged.
Placed(a) ==
  \/ application[a].status \in {"PAID", "CANCELLED"}
  \/ payment[a].is_paid
  \/ credit[StudentOf(a)]

LEMMA InitMoney == Init => MoneyInv
  BY AppParts DEF Init, MoneyInv, NoFreePlacement, EntitlementInv, Entitles,
     Idle, NoApplication, NoPayment

\* The gateway never gives money back.
LEMMA ChargedForEver ==
  ASSUME TypeOK, [Next]_vars, NEW s \in Students, Charged(s)
  PROVE  Charged(s)'
<1> SUFFICES ASSUME NEW a \in App, "ok" \in gateway[a]
             PROVE  "ok" \in gateway'[a]
  BY DEF Charged
<1>0. CASE UNCHANGED gateway  BY <1>0
<1>1. ASSUME NEW w \in Workers, PushSucceeds(w) \/ PushFails(w)
      PROVE  "ok" \in gateway'[a]
  BY <1>1 DEF PushSucceeds, PushFails, TypeOK
<1>2. ASSUME NEW b \in App, NEW result \in {"ok", "fail"},
             PromptAnswered(b, result)
      PROVE  "ok" \in gateway'[a]
  BY <1>2 DEF PromptAnswered, TypeOK
<1>3. ASSUME NEW w \in Workers, Arrive(w) PROVE "ok" \in gateway'[a]
  BY <1>0, <1>3
  DEF Arrive, StartApply, StartCancel, StartInitiate, StartAccept,
      StartWebhook, StartExpire, StartRefresh, StartToggle, StartEdit,
              StartProfile
<1>4. ASSUME NEW w \in Workers, Continue(w) PROVE "ok" \in gateway'[a]
  BY <1>0, <1>1, <1>4
  DEF Continue, LockSlot, RefuseReservation, ReserveSeat, SaveLetter,
      CreatePaidPayment, SpendCredit, FindPayment, CreatePendingPayment,
      ResetPayment,
      CancelApplication, CountBookings, SaveSlotStatus, GrantCredit,
      SaveProfile, ReadSlot, RecordPayment, MarkPaid, SavePaidApplication, FailPayment,
      FailApplication, ExpireApplications, ExpirePayments, QueueRefresh,
      AcceptApplication, ToggleSlot, EditSlot, RowGone
<1> QED
  BY <1>0, <1>2, <1>3, <1>4
  DEF Next, Environment, Crash, DeadlinePasses, WindowCloses, SlotCreate,
      SlotDelete, vars

\* A job that entitles only charged students may replace the one of a worker.
LEMMA GoEntitles ==
  ASSUME TypeOK, EntitlementInv, NEW w \in Workers, NEW j, Go(w, j),
         \A s \in Students : Entitles(j, s) => Charged(s)
  PROVE  \A v \in Workers, s \in Students :
           Entitles(job'[v], s) => Charged(s)
  BY DEF Go, EntitlementInv, TypeOK

LEMMA DoneEntitles ==
  ASSUME TypeOK, EntitlementInv, NEW w \in Workers, Done(w)
  PROVE  \A v \in Workers, s \in Students :
           Entitles(job'[v], s) => Charged(s)
<1>1. \A s \in Students : ~Entitles(Idle, s)  BY DEF Entitles, Idle
<1> QED  BY <1>1, GoEntitles DEF Done

LEMMA AppStepEntitles ==
  ASSUME TypeOK, EntitlementInv, NEW w \in Workers, NEW a \in App,
         NEW step \in AppSteps, Go(w, [pc |-> step, app |-> a]),
         step \in {"credit_payment", "mark_paid", "paid_application"}
           => Charged(StudentOf(a))
  PROVE  \A v \in Workers, s \in Students :
           Entitles(job'[v], s) => Charged(s)
<1> DEFINE j == [pc |-> step, app |-> a]
<1>1. \A s \in Students : Entitles(j, s) => Charged(s)
  BY DEF Entitles, AppSteps
<1> QED  BY <1>1, GoEntitles

LEMMA ArrivalEntitles ==
  ASSUME TypeOK, MoneyInv, NEW w \in Workers, Arrive(w)
  PROVE  \A v \in Workers, s \in Students :
           Entitles(job'[v], s) => Charged(s)
<1> DEFINE Goal == \A v \in Workers, s \in Students :
                     Entitles(job'[v], s) => Charged(s)
<1>i. EntitlementInv  BY DEF MoneyInv
<1>p. \A a \in App : Placed(a) => Charged(StudentOf(a))
  BY DEF MoneyInv, NoFreePlacement, Placed
<1>1. ASSUME NEW a \in App, StartApply(w, a) PROVE Goal
  <2> DEFINE next == [pc |-> "lock_slot", app |-> a,
                      credit |-> credit[StudentOf(a)]]
  <2>1. \A s \in Students : Entitles(next, s) => Charged(s)
    BY <1>p DEF Entitles, Placed
  <2>2. Go(w, next)  BY <1>1 DEF StartApply, Start
  <2> QED  BY <1>i, <2>1, <2>2, GoEntitles
<1>2. ASSUME NEW a \in App, StartCancel(w, a) PROVE Goal
  <2> DEFINE next == [pc |-> "cancel", app |-> a, seen |-> slot[SlotOf(a)]]
  <2>1. Placed(a)  BY <1>2 DEF StartCancel, Placed
  <2>2. \A s \in Students : Entitles(next, s) => Charged(s)
    BY <1>p, <2>1 DEF Entitles
  <2>3. Go(w, next)  BY <1>2 DEF StartCancel, Start
  <2> QED  BY <1>i, <2>2, <2>3, GoEntitles
<1>3. ASSUME NEW a \in App, StartInitiate(w, a) \/ StartAccept(w, a)
      PROVE  Goal
  BY <1>3, <1>i, AppStepEntitles DEF StartInitiate, StartAccept, Start, AppSteps
<1>4. ASSUME NEW a \in App, NEW result \in {"ok", "fail"},
             StartWebhook(w, a, result)
      PROVE  Goal
  <2> DEFINE step == IF result = "ok" THEN "mark_paid" ELSE "fail_payment"
  <2>1. step \in AppSteps  BY DEF AppSteps
  <2>2. step = "mark_paid" => Charged(StudentOf(a))
    BY <1>4 DEF StartWebhook, Charged
  <2>3. step \notin {"credit_payment", "paid_application"}  OBVIOUS
  <2>4. Go(w, [pc |-> step, app |-> a])  BY <1>4 DEF StartWebhook, Start
  <2> HIDE DEF step
  <2> QED  BY <1>i, <2>1, <2>2, <2>3, <2>4, AppStepEntitles
<1>5. CASE StartExpire(w)
  <2> DEFINE next == [pc |-> "expire", ids |-> Overdue]
  <2>1. \A s \in Students : Entitles(next, s) => Charged(s)  BY DEF Entitles
  <2>2. Go(w, next)  BY <1>5 DEF StartExpire, Start
  <2> QED  BY <1>i, <2>1, <2>2, GoEntitles
<1>6. ASSUME NEW l \in Slots, StartRefresh(w, l) PROVE Goal
  <2> DEFINE next == [pc |-> "refresh", slot |-> l, seen |-> slot[l],
                      grants |-> {}]
  <2>1. \A s \in Students : Entitles(next, s) => Charged(s)  BY DEF Entitles
  <2>2. Go(w, next) \/ UNCHANGED job  BY <1>6 DEF StartRefresh
  <2> QED  BY <1>i, <2>1, <2>2, GoEntitles DEF EntitlementInv
<1>7. ASSUME NEW l \in Slots, StartToggle(w, l) PROVE Goal
  <2> DEFINE next == [pc |-> "toggle", slot |-> l,
                      status |-> IF slot[l].status = "PAUSED" THEN "OPEN"
                                                              ELSE "PAUSED"]
  <2>1. \A s \in Students : Entitles(next, s) => Charged(s)  BY DEF Entitles
  <2>2. Go(w, next)  BY <1>7 DEF StartToggle, Start
  <2> QED  BY <1>i, <2>1, <2>2, GoEntitles
<1>8. ASSUME NEW l \in Slots, StartEdit(w, l) PROVE Goal
  <2> DEFINE next(c) == [pc |-> "edit", slot |-> l, status |-> slot[l].status,
                         capacity |-> c]
  <2>1. PICK c \in Capacities : Go(w, next(c))  BY <1>8 DEF StartEdit, Start
  <2>2. \A s \in Students : Entitles(next(c), s) => Charged(s)
    BY DEF Entitles
  <2> QED  BY <1>i, <2>1, <2>2, GoEntitles
<1>9. ASSUME NEW s \in Students, StartProfile(w, s) PROVE Goal
  <2> DEFINE next == [pc |-> "profile", student |-> s, credit |-> credit[s]]
  <2>1. \A t \in Students :
          Entitles(next, t) => credit[t] /\ \E a \in App : StudentOf(a) = t
    BY DEF Entitles
  <2>2. \A t \in Students : Entitles(next, t) => Charged(t)
    BY <1>p, <2>1 DEF Placed
  <2>3. Go(w, next)  BY <1>9 DEF StartProfile, Start
  <2> QED  BY <1>i, <2>2, <2>3, GoEntitles
<1> QED  BY <1>1, <1>2, <1>3, <1>4, <1>5, <1>6, <1>7, <1>8, <1>9 DEF Arrive

\* A worker that goes on passes an entitlement on, or drops it.
LEMMA ContinueEntitles ==
  ASSUME TypeOK, MoneyInv, NEW w \in Workers, Continue(w)
  PROVE  \A v \in Workers, s \in Students :
           Entitles(job'[v], s) => Charged(s)
<1> DEFINE Goal == \A v \in Workers, s \in Students :
                     Entitles(job'[v], s) => Charged(s)
           a == job[w].app
<1>i. EntitlementInv  BY DEF MoneyInv
<1>e. \A s \in Students : Entitles(job[w], s) => Charged(s)
  BY <1>i DEF EntitlementInv
<1>p. \A b \in App : Placed(b) => Charged(StudentOf(b))
  BY DEF MoneyInv, NoFreePlacement, Placed
<1>j. job[w] \in Job  BY JobOfWorker
<1>d. CASE Done(w)  BY <1>d, <1>i, DoneEntitles
<1>1. CASE LockSlot(w)
  <2> DEFINE next == [pc |-> "reserve", app |-> a, credit |-> job[w].credit,
                      row |-> application[a]]
  <2>1. a \in App  BY <1>1, <1>j, JobFields DEF LockSlot, At
  <2>2. \A s \in Students : Entitles(next, s) => Charged(s)
    BY <1>1, <1>e, <1>p, <2>1 DEF LockSlot, At, Entitles, Placed
  <2>3. Go(w, next) \/ Done(w)  BY <1>1 DEF LockSlot
  <2> QED  BY <1>d, <1>i, <2>2, <2>3, GoEntitles
<1>2. CASE ReserveSeat(w)
  <2> DEFINE row == job[w].row
             held == IF row.status \in {"NONE", "UNPAID"} THEN "PENDING"
                                                          ELSE row.status
             next == [pc |-> "letter", app |-> a, credit |-> job[w].credit,
                      status |-> held, can_cancel |-> row.can_cancel]
  <2>1. \A s \in Students : Entitles(next, s) => Charged(s)
    BY <1>2, <1>e DEF ReserveSeat, At, Entitles
  <2>2. Go(w, next)  BY <1>2 DEF ReserveSeat
  <2> QED  BY <1>i, <2>1, <2>2, GoEntitles
<1>3. CASE SaveLetter(w)
  <2> DEFINE step == IF job[w].credit THEN "credit_payment" ELSE "find_payment"
  <2>1. a \in App  BY <1>3, <1>j, JobFields DEF SaveLetter, At
  <2>2. step = "credit_payment" => Charged(StudentOf(a))
    BY <1>3, <1>e, <2>1, AppParts DEF SaveLetter, At, Entitles
  <2>3. step \in AppSteps /\ step \notin {"mark_paid", "paid_application"}
    BY DEF AppSteps
  <2>4. Go(w, [pc |-> step, app |-> a])  BY <1>3 DEF SaveLetter
  <2> HIDE DEF step
  <2> QED  BY <1>i, <2>1, <2>2, <2>3, <2>4, AppStepEntitles
<1>4. CASE \/ CreatePaidPayment(w) \/ FindPayment(w) \/ RecordPayment(w)
           \/ PushFails(w) \/ FailPayment(w) \/ FailApplication(w)
  <2>1. a \in App
    BY <1>4, <1>j, JobFields DEF CreatePaidPayment, FindPayment,
       RecordPayment, PushFails, FailPayment, FailApplication, At, AppSteps
  <2>2. \/ Done(w)
        \/ \E step \in AppSteps \ {"credit_payment", "mark_paid",
                                   "paid_application"} :
             Go(w, [pc |-> step, app |-> a])
    BY <1>4 DEF CreatePaidPayment, FindPayment, RecordPayment, PushFails,
                FailPayment, FailApplication, AppSteps
  <2> QED  BY <1>d, <1>i, <2>1, <2>2, AppStepEntitles
<1>5. CASE MarkPaid(w)
  <2>1. a \in App  BY <1>5, <1>j, JobFields DEF MarkPaid, At, AppSteps
  <2>2. Charged(StudentOf(a))
    BY <1>5, <1>e, <2>1, AppParts DEF MarkPaid, At, Entitles
  <2>3. Go(w, [pc |-> "paid_application", app |-> a])  BY <1>5 DEF MarkPaid
  <2> QED  BY <1>i, <2>1, <2>2, <2>3, AppStepEntitles DEF AppSteps
<1>6. CASE CancelApplication(w)
  <2> DEFINE next == [pc |-> "refresh", slot |-> SlotOf(a),
                      seen |-> job[w].seen, grants |-> {StudentOf(a)}]
  <2>1. a \in App  BY <1>6, <1>j, JobFields DEF CancelApplication, At
  <2>2. Charged(StudentOf(a))
    BY <1>6, <1>e, <2>1, AppParts DEF CancelApplication, At, Entitles
  <2>3. \A s \in Students : Entitles(next, s) => Charged(s)
    BY <2>2 DEF Entitles
  <2>4. Go(w, next)  BY <1>6 DEF CancelApplication
  <2> QED  BY <1>i, <2>3, <2>4, GoEntitles
<1>7. CASE CountBookings(w)
  <2> DEFINE next == [pc |-> "refresh_save", slot |-> job[w].slot,
                      status |-> Refreshed(job[w].slot, job[w].seen),
                      grants |-> job[w].grants]
  <2>1. \A s \in Students : Entitles(next, s) => Charged(s)
    BY <1>7, <1>e DEF CountBookings, At, Entitles
  <2>2. Go(w, next)  BY <1>7 DEF CountBookings
  <2> QED  BY <1>i, <2>1, <2>2, GoEntitles
<1>8. CASE SaveSlotStatus(w)
  <2> DEFINE next == [pc |-> "grant", grants |-> job[w].grants]
  <2>1. \A s \in Students : Entitles(next, s) => Charged(s)
    BY <1>8, <1>e DEF SaveSlotStatus, At, Entitles
  <2>2. Go(w, next) \/ Done(w)  BY <1>8 DEF SaveSlotStatus
  <2> QED  BY <1>d, <1>i, <2>1, <2>2, GoEntitles
<1>9. CASE ReadSlot(w)
  <2> DEFINE next == [pc |-> "refresh", slot |-> SlotOf(a),
                      seen |-> slot[SlotOf(a)], grants |-> {}]
  <2>1. \A s \in Students : Entitles(next, s) => Charged(s)  BY DEF Entitles
  <2>2. Go(w, next)  BY <1>9 DEF ReadSlot
  <2> QED  BY <1>i, <2>1, <2>2, GoEntitles
<1>10. CASE ExpireApplications(w)
  <2> DEFINE next == [pc |-> "expire_payments", ids |-> job[w].ids]
  <2>1. \A s \in Students : Entitles(next, s) => Charged(s)  BY DEF Entitles
  <2>2. Go(w, next)  BY <1>10 DEF ExpireApplications
  <2> QED  BY <1>i, <2>1, <2>2, GoEntitles
<1>11. CASE ExpirePayments(w)
  <2> DEFINE next == [pc |-> "queue_refresh",
                      slots |-> {SlotOf(b) : b \in job[w].ids}]
  <2>1. \A s \in Students : Entitles(next, s) => Charged(s)  BY DEF Entitles
  <2>2. Go(w, next)  BY <1>11 DEF ExpirePayments
  <2> QED  BY <1>i, <2>1, <2>2, GoEntitles
<1>12. CASE QueueRefresh(w)
  <2> DEFINE next(l) == [pc |-> "queue_refresh", slots |-> job[w].slots \ {l}]
  <2>1. PICK l \in job[w].slots : Done(w) \/ Go(w, next(l))
    BY <1>12 DEF QueueRefresh
  <2>2. \A s \in Students : Entitles(next(l), s) => Charged(s)
    BY DEF Entitles
  <2> QED  BY <1>d, <1>i, <2>1, <2>2, GoEntitles
<1> QED
  BY <1>d, <1>1, <1>2, <1>3, <1>4, <1>5, <1>6, <1>7, <1>8, <1>9, <1>10, <1>11,
     <1>12
  DEF Continue, RefuseReservation, SpendCredit, CreatePendingPayment,
      ResetPayment, GrantCredit, SaveProfile,
      PushSucceeds, SavePaidApplication, AcceptApplication, ToggleSlot,
      EditSlot, RowGone

\* No step places a student who was not charged.
LEMMA ContinuePlaces ==
  ASSUME TypeOK, MoneyInv, NEW w \in Workers, Continue(w)
  PROVE  \A b \in App : Placed(b)' => Charged(StudentOf(b))
<1> DEFINE Goal == \A b \in App : Placed(b)' => Charged(StudentOf(b))
           a == job[w].app
<1>p. \A b \in App : Placed(b) => Charged(StudentOf(b))
  BY DEF MoneyInv, NoFreePlacement, Placed
<1>e. \A s \in Students : Entitles(job[w], s) => Charged(s)
  BY DEF MoneyInv, EntitlementInv
<1>j. job[w] \in Job  BY JobOfWorker
<1>0. CASE UNCHANGED <<application, payment, credit>>
  BY <1>0, <1>p DEF Placed
<1>1. CASE ReserveSeat(w)
  <2>1. a \in App  BY <1>1, <1>j, JobFields DEF ReserveSeat, At
  <2>2. \A b \in App : application'[b].status \in {"PAID", "CANCELLED"}
                         => application[b].status \in {"PAID", "CANCELLED"}
    BY <1>1, <2>1 DEF ReserveSeat, TypeOK, ApplicationRow
  <2> QED  BY <1>1, <1>p, <2>2 DEF ReserveSeat, Placed
<1>2. CASE SaveLetter(w)
  <2> DEFINE status == IF job[w].credit THEN "PAID" ELSE job[w].status
  <2>1. a \in App  BY <1>2, <1>j, JobFields DEF SaveLetter, At
  <2>2. status \in {"PAID", "CANCELLED"} => Charged(StudentOf(a))
    BY <1>2, <1>e, <2>1, AppParts DEF SaveLetter, At, Entitles
  <2>3. /\ application'[a].status = status
        /\ \A b \in App \ {a} : application'[b] = application[b]
    BY <1>2, <2>1 DEF SaveLetter, TypeOK, ApplicationRow
  <2> QED  BY <1>2, <1>p, <2>2, <2>3 DEF SaveLetter, Placed
<1>3. CASE CreatePaidPayment(w)
  <2>1. a \in App
    BY <1>3, <1>j, JobFields DEF CreatePaidPayment, At, AppSteps
  <2>2. Charged(StudentOf(a))
    BY <1>3, <1>e, <2>1, AppParts DEF CreatePaidPayment, At, Entitles
  <2>3. \A b \in App \ {a} : payment'[b] = payment[b]
    BY <1>3, <2>1 DEF CreatePaidPayment, TypeOK
  <2> QED  BY <1>3, <1>p, <2>2, <2>3 DEF CreatePaidPayment, Placed
<1>4. CASE SpendCredit(w)
  <2>1. \A s \in Students : credit'[s] => credit[s]
    BY <1>4 DEF SpendCredit, TypeOK
  <2> QED  BY <1>4, <1>p, <2>1, AppParts DEF SpendCredit, Placed
<1>5. CASE \/ CreatePendingPayment(w) \/ ResetPayment(w) \/ RecordPayment(w)
           \/ FailPayment(w) \/ PushSucceeds(w)
  <2>1. a \in App
    BY <1>5, <1>j, JobFields DEF CreatePendingPayment, ResetPayment,
       RecordPayment, FailPayment, PushSucceeds, At, AppSteps
  <2>2. \A b \in App : payment'[b].is_paid => payment[b].is_paid
    BY <1>5, <2>1
    DEF CreatePendingPayment, ResetPayment, RecordPayment, FailPayment,
        PushSucceeds,
        SavePaymentStatus, NewPayment, NoPayment, TypeOK, PaymentRow
  <2> QED  BY <1>5, <1>p, <2>2
           DEF CreatePendingPayment, ResetPayment, RecordPayment, FailPayment,
               PushSucceeds, Placed
<1>6. CASE CancelApplication(w)
  <2>1. a \in App  BY <1>6, <1>j, JobFields DEF CancelApplication, At
  <2>2. Charged(StudentOf(a))
    BY <1>6, <1>e, <2>1, AppParts DEF CancelApplication, At, Entitles
  <2>3. \A b \in App \ {a} : application'[b] = application[b]
    BY <1>6, <2>1 DEF CancelApplication, TypeOK
  <2> QED  BY <1>6, <1>p, <2>2, <2>3 DEF CancelApplication, Placed
<1>7. CASE GrantCredit(w)
  <2>1. \A s \in Students : credit'[s] => credit[s] \/ Charged(s)
    BY <1>7, <1>e DEF GrantCredit, At, Entitles
  <2> QED  BY <1>7, <1>p, <2>1, AppParts DEF GrantCredit, Placed
<1>13. CASE SaveProfile(w)
  <2>1. \A b \in App : credit'[StudentOf(b)] => credit[StudentOf(b)]
                                              \/ Charged(StudentOf(b))
    BY <1>13, <1>e, AppParts DEF SaveProfile, At, Entitles, TypeOK
  <2> QED  BY <1>13, <1>p, <2>1 DEF SaveProfile, Placed
<1>8. CASE MarkPaid(w)
  <2>1. a \in App  BY <1>8, <1>j, JobFields DEF MarkPaid, At, AppSteps
  <2>2. Charged(StudentOf(a))
    BY <1>8, <1>e, <2>1, AppParts DEF MarkPaid, At, Entitles
  <2>3. \A b \in App \ {a} : payment'[b] = payment[b]
    BY <1>8, <2>1 DEF MarkPaid, TypeOK
  <2> QED  BY <1>8, <1>p, <2>2, <2>3 DEF MarkPaid, Placed
<1>9. CASE SavePaidApplication(w)
  <2>1. a \in App
    BY <1>9, <1>j, JobFields DEF SavePaidApplication, At, AppSteps
  <2>2. Charged(StudentOf(a))
    BY <1>9, <1>e, <2>1, AppParts DEF SavePaidApplication, At, Entitles
  <2>3. \A b \in App \ {a} : application'[b] = application[b]
    BY <1>9, <2>1 DEF SavePaidApplication, SaveStatus, TypeOK
  <2> QED  BY <1>9, <1>p, <2>2, <2>3 DEF SavePaidApplication, Placed
<1>10. CASE FailApplication(w) \/ AcceptApplication(w)
  <2>1. a \in App
    BY <1>10, <1>j, JobFields DEF FailApplication, AcceptApplication, At,
       AppSteps
  <2>2. \A b \in App : application'[b].status \in {"PAID", "CANCELLED"}
                         => application[b].status \in {"PAID", "CANCELLED"}
    <3>1. CASE FailApplication(w)
      BY <3>1, <2>1 DEF FailApplication, SaveStatus, TypeOK, ApplicationRow
    <3>2. CASE AcceptApplication(w)
      BY <3>2, <2>1 DEF AcceptApplication, TypeOK, ApplicationRow
    <3> QED  BY <1>10, <3>1, <3>2
  <2> QED  BY <1>10, <1>p, <2>2
           DEF FailApplication, AcceptApplication, Placed
<1>11. CASE ExpireApplications(w)
  <2>1. \A b \in App : application'[b].status \in {"PAID", "CANCELLED"}
                         => application'[b] = application[b]
    BY <1>11 DEF ExpireApplications, TypeOK, ApplicationRow
  <2> QED  BY <1>11, <1>p, <2>1 DEF ExpireApplications, Placed
<1>12. CASE ExpirePayments(w)
  <2>1. \A b \in App : payment'[b].is_paid => payment[b].is_paid
    BY <1>12 DEF ExpirePayments, TypeOK, PaymentRow
  <2> QED  BY <1>12, <1>p, <2>1 DEF ExpirePayments, Placed
<1> QED
  BY <1>0, <1>1, <1>2, <1>3, <1>4, <1>5, <1>6, <1>7, <1>8, <1>9, <1>10,
     <1>11, <1>12, <1>13
  DEF Continue, LockSlot, RefuseReservation, FindPayment, CountBookings,
      SaveSlotStatus, ReadSlot,
      PushFails, QueueRefresh, ToggleSlot, EditSlot, RowGone

LEMMA EnvironmentPlaces ==
  ASSUME TypeOK, MoneyInv, Environment
  PROVE  \A b \in App : Placed(b)' => Charged(StudentOf(b))
<1> DEFINE Goal == \A b \in App : Placed(b)' => Charged(StudentOf(b))
<1>p. \A b \in App : Placed(b) => Charged(StudentOf(b))
  BY DEF MoneyInv, NoFreePlacement, Placed
<1>0. CASE UNCHANGED <<application, payment, credit>>
  BY <1>0, <1>p DEF Placed
<1>1. ASSUME NEW a \in App, DeadlinePasses(a) PROVE Goal
  <2>1. \A b \in App : application'[b].status = application[b].status
    BY <1>1 DEF DeadlinePasses, TypeOK, ApplicationRow
  <2> QED  BY <1>1, <1>p, <2>1 DEF DeadlinePasses, Placed
<1>2. ASSUME NEW a \in App, WindowCloses(a) PROVE Goal
  <2>1. \A b \in App : payment'[b].is_paid = payment[b].is_paid
    BY <1>2 DEF WindowCloses, TypeOK, PaymentRow
  <2> QED  BY <1>2, <1>p, <2>1 DEF WindowCloses, Placed
<1>3. ASSUME NEW l \in Slots, SlotDelete(l) PROVE Goal
  <2>1. \A b \in App :
          \/ application'[b] = NoApplication /\ payment'[b] = NoPayment
          \/ application'[b] = application[b] /\ payment'[b] = payment[b]
    BY <1>3 DEF SlotDelete
  <2>2. NoApplication.status = "NONE" /\ ~NoPayment.is_paid
    BY DEF NoApplication, NoPayment
  <2> QED  BY <1>3, <1>p, <2>1, <2>2 DEF SlotDelete, Placed
<1> QED
  BY <1>0, <1>1, <1>2, <1>3 DEF Environment, PromptAnswered, SlotCreate

LEMMA StepMoney == TypeOK /\ MoneyInv /\ [Next]_vars => MoneyInv'
<1> SUFFICES ASSUME TypeOK, MoneyInv, [Next]_vars PROVE MoneyInv'
  OBVIOUS
<1>1. \A v \in Workers, s \in Students : Entitles(job'[v], s) => Charged(s)
  <2>1. CASE UNCHANGED job  BY <2>1 DEF MoneyInv, EntitlementInv
  <2>2. ASSUME NEW w \in Workers, Crash(w)
        PROVE  \A v \in Workers, s \in Students :
                 Entitles(job'[v], s) => Charged(s)
    BY <2>2, DoneEntitles DEF Crash, MoneyInv
  <2>3. Environment => UNCHANGED job
    BY DEF Environment, DeadlinePasses, WindowCloses, PromptAnswered,
           SlotCreate, SlotDelete
  <2> QED  BY <2>1, <2>2, <2>3, ArrivalEntitles, ContinueEntitles
           DEF Next, vars
<1>2. \A b \in App : Placed(b)' => Charged(StudentOf(b))
  <2>1. CASE UNCHANGED <<application, payment, credit>>
    BY <2>1 DEF MoneyInv, NoFreePlacement, Placed
  <2>2. ASSUME NEW w \in Workers, Arrive(w)
        PROVE  UNCHANGED <<application, payment, credit>>
    BY <2>2 DEF Arrive, StartApply, StartCancel, StartInitiate, StartAccept,
                StartWebhook, StartExpire, StartRefresh, StartToggle, StartEdit,
              StartProfile
  <2> QED  BY <2>1, <2>2, ContinuePlaces, EnvironmentPlaces
           DEF Next, Crash, vars
<1>3. EntitlementInv'
  <2>1. ASSUME NEW v \in Workers, NEW s \in Students, Entitles(job[v], s)'
        PROVE  Charged(s)'
    <3>1. Entitles(job'[v], s)  BY <2>1 DEF Entitles
    <3> QED  BY <1>1, <3>1, ChargedForEver
  <2> QED  BY <2>1 DEF EntitlementInv
<1>4. NoFreePlacement'
  <2>1. ASSUME NEW b \in App, Placed(b)' PROVE Charged(StudentOf(b))'
    BY <1>2, <2>1, AppParts, ChargedForEver
  <2> QED  BY <2>1 DEF NoFreePlacement, Placed
<1> QED  BY <1>3, <1>4 DEF MoneyInv

\* Nobody is placed for nothing: for every interleaving of requests, tasks,
\* webhooks and crashes, a paid or cancelled application, a paid payment or a
\* credit belongs to a student whom the gateway charged.
THEOREM PlacementIsPaidFor == Spec => []NoFreePlacement
<1>1. Init => TypeOK /\ MoneyInv  BY InitTypes, InitMoney
<1>2. TypeOK /\ MoneyInv /\ [Next]_vars => (TypeOK /\ MoneyInv)'
  BY StepTypes, StepMoney
<1>3. MoneyInv => NoFreePlacement  BY DEF MoneyInv
<1> QED  BY <1>1, <1>2, <1>3, PTL DEF Spec
-----------------------------------------------------------------------------
(* Rows: no application without its slot, no payment without application   *)

LiveStatus == SlotStatus \ {"ABSENT", "DELETED"}

\* A reservation works on a slot that exists, and no job is about to write
\* that an application or a slot is not there.
LiveJob(j) ==
  /\ j.pc = "reserve" => SlotExists(SlotOf(j.app))
  /\ j.pc = "letter" => j.status # "NONE"
  /\ j.pc \in {"cancel", "refresh"} => j.seen.status \in LiveStatus
  /\ j.pc \in {"refresh_save", "toggle", "edit"} => j.status \in LiveStatus

\* What the foreign keys promise.
NoOrphans ==
  \A a \in App : /\ Applied(a) => SlotExists(SlotOf(a))
                 /\ HasPayment(a) => Applied(a)

RowsInv == NoOrphans /\ \A w \in Workers : LiveJob(job[w])

LEMMA InitRows == Init => RowsInv
  BY AppParts DEF Init, RowsInv, NoOrphans, LiveJob, Applied, HasPayment,
     NoApplication, NoPayment, Idle

\* Who writes which table.
LEMMA Writers ==
  ASSUME [Next]_vars
  PROVE  /\ \/ UNCHANGED application
            \/ \E w \in Workers :
                 \/ ReserveSeat(w) \/ SaveLetter(w) \/ CancelApplication(w)
                 \/ SavePaidApplication(w) \/ FailApplication(w)
                 \/ ExpireApplications(w) \/ AcceptApplication(w)
            \/ \E a \in App : DeadlinePasses(a)
            \/ \E l \in Slots : SlotDelete(l)
         /\ \/ UNCHANGED payment
            \/ \E w \in Workers :
                 \/ CreatePaidPayment(w) \/ CreatePendingPayment(w)
                 \/ ResetPayment(w) \/ RecordPayment(w) \/ PushSucceeds(w)
                 \/ MarkPaid(w) \/ FailPayment(w) \/ ExpirePayments(w)
            \/ \E a \in App : WindowCloses(a)
            \/ \E l \in Slots : SlotDelete(l)
         /\ \/ UNCHANGED slot
            \/ \E w \in Workers : SaveSlotStatus(w) \/ ToggleSlot(w) \/ EditSlot(w)
            \/ \E l \in Slots : SlotCreate(l) \/ SlotDelete(l)
<1>1. ASSUME NEW w \in Workers, Arrive(w)
      PROVE  UNCHANGED <<application, payment, slot>>
  BY <1>1 DEF Arrive, StartApply, StartCancel, StartInitiate, StartAccept,
              StartWebhook, StartExpire, StartRefresh, StartToggle, StartEdit,
              StartProfile
<1>2. ASSUME NEW w \in Workers, Crash(w)
      PROVE  UNCHANGED <<application, payment, slot>>
  BY <1>2 DEF Crash
<1>3. ASSUME NEW w \in Workers,
             \/ LockSlot(w) \/ RefuseReservation(w) \/ SpendCredit(w)
             \/ FindPayment(w) \/ CountBookings(w) \/ GrantCredit(w)
             \/ PushFails(w) \/ QueueRefresh(w) \/ RowGone(w)
             \/ SaveProfile(w) \/ ReadSlot(w)
      PROVE  UNCHANGED <<application, payment, slot>>
  BY <1>3 DEF LockSlot, RefuseReservation, SpendCredit, FindPayment,
     CountBookings, GrantCredit, PushFails, QueueRefresh, RowGone,
     SaveProfile, ReadSlot
<1>4. ASSUME NEW w \in Workers,
             \/ ReserveSeat(w) \/ SaveLetter(w) \/ CancelApplication(w)
             \/ SavePaidApplication(w) \/ FailApplication(w)
             \/ ExpireApplications(w) \/ AcceptApplication(w)
      PROVE  UNCHANGED <<payment, slot>>
  BY <1>4 DEF ReserveSeat, SaveLetter, CancelApplication, SavePaidApplication,
     FailApplication, ExpireApplications, AcceptApplication
<1>5. ASSUME NEW w \in Workers,
             \/ CreatePaidPayment(w) \/ CreatePendingPayment(w)
             \/ ResetPayment(w) \/ RecordPayment(w) \/ PushSucceeds(w)
             \/ MarkPaid(w) \/ FailPayment(w) \/ ExpirePayments(w)
      PROVE  UNCHANGED <<application, slot>>
  BY <1>5 DEF CreatePaidPayment, CreatePendingPayment, ResetPayment,
     RecordPayment, PushSucceeds, MarkPaid, FailPayment, ExpirePayments
<1>6. ASSUME NEW w \in Workers,
             SaveSlotStatus(w) \/ ToggleSlot(w) \/ EditSlot(w)
      PROVE  UNCHANGED <<application, payment>>
  BY <1>6 DEF SaveSlotStatus, ToggleSlot, EditSlot
<1>7. ASSUME NEW w \in Workers, Continue(w)
      PROVE  \/ UNCHANGED <<application, payment, slot>>
             \/ /\ UNCHANGED <<payment, slot>>
                /\ \/ ReserveSeat(w) \/ SaveLetter(w) \/ CancelApplication(w)
                   \/ SavePaidApplication(w) \/ FailApplication(w)
                   \/ ExpireApplications(w) \/ AcceptApplication(w)
             \/ /\ UNCHANGED <<application, slot>>
                /\ \/ CreatePaidPayment(w) \/ CreatePendingPayment(w)
                   \/ ResetPayment(w) \/ RecordPayment(w) \/ PushSucceeds(w)
                   \/ MarkPaid(w) \/ FailPayment(w) \/ ExpirePayments(w)
             \/ /\ UNCHANGED <<application, payment>>
                /\ SaveSlotStatus(w) \/ ToggleSlot(w) \/ EditSlot(w)
  BY <1>3, <1>4, <1>5, <1>6, <1>7 DEF Continue
<1>8. CASE Environment
  BY <1>8 DEF Environment, DeadlinePasses, WindowCloses, PromptAnswered,
     SlotCreate, SlotDelete
<1> QED  BY <1>1, <1>2, <1>7, <1>8 DEF Next, vars

\* Only a deletion takes a slot away.
LEMMA SlotsSurvive ==
  ASSUME TypeOK, RowsInv, [Next]_vars, NEW l \in Slots, SlotExists(l),
         ~SlotDelete(l)
  PROVE  SlotExists(l)'
<1>1. ASSUME NEW w \in Workers,
             SaveSlotStatus(w) \/ ToggleSlot(w) \/ EditSlot(w)
      PROVE  SlotExists(l)'
  <2>1. job[w].status \in LiveStatus
    BY <1>1 DEF RowsInv, LiveJob, SaveSlotStatus, ToggleSlot, EditSlot, At
  <2>2. slot'[l] = slot[l] \/ slot'[l].status = job[w].status
    BY <1>1 DEF SaveSlotStatus, ToggleSlot, EditSlot, TypeOK, SlotRow
  <2> QED  BY <2>1, <2>2 DEF SlotExists, LiveStatus
<1>2. ASSUME NEW m \in Slots, SlotCreate(m) \/ SlotDelete(m)
      PROVE  SlotExists(l)'
  BY <1>2 DEF SlotCreate, SlotDelete, SlotExists, TypeOK, SlotRow
<1> QED  BY <1>1, <1>2, Writers DEF SlotExists

\* Only the reservation inserts an application.
LEMMA WhoApplies ==
  ASSUME TypeOK, [Next]_vars, NEW a \in App, Applied(a)', ~Applied(a)
  PROVE  \E w \in Workers : ReserveSeat(w) /\ job[w].app = a
<1> USE DEF Applied
<1>1. ASSUME NEW w \in Workers, ReserveSeat(w), job[w].app # a PROVE FALSE
  BY <1>1 DEF ReserveSeat, TypeOK
<1>2. ASSUME NEW w \in Workers,
             \/ SaveLetter(w) \/ CancelApplication(w)
             \/ SavePaidApplication(w) \/ FailApplication(w)
             \/ ExpireApplications(w) \/ AcceptApplication(w)
      PROVE  FALSE
  BY <1>2 DEF SaveLetter, CancelApplication, SavePaidApplication,
     FailApplication, ExpireApplications, AcceptApplication, SaveStatus,
     TypeOK, ApplicationRow
<1>3. ASSUME NEW b \in App, DeadlinePasses(b) PROVE FALSE
  BY <1>3 DEF DeadlinePasses, TypeOK, ApplicationRow
<1>4. ASSUME NEW l \in Slots, SlotDelete(l) PROVE FALSE
  BY <1>4 DEF SlotDelete, NoApplication
<1> QED  BY <1>1, <1>2, <1>3, <1>4, Writers

LEMMA WhoPays ==
  ASSUME TypeOK, [Next]_vars, NEW a \in App, HasPayment(a)', ~HasPayment(a)
  PROVE  Applied(a) /\ UNCHANGED application
<1> USE DEF HasPayment
<1>1. ASSUME NEW w \in Workers,
             CreatePaidPayment(w) \/ CreatePendingPayment(w) \/ RecordPayment(w)
      PROVE  Applied(a) /\ UNCHANGED application
  BY <1>1 DEF CreatePaidPayment, CreatePendingPayment, RecordPayment,
     SavePaymentStatus, TypeOK, PaymentRow
<1>2. ASSUME NEW w \in Workers,
             \/ ResetPayment(w) \/ PushSucceeds(w) \/ MarkPaid(w)
             \/ FailPayment(w) \/ ExpirePayments(w)
      PROVE  FALSE
  BY <1>2 DEF ResetPayment, PushSucceeds, MarkPaid, FailPayment,
     ExpirePayments, SavePaymentStatus, TypeOK, PaymentRow
<1>3. ASSUME NEW b \in App, WindowCloses(b) PROVE FALSE
  BY <1>3 DEF WindowCloses, TypeOK, PaymentRow
<1>4. ASSUME NEW l \in Slots, SlotDelete(l) PROVE FALSE
  BY <1>4 DEF SlotDelete, NoPayment
<1> QED  BY <1>1, <1>2, <1>3, <1>4, Writers

\* A job that goes on writes a status that it found on a living slot.
LEMMA JobsStayLive ==
  ASSUME TypeOK, RowsInv, NEW w \in Workers, Arrive(w) \/ Continue(w)
  PROVE  \A v \in Workers : LiveJob(job'[v])
<1> DEFINE Goal == \A v \in Workers : LiveJob(job'[v])
<1>r. /\ \A v \in Workers : LiveJob(job[v])
      /\ \A b \in App : Applied(b) => SlotExists(SlotOf(b))
  BY DEF RowsInv, NoOrphans
<1>g. ASSUME NEW next, Go(w, next), LiveJob(next) PROVE Goal
  BY <1>r, <1>g DEF Go, TypeOK
<1>s. ASSUME NEW step \in AppSteps, NEW a PROVE LiveJob([pc |-> step, app |-> a])
  BY DEF LiveJob, AppSteps
<1>i. LiveJob(Idle)  BY DEF LiveJob, Idle
<1>d. CASE Done(w)  BY <1>d, <1>g, <1>i DEF Done
<1>u. CASE UNCHANGED job  BY <1>r, <1>u
<1>l. \A l \in Slots : SlotExists(l) => slot[l].status \in LiveStatus
  BY DEF TypeOK, SlotRow, SlotExists, LiveStatus
<1>j. job[w] \in Job  BY JobOfWorker
<1>1. CASE Arrive(w)
  <2>1. ASSUME NEW a \in App, StartApply(w, a) PROVE Goal
    BY <1>g, <2>1 DEF StartApply, Start, LiveJob
  <2>2. ASSUME NEW a \in App, StartCancel(w, a) PROVE Goal
    BY <1>g, <1>r, <1>l, <2>2, AppParts DEF StartCancel, Start, LiveJob
  <2>3. ASSUME NEW a \in App, StartInitiate(w, a) \/ StartAccept(w, a) PROVE Goal
    BY <1>g, <1>s, <2>3 DEF StartInitiate, StartAccept, Start, AppSteps
  <2>4. ASSUME NEW a \in App, NEW result \in {"ok", "fail"},
               StartWebhook(w, a, result)
        PROVE  Goal
    BY <1>g, <1>s, <2>4 DEF StartWebhook, Start, AppSteps
  <2>5. CASE StartExpire(w)
    BY <1>g, <2>5 DEF StartExpire, Start, LiveJob
  <2>6. ASSUME NEW l \in Slots, StartRefresh(w, l) PROVE Goal
    <3>1. CASE SlotExists(l)
      BY <1>g, <1>l, <2>6, <3>1 DEF StartRefresh, LiveJob
    <3> QED  BY <1>u, <2>6, <3>1 DEF StartRefresh
  <2>7. ASSUME NEW l \in Slots, StartToggle(w, l) PROVE Goal
    BY <1>g, <2>7 DEF StartToggle, Start, LiveJob, LiveStatus, SlotStatus
  <2>8. ASSUME NEW l \in Slots, StartEdit(w, l) PROVE Goal
    BY <1>g, <1>l, <2>8 DEF StartEdit, Start, LiveJob
  <2>9. ASSUME NEW s \in Students, StartProfile(w, s) PROVE Goal
    BY <1>g, <2>9 DEF StartProfile, Start, LiveJob
  <2> QED
    BY <1>1, <2>1, <2>2, <2>3, <2>4, <2>5, <2>6, <2>7, <2>8, <2>9 DEF Arrive
<1>2. CASE LockSlot(w)
  BY <1>d, <1>g, <1>2 DEF LockSlot, LiveJob
<1>3. CASE ReserveSeat(w)
  BY <1>g, <1>3 DEF ReserveSeat, LiveJob
<1>4. CASE \/ SaveLetter(w) \/ CreatePaidPayment(w) \/ FindPayment(w)
           \/ RecordPayment(w) \/ PushFails(w) \/ MarkPaid(w) \/ FailPayment(w)
           \/ FailApplication(w)
  <2>1. Done(w) \/ \E step \in AppSteps : Go(w, [pc |-> step, app |-> job[w].app])
    BY <1>4 DEF SaveLetter, CreatePaidPayment, FindPayment, RecordPayment,
                PushFails, MarkPaid, FailPayment, FailApplication, AppSteps
  <2> QED  BY <1>d, <1>g, <1>s, <2>1
<1>5. CASE CancelApplication(w)
  BY <1>g, <1>r, <1>5 DEF CancelApplication, At, LiveJob
<1>6. CASE CountBookings(w)
  <2>1. Refreshed(job[w].slot, job[w].seen) \in LiveStatus
    BY <1>r, <1>6 DEF CountBookings, At, LiveJob, LiveStatus, SlotStatus, Refreshed
  <2> QED  BY <1>g, <1>6, <2>1 DEF CountBookings, LiveJob
<1>7. CASE ReadSlot(w)
  <2>1. job[w].app \in App
    BY <1>7, <1>j, JobFields DEF ReadSlot, At, AppSteps
  <2> QED  BY <1>g, <1>r, <1>l, <1>7, <2>1, AppParts DEF ReadSlot, LiveJob
<1>8. CASE SaveSlotStatus(w)
  BY <1>d, <1>g, <1>8 DEF SaveSlotStatus, LiveJob
<1>9. CASE ExpireApplications(w) \/ ExpirePayments(w)
  BY <1>g, <1>9 DEF ExpireApplications, ExpirePayments, LiveJob
<1>10. CASE QueueRefresh(w)
  BY <1>d, <1>g, <1>10 DEF QueueRefresh, LiveJob
<1> QED
  BY <1>d, <1>1, <1>2, <1>3, <1>4, <1>5, <1>6, <1>7, <1>8, <1>9, <1>10
  DEF Continue, RefuseReservation, SpendCredit, CreatePendingPayment,
      ResetPayment, GrantCredit, SaveProfile, PushSucceeds, SavePaidApplication,
      AcceptApplication, ToggleSlot, EditSlot, RowGone


\* Only the deletion of its slot takes an application away.
LEMMA ApplicationsSurvive ==
  ASSUME TypeOK, RowsInv, [Next]_vars, NEW a \in App, Applied(a),
         ~SlotDelete(SlotOf(a))
  PROVE  Applied(a)'
<1>1. ASSUME NEW w \in Workers, SaveLetter(w) PROVE Applied(a)'
  <2>1. job[w].status # "NONE"
    BY <1>1 DEF RowsInv, LiveJob, SaveLetter, At
  <2> QED  BY <1>1, <2>1 DEF SaveLetter, Applied, TypeOK, ApplicationRow
<1>2. ASSUME NEW w \in Workers,
             \/ ReserveSeat(w) \/ CancelApplication(w)
             \/ SavePaidApplication(w) \/ FailApplication(w)
             \/ ExpireApplications(w) \/ AcceptApplication(w)
      PROVE  Applied(a)'
  BY <1>2 DEF ReserveSeat, CancelApplication, SavePaidApplication,
     FailApplication, ExpireApplications, AcceptApplication, SaveStatus,
     Applied, TypeOK, ApplicationRow
<1>3. ASSUME NEW b \in App, DeadlinePasses(b) PROVE Applied(a)'
  BY <1>3 DEF DeadlinePasses, Applied, TypeOK, ApplicationRow
<1>4. ASSUME NEW l \in Slots, SlotDelete(l) PROVE Applied(a)'
  BY <1>4 DEF SlotDelete, Applied
<1> QED  BY <1>1, <1>2, <1>3, <1>4, Writers DEF Applied

LEMMA StepRows == TypeOK /\ RowsInv /\ [Next]_vars => RowsInv'
<1> SUFFICES ASSUME TypeOK, RowsInv, [Next]_vars PROVE RowsInv'
  OBVIOUS
<1>1. ASSUME NEW a \in App, Applied(a)' PROVE SlotExists(SlotOf(a))'
  <2>1. CASE Applied(a)
    <3>1. SlotExists(SlotOf(a))  BY <2>1 DEF RowsInv, NoOrphans
    <3>2. ~SlotDelete(SlotOf(a))
      BY <1>1 DEF SlotDelete, Applied, NoApplication
    <3> QED  BY <3>1, <3>2, SlotsSurvive, AppParts
  <2>2. CASE ~Applied(a)
    <3>1. PICK w \in Workers : ReserveSeat(w) /\ job[w].app = a
      BY <1>1, <2>2, WhoApplies
    <3> QED
      BY <3>1 DEF RowsInv, LiveJob, ReserveSeat, At, SlotExists
  <2> QED  BY <2>1, <2>2
<1>2. ASSUME NEW a \in App, HasPayment(a)' PROVE Applied(a)'
  <2>1. CASE HasPayment(a)
    <3>1. Applied(a)  BY <2>1 DEF RowsInv, NoOrphans
    <3>2. ~SlotDelete(SlotOf(a))
      BY <1>2 DEF SlotDelete, HasPayment, NoPayment
    <3> QED  BY <3>1, <3>2, ApplicationsSurvive
  <2>2. CASE ~HasPayment(a)
    BY <1>2, <2>2, WhoPays DEF Applied
  <2> QED  BY <2>1, <2>2
<1>3. \A v \in Workers : LiveJob(job'[v])
  <2>1. CASE UNCHANGED job  BY <2>1 DEF RowsInv
  <2>2. ASSUME NEW w \in Workers, Crash(w)
        PROVE  \A v \in Workers : LiveJob(job'[v])
    BY <2>2 DEF Crash, Done, Go, RowsInv, LiveJob, Idle, TypeOK
  <2> QED  BY <2>1, <2>2, JobsStayLive
           DEF Next, Environment, DeadlinePasses, WindowCloses,
               PromptAnswered, SlotCreate, SlotDelete, vars
<1>4. ASSUME NEW v \in Workers PROVE LiveJob(job[v])'
  <2>1. ASSUME job'[v].pc = "reserve" PROVE SlotExists(SlotOf(job[v].app))'
    <3>1. SlotExists(SlotOf(job'[v].app))  BY <1>3, <2>1 DEF LiveJob
    <3>2. job'[v].app \in App
      BY <2>1, StepTypes, JobFields DEF TypeOK
    <3>3. ~SlotDelete(SlotOf(job'[v].app))
      BY <2>1 DEF SlotDelete, Locked, At
    <3> QED  BY <3>1, <3>2, <3>3, SlotsSurvive, AppParts DEF SlotExists
  <2> QED  BY <1>3, <2>1 DEF LiveJob
<1> QED  BY <1>1, <1>2, <1>4 DEF RowsInv, NoOrphans

\* No application outlives its slot and no payment its application: what is
\* charged and booked can always be traced to a slot on offer, whatever races
\* with the deletion of that slot.
THEOREM RowsHaveOwners == Spec => []NoOrphans
<1>1. RowsInv => NoOrphans  BY DEF RowsInv
<1> QED  BY <1>1, InitRows, InitTypes, StepRows, StepTypes, PTL DEF Spec
-----------------------------------------------------------------------------
(* Paid places: what a job that is not behind has read is still true       *)

\* A payment is PAID only together with the mark that mark_paid leaves.
PaidIsMarked == \A a \in App : payment[a].status = "PAID" => payment[a].is_paid

\* The steps that leave a payment unpaid, or their application.
UnpaidSteps == {"reset_payment", "initiate", "push", "fail_payment",
                "fail_application"}

\* Steps of jobs that have an application of their own.
OwnSteps == AppSteps \cup {"lock_slot", "reserve", "letter", "cancel"}

\* What the guards that led job j to its step found and a decision about its
\* application would have put behind.
UpToDate(j) ==
  LET a == j.app
  IN /\ j.pc \in UnpaidSteps => payment[a].status # "PAID"
     /\ j.pc = "fail_application" => HasPayment(a)
     /\ j.pc = "reserve" /\ application[a].status \in {"PAID", "CANCELLED"}
          => j.row.status = application[a].status
     /\ j.pc = "letter" /\ application[a].status \in {"PAID", "CANCELLED"}
          => j.status = application[a].status
     /\ j.pc = "cancel" => ~application[a].is_accepted
     /\ j.pc = "accept" => application[a].status # "CANCELLED"
     /\ j.pc = "credit_payment" /\ ~HasPayment(a) /\ a \notin harmed
          => application[a].status = "PAID"

JobsInv == \A w \in Workers :
             job[w].pc \in OwnSteps /\ <<w, job[w].app>> \notin behind
               => UpToDate(job[w])

RaceInv == PaidIsMarked /\ JobsInv /\ PaidPlaceStands

LEMMA InitRaces == RaceInit => RaceInv
  BY DEF RaceInit, Init, RaceInv, PaidIsMarked, JobsInv, PaidPlaceStands,
         OwnSteps, AppSteps, Idle, NoPayment

LEMMA OwnApp ==
  ASSUME NEW j \in Job, j.pc \in OwnSteps
  PROVE  j.app \in App /\ WorksOn(j, j.app)
<1>1. j.app \in App  BY JobFields DEF OwnSteps
<1>2. "app" \in DOMAIN j  BY DEF Job, OwnSteps, AppSteps
<1> QED  BY <1>1, <1>2 DEF WorksOn

\* A worker that goes on changes its own job, and no other.
Moves(w) == /\ job'[w] # job[w]
            /\ \A v \in Workers \ {w} : job'[v] = job[v]

LEMMA GoMoves ==
  ASSUME TypeOK, NEW w \in Workers, NEW next, Go(w, next),
         next.pc # job[w].pc
  PROVE  Moves(w)
<1>1. job'[w] = next  BY DEF Go, TypeOK
<1>2. next # job[w]  OBVIOUS
<1> QED  BY <1>1, <1>2 DEF Go, Moves, TypeOK

LEMMA WhoContinues ==
  ASSUME TypeOK, NEW w \in Workers, Continue(w)
  PROVE  Moves(w)
<1>d. ASSUME Done(w), job[w].pc # "idle" PROVE Moves(w)
  BY <1>d, GoMoves DEF Done, Idle
<1>1. CASE LockSlot(w)
  BY <1>d, <1>1, GoMoves DEF LockSlot, At
<1>2. CASE RefuseReservation(w)
  BY <1>d, <1>2 DEF RefuseReservation, At
<1>3. CASE ReserveSeat(w)
  BY <1>3, GoMoves DEF ReserveSeat, At
<1>4. CASE SaveLetter(w)
  <2>1. Go(w, [pc |-> IF job[w].credit THEN "credit_payment"
                                       ELSE "find_payment", app |-> job[w].app])
    BY <1>4 DEF SaveLetter
  <2> QED  BY <1>4, <2>1, GoMoves DEF SaveLetter, At
<1>5. CASE \/ CreatePaidPayment(w) \/ SpendCredit(w) \/ FindPayment(w)
           \/ CreatePendingPayment(w) \/ ResetPayment(w)
  BY <1>d, <1>5, GoMoves DEF CreatePaidPayment, SpendCredit, FindPayment,
     CreatePendingPayment, ResetPayment, At
<1>6. CASE \/ CancelApplication(w) \/ CountBookings(w) \/ SaveSlotStatus(w)
           \/ GrantCredit(w) \/ SaveProfile(w)
  BY <1>d, <1>6, GoMoves DEF CancelApplication, CountBookings, SaveSlotStatus,
     GrantCredit, SaveProfile, At
<1>7. CASE \/ RecordPayment(w) \/ PushSucceeds(w) \/ PushFails(w) \/ MarkPaid(w)
           \/ SavePaidApplication(w) \/ FailPayment(w) \/ FailApplication(w)
           \/ ReadSlot(w)
  BY <1>d, <1>7, GoMoves DEF RecordPayment, PushSucceeds, PushFails, MarkPaid,
     SavePaidApplication, FailPayment, FailApplication, ReadSlot, At
<1>8. CASE ExpireApplications(w) \/ ExpirePayments(w) \/ AcceptApplication(w)
           \/ ToggleSlot(w) \/ EditSlot(w) \/ RowGone(w)
  BY <1>d, <1>8, GoMoves DEF ExpireApplications, ExpirePayments,
     AcceptApplication, ToggleSlot, EditSlot, RowGone, SaveSteps, At
<1>9. CASE QueueRefresh(w)
  <2> DEFINE next(l) == [pc |-> "queue_refresh", slots |-> job[w].slots \ {l}]
  <2>1. PICK l \in job[w].slots : Done(w) \/ Go(w, next(l))
    BY <1>9 DEF QueueRefresh
  <2>2. next(l).slots # job[w].slots  OBVIOUS
  <2>3. next(l) # job[w]  BY <2>2
  <2>4. CASE Go(w, next(l))
    <3> HIDE DEF next
    <3> QED  BY <2>3, <2>4 DEF Go, Moves, TypeOK
  <2> QED  BY <1>d, <1>9, <2>1, <2>4 DEF QueueRefresh, At
<1> QED
  BY <1>1, <1>2, <1>3, <1>4, <1>5, <1>6, <1>7, <1>8, <1>9 DEF Continue

LEMMA WhoArrives ==
  ASSUME TypeOK, NEW w \in Workers, Arrive(w)
  PROVE  /\ job[w] = Idle
         /\ \A v \in Workers \ {w} : job'[v] = job[v]
<1>1. job[w] = Idle /\ \/ \E next : Go(w, next)
                       \/ UNCHANGED job
  BY DEF Arrive, StartApply, StartCancel, StartInitiate, StartAccept,
         StartWebhook, StartExpire, StartRefresh, StartToggle, StartEdit,
         StartProfile, Start
<1> QED  BY <1>1 DEF Go, TypeOK

\* The assumptions of the lemmas about one step.
RaceStep == TypeOK /\ RowsInv /\ RaceInv /\ Next /\ Remember

\* Whoever writes an application that stays unharmed is up to date.
LEMMA WriterUpToDate ==
  ASSUME RaceStep, NEW w \in Workers, Continue(w), job[w].pc \in OwnSteps,
         job[w].app \notin harmed', Written(job[w].app)
  PROVE  UpToDate(job[w])
<1>1. job[w].app \in App  BY JobOfWorker, OwnApp DEF RaceStep
<1>2. Acts(w)  BY WhoContinues DEF RaceStep, Moves, Acts
<1>3. <<w, job[w].app>> \notin behind  BY <1>1, <1>2 DEF RaceStep, Remember
<1> QED  BY <1>3 DEF RaceStep, RaceInv, JobsInv

LEMMA HarmStays == RaceStep => harmed \subseteq harmed'
  BY DEF RaceStep, Remember

\* A place that stands, as a row of the application.
Stands(row) == row.status = "PAID" \/ (row.status = "CANCELLED" /\ ~row.is_accepted)

LEMMA PlaceKept ==
  ASSUME RaceStep, NEW a \in App, a \notin harmed', Stands(application[a]),
         HasPayment(a) => payment[a].status = "PAID"
  PROVE  Stands(application'[a]) \/ application'[a].status = "NONE"
<1> DEFINE Goal == Stands(application'[a]) \/ application'[a].status = "NONE"
<1>t. TypeOK  BY DEF RaceStep
<1>0. CASE application'[a] = application[a]  BY <1>0
<1>w. ASSUME NEW w \in Workers, Continue(w), job[w].pc \in OwnSteps,
             job[w].app = a, application'[a] # application[a]
      PROVE  UpToDate(job[w])
  BY <1>w, WriterUpToDate DEF Written
<1>1. ASSUME NEW w \in Workers, ReserveSeat(w) PROVE Goal
  <2>1. CASE job[w].app # a  BY <1>0, <1>1, <1>t, <2>1 DEF ReserveSeat, TypeOK
  <2>2. CASE job[w].app = a /\ application'[a] # application[a]
    <3>1. UpToDate(job[w])
      BY <1>1, <1>w, <2>2 DEF ReserveSeat, At, OwnSteps, Continue
    <3>2. job[w].row.status \in {"PAID", "CANCELLED"}
      BY <1>1, <2>2, <3>1 DEF UpToDate, Stands, ReserveSeat, At
    <3> QED  BY <1>1, <2>2, <3>2 DEF ReserveSeat
  <2> QED  BY <1>0, <2>1, <2>2
<1>2. ASSUME NEW w \in Workers, SaveLetter(w) PROVE Goal
  <2>1. CASE job[w].app # a  BY <1>0, <1>2, <1>t, <2>1 DEF SaveLetter, TypeOK
  <2>2. CASE job[w].app = a /\ application'[a] # application[a]
    <3>1. UpToDate(job[w])
      BY <1>2, <1>w, <2>2 DEF SaveLetter, At, OwnSteps, Continue
    <3>2. job[w].status = application[a].status
      BY <1>2, <2>2, <3>1 DEF UpToDate, Stands, SaveLetter, At
    <3>3. /\ application'[a].status \in {"PAID", job[w].status}
          /\ application'[a].is_accepted = application[a].is_accepted
      BY <1>2, <1>t, <2>2 DEF SaveLetter, TypeOK, ApplicationRow
    <3> QED  BY <3>2, <3>3 DEF Stands
  <2> QED  BY <1>0, <2>1, <2>2
<1>3. ASSUME NEW w \in Workers, CancelApplication(w) PROVE Goal
  <2>1. CASE job[w].app # a
    BY <1>0, <1>3, <1>t, <2>1 DEF CancelApplication, TypeOK
  <2>2. CASE job[w].app = a /\ application'[a] # application[a]
    <3>1. UpToDate(job[w])
      BY <1>3, <1>w, <2>2 DEF CancelApplication, At, OwnSteps, Continue
    <3>2. ~application[a].is_accepted
      BY <1>3, <2>2, <3>1 DEF UpToDate, CancelApplication, At
    <3> QED  BY <1>3, <1>t, <2>2, <3>2
             DEF CancelApplication, Stands, TypeOK, ApplicationRow
  <2> QED  BY <1>0, <2>1, <2>2
<1>4. ASSUME NEW w \in Workers, SavePaidApplication(w) PROVE Goal
  BY <1>0, <1>4, <1>t
  DEF SavePaidApplication, SaveStatus, Stands, TypeOK, ApplicationRow
<1>5. ASSUME NEW w \in Workers, FailApplication(w) PROVE Goal
  <2>1. CASE job[w].app # a
    BY <1>0, <1>5, <1>t, <2>1 DEF FailApplication, SaveStatus, TypeOK
  <2>2. CASE job[w].app = a /\ application'[a] # application[a]
    <3>1. UpToDate(job[w])
      BY <1>5, <1>w, <2>2 DEF FailApplication, At, OwnSteps, AppSteps, Continue
    <3>2. HasPayment(a) /\ payment[a].status # "PAID"
      BY <1>5, <2>2, <3>1 DEF UpToDate, UnpaidSteps, FailApplication, At
    <3> QED  BY <3>2
  <2> QED  BY <1>0, <2>1, <2>2
<1>6. ASSUME NEW w \in Workers, ExpireApplications(w) PROVE Goal
  BY <1>0, <1>6 DEF ExpireApplications, Stands
<1>7. ASSUME NEW w \in Workers, AcceptApplication(w) PROVE Goal
  <2>1. CASE job[w].app # a
    BY <1>0, <1>7, <1>t, <2>1 DEF AcceptApplication, TypeOK
  <2>2. CASE job[w].app = a /\ application'[a] # application[a]
    <3>1. UpToDate(job[w])
      BY <1>7, <1>w, <2>2 DEF AcceptApplication, At, OwnSteps, AppSteps, Continue
    <3>2. application[a].status = "PAID"
      BY <1>7, <2>2, <3>1 DEF UpToDate, Stands, AcceptApplication, At
    <3> QED  BY <1>7, <1>t, <2>2, <3>2
             DEF AcceptApplication, Stands, TypeOK, ApplicationRow
  <2> QED  BY <1>0, <2>1, <2>2
<1>8. ASSUME NEW b \in App, DeadlinePasses(b) PROVE Goal
  BY <1>0, <1>8, <1>t DEF DeadlinePasses, Stands, TypeOK
<1>9. ASSUME NEW l \in Slots, SlotDelete(l) PROVE Goal
  BY <1>0, <1>9 DEF SlotDelete, NoApplication
<1> QED
  BY <1>0, <1>1, <1>2, <1>3, <1>4, <1>5, <1>6, <1>7, <1>8, <1>9, Writers
  DEF RaceStep

\* A verified payment goes only with its row.
LEMMA PaymentKept ==
  ASSUME RaceStep, NEW a \in App, a \notin harmed', payment[a].status = "PAID",
         payment'[a].is_paid
  PROVE  payment'[a].status = "PAID"
<1> DEFINE Goal == payment'[a].status = "PAID"
<1>t. TypeOK  BY DEF RaceStep
<1>0. CASE payment'[a] = payment[a]  BY <1>0
<1>w. ASSUME NEW w \in Workers, Continue(w), job[w].pc \in UnpaidSteps,
             job[w].app = a, payment'[a] # payment[a]
      PROVE  FALSE
  BY <1>w, WriterUpToDate DEF Written, UpToDate, UnpaidSteps, OwnSteps, AppSteps
<1>1. ASSUME NEW w \in Workers, CreatePaidPayment(w) \/ CreatePendingPayment(w)
      PROVE  Goal
  BY <1>0, <1>1, <1>t
  DEF CreatePaidPayment, CreatePendingPayment, HasPayment, TypeOK
<1>2. ASSUME NEW w \in Workers, ResetPayment(w) \/ FailPayment(w)
      PROVE  Goal
  <2>1. job[w].pc \in UnpaidSteps /\ Continue(w)
    BY <1>2 DEF ResetPayment, FailPayment, At, UnpaidSteps, Continue
  <2>2. job[w].app # a => payment'[a] = payment[a]
    BY <1>2, <1>t DEF ResetPayment, FailPayment, SavePaymentStatus, TypeOK
  <2> QED  BY <1>0, <1>w, <2>1, <2>2
<1>3. ASSUME NEW w \in Workers, RecordPayment(w) PROVE Goal
  <2>1. job[w].pc \in UnpaidSteps /\ Continue(w)
    BY <1>3 DEF RecordPayment, At, UnpaidSteps, Continue
  <2>2. job[w].app # a => payment'[a] = payment[a]
    BY <1>3, <1>t DEF RecordPayment, SavePaymentStatus, TypeOK
  <2> QED  BY <1>0, <1>w, <2>1, <2>2
<1>4. ASSUME NEW w \in Workers, PushSucceeds(w) \/ MarkPaid(w) PROVE Goal
  BY <1>0, <1>4, <1>t DEF PushSucceeds, MarkPaid, TypeOK, PaymentRow
<1>5. ASSUME NEW w \in Workers, ExpirePayments(w) PROVE Goal
  BY <1>0, <1>5 DEF ExpirePayments
<1>6. ASSUME NEW b \in App, WindowCloses(b) PROVE Goal
  BY <1>0, <1>6, <1>t DEF WindowCloses, TypeOK, PaymentRow
<1>7. ASSUME NEW l \in Slots, SlotDelete(l) PROVE Goal
  BY <1>0, <1>7 DEF SlotDelete, NoPayment
<1> QED
  BY <1>0, <1>1, <1>2, <1>3, <1>4, <1>5, <1>6, <1>7, Writers DEF RaceStep

\* Who verifies a payment: a webhook, or the spending of a credit.
LEMMA PaymentArises ==
  ASSUME TypeOK, Next, NEW a \in App, ~payment[a].is_paid, payment'[a].is_paid
  PROVE  /\ payment'[a].status = "PAID"
         /\ \E w \in Workers :
              /\ job[w].app = a
              /\ \/ MarkPaid(w)
                 \/ CreatePaidPayment(w) /\ ~HasPayment(a)
<1> DEFINE Goal == /\ payment'[a].status = "PAID"
                   /\ \E w \in Workers :
                        /\ job[w].app = a
                        /\ \/ MarkPaid(w)
                           \/ CreatePaidPayment(w) /\ ~HasPayment(a)
<1>1. ASSUME NEW w \in Workers, MarkPaid(w) PROVE Goal
  BY <1>1 DEF MarkPaid, TypeOK, PaymentRow
<1>2. ASSUME NEW w \in Workers, CreatePaidPayment(w) PROVE Goal
  <2>1. job[w].app = a /\ ~HasPayment(a)
    BY <1>2 DEF CreatePaidPayment, TypeOK
  <2>2. payment'[a].status = "PAID"
    BY <1>2, <2>1 DEF CreatePaidPayment, CreditedPayment, TypeOK
  <2> QED  BY <1>2, <2>1, <2>2
<1>3. ASSUME NEW w \in Workers, CreatePendingPayment(w) \/ RecordPayment(w)
      PROVE  FALSE
  BY <1>3 DEF CreatePendingPayment, RecordPayment, SavePaymentStatus,
     NewPayment, NoPayment, TypeOK, PaymentRow
<1>4. ASSUME NEW w \in Workers, ResetPayment(w) \/ FailPayment(w)
                                \/ PushSucceeds(w)
      PROVE  FALSE
  BY <1>4 DEF ResetPayment, FailPayment, PushSucceeds, SavePaymentStatus,
     TypeOK, PaymentRow
<1>5. ASSUME NEW w \in Workers, ExpirePayments(w) PROVE FALSE
  BY <1>5 DEF ExpirePayments, TypeOK, PaymentRow
<1>6. ASSUME NEW b \in App, WindowCloses(b) PROVE FALSE
  BY <1>6 DEF WindowCloses, TypeOK, PaymentRow
<1>7. ASSUME NEW l \in Slots, SlotDelete(l) PROVE FALSE
  BY <1>7 DEF SlotDelete, NoPayment
<1> QED  BY <1>1, <1>2, <1>3, <1>4, <1>5, <1>6, <1>7, Writers

\* Who owes the application its status pays, dies, or still owes it.
LEMMA OwedKept ==
  ASSUME RaceStep, NEW a \in App, a \notin harmed', Owed(a),
         payment[a].status = "PAID"
  PROVE  Owed(a)' \/ application'[a].status = "PAID"
<1>t. TypeOK  BY DEF RaceStep
<1>1. PICK w \in Workers : At(w, "paid_application") /\ job[w].app = a
  BY DEF Owed
<1>2. CASE job'[w] = job[w]  BY <1>1, <1>2 DEF Owed, At
<1>3. CASE Continue(w)
  <2>1. ~RowGone(w)
    <3>1. SlotExists(SlotOf(a))
      BY DEF RaceStep, RowsInv, NoOrphans, HasPayment
    <3> QED  BY <1>1, <3>1 DEF RowGone, SlotOfJob, At
  <2>2. SavePaidApplication(w)
    BY <1>1, <1>3, <2>1
    DEF Continue, At, LockSlot, RefuseReservation, ReserveSeat, SaveLetter,
        CreatePaidPayment, SpendCredit, FindPayment, CreatePendingPayment,
        ResetPayment, CancelApplication, CountBookings, SaveSlotStatus,
        GrantCredit, SaveProfile, RecordPayment, PushSucceeds, PushFails,
        MarkPaid, FailPayment, FailApplication, ReadSlot, ExpireApplications,
        ExpirePayments, QueueRefresh, AcceptApplication, ToggleSlot, EditSlot
  <2> QED  BY <1>1, <1>t, <2>2
           DEF SavePaidApplication, SaveStatus, TypeOK, ApplicationRow
<1>4. ASSUME Crash(w) PROVE FALSE
  <2>1. crashes' # crashes  BY <1>4, <1>t DEF Crash, TypeOK
  <2>2. Acts(w)
    BY <1>1, <1>4, <1>t DEF Crash, Done, Go, Idle, Acts, At, TypeOK
  <2>3. a \in harmed'
    BY <1>1, <2>1, <2>2 DEF RaceStep, Remember, LeavesHalfPaid
  <2> QED  BY <2>3
<1>5. Arrive(w) => FALSE  BY <1>1, <1>t, WhoArrives DEF At, Idle
<1>6. ASSUME NEW v \in Workers, v # w, Arrive(v) \/ Continue(v) \/ Crash(v)
      PROVE  job'[w] = job[w]
  BY <1>6, <1>t, WhoArrives, WhoContinues DEF Moves, Crash, Done, Go, TypeOK
<1>7. Environment => UNCHANGED job
  BY DEF Environment, DeadlinePasses, WindowCloses, PromptAnswered,
         SlotCreate, SlotDelete
<1> QED  BY <1>2, <1>3, <1>4, <1>5, <1>6, <1>7 DEF RaceStep, Next

LEMMA StepPlaces == RaceStep => PaidPlaceStands'
<1> SUFFICES ASSUME RaceStep, NEW a \in App, a \notin harmed',
                    payment'[a].is_paid
             PROVE  /\ payment'[a].status = "PAID"
                    /\ Stands(application'[a]) \/ Owed(a)'
  BY DEF PaidPlaceStands, Stands
<1>t. TypeOK  BY DEF RaceStep
<1>h. a \notin harmed  BY HarmStays
<1>1. CASE payment[a].is_paid
  <2>1. /\ payment[a].status = "PAID"
        /\ Stands(application[a]) \/ Owed(a)
    BY <1>h, <1>1 DEF RaceStep, RaceInv, PaidPlaceStands, Stands
  <2>2. payment'[a].status = "PAID"  BY <2>1, PaymentKept
  <2>3. application'[a].status # "NONE"
    <3>1. RowsInv'  BY StepRows DEF RaceStep
    <3> QED  BY <2>2, <3>1 DEF RowsInv, NoOrphans, HasPayment, Applied
  <2> QED  BY <2>1, <2>2, <2>3, PlaceKept, OwedKept DEF Stands
<1>2. CASE ~payment[a].is_paid
  <2>1. PICK w \in Workers :
             /\ job[w].app = a
             /\ MarkPaid(w) \/ (CreatePaidPayment(w) /\ ~HasPayment(a))
    BY <1>2, PaymentArises DEF RaceStep
  <2>2. payment'[a].status = "PAID"  BY <1>2, PaymentArises DEF RaceStep
  <2>3. CASE MarkPaid(w)
    BY <1>t, <2>1, <2>2, <2>3 DEF MarkPaid, Go, Owed, At, TypeOK
  <2>4. CASE CreatePaidPayment(w) /\ ~HasPayment(a)
    <3>1. UpToDate(job[w])
      <4>1. Written(a)  BY <1>2 DEF Written
      <4>2. Continue(w) /\ job[w].pc \in OwnSteps
        BY <2>4 DEF Continue, CreatePaidPayment, At, OwnSteps, AppSteps
      <4> QED  BY <2>1, <4>1, <4>2, WriterUpToDate
    <3>2. application[a].status = "PAID"
      BY <1>h, <2>1, <2>4, <3>1 DEF UpToDate, CreatePaidPayment, At
    <3>3. UNCHANGED application  BY <2>4 DEF CreatePaidPayment
    <3> QED  BY <2>2, <3>2, <3>3 DEF Stands
  <2> QED  BY <2>1, <2>3, <2>4
<1> QED  BY <1>1, <1>2

\* is_paid is never taken back while the row is there.
LEMMA StepMarked == RaceStep => PaidIsMarked'
<1> SUFFICES ASSUME RaceStep, NEW a \in App, payment'[a].status = "PAID"
             PROVE  payment'[a].is_paid
  BY DEF PaidIsMarked
<1> DEFINE Goal == payment'[a].is_paid
<1>t. TypeOK  BY DEF RaceStep
<1>m. payment[a].status = "PAID" => payment[a].is_paid
  BY DEF RaceStep, RaceInv, PaidIsMarked
<1>0. CASE payment'[a] = payment[a]  BY <1>0, <1>m
<1>1. ASSUME NEW w \in Workers,
             \/ CreatePaidPayment(w) \/ CreatePendingPayment(w)
             \/ MarkPaid(w) \/ RecordPayment(w)
      PROVE  Goal
  BY <1>0, <1>1, <1>m, <1>t
  DEF CreatePaidPayment, CreatePendingPayment, MarkPaid, RecordPayment,
      SavePaymentStatus, CreditedPayment, NewPayment, NoPayment, TypeOK,
      PaymentRow
<1>2. ASSUME NEW w \in Workers, ResetPayment(w) \/ FailPayment(w)
                                \/ PushSucceeds(w)
      PROVE  Goal
  BY <1>0, <1>2, <1>m, <1>t
  DEF ResetPayment, FailPayment, PushSucceeds, SavePaymentStatus, TypeOK,
      PaymentRow
<1>3. ASSUME NEW w \in Workers, ExpirePayments(w) PROVE Goal
  BY <1>0, <1>3, <1>m, <1>t DEF ExpirePayments, TypeOK, PaymentRow
<1>4. ASSUME NEW b \in App, WindowCloses(b) PROVE Goal
  BY <1>0, <1>4, <1>m, <1>t DEF WindowCloses, TypeOK, PaymentRow
<1>5. ASSUME NEW l \in Slots, SlotDelete(l) PROVE Goal
  BY <1>0, <1>5, <1>m DEF SlotDelete, NoPayment
<1> QED  BY <1>0, <1>1, <1>2, <1>3, <1>4, <1>5, Writers DEF RaceStep

-----------------------------------------------------------------------------
(* Paid places: every job that is not behind stays up to date              *)

\* Only the deletion of its slot takes a payment away, and the application.
LEMMA PaymentRowSurvives ==
  ASSUME RaceStep, NEW a \in App, HasPayment(a), ~Decided(a)
  PROVE  HasPayment(a)'
<1>t. TypeOK /\ Applied(a)  BY DEF RaceStep, RowsInv, NoOrphans
<1> USE DEF HasPayment
<1>1. ASSUME NEW w \in Workers, CreatePaidPayment(w) \/ CreatePendingPayment(w)
      PROVE  HasPayment(a)'
  BY <1>1, <1>t DEF CreatePaidPayment, CreatePendingPayment, TypeOK
<1>2. ASSUME NEW w \in Workers,
             \/ ResetPayment(w) \/ RecordPayment(w) \/ PushSucceeds(w)
             \/ MarkPaid(w) \/ FailPayment(w)
      PROVE  HasPayment(a)'
  BY <1>2, <1>t
  DEF ResetPayment, RecordPayment, PushSucceeds, MarkPaid, FailPayment,
      SavePaymentStatus, TypeOK, PaymentRow, NewPayment, NoPayment
<1>3. ASSUME NEW w \in Workers, ExpirePayments(w) PROVE HasPayment(a)'
  BY <1>3, <1>t DEF ExpirePayments, TypeOK, PaymentRow
<1>4. ASSUME NEW b \in App, WindowCloses(b) PROVE HasPayment(a)'
  BY <1>4, <1>t DEF WindowCloses, TypeOK, PaymentRow
<1>5. ASSUME NEW l \in Slots, SlotDelete(l) PROVE HasPayment(a)'
  BY <1>5, <1>t DEF SlotDelete, NoApplication, Applied, Decided, Becomes
<1> QED  BY <1>1, <1>2, <1>3, <1>4, <1>5, Writers DEF RaceStep

\* A decision that another takes puts the job behind; nothing else concerns it.
LEMMA OthersUpToDate ==
  ASSUME RaceStep, NEW v \in Workers, job'[v] = job[v],
         job[v].pc \in OwnSteps, <<v, job[v].app>> \notin behind'
  PROVE  UpToDate(job[v])'
<1> DEFINE a == job[v].app
<1>1. a \in App /\ WorksOn(job[v], a)  BY JobOfWorker, OwnApp DEF RaceStep
<1>2. <<v, a>> \notin behind /\ ~Decided(a)
  BY <1>1 DEF RaceStep, Remember, Acts
<1>3. UpToDate(job[v])  BY <1>2 DEF RaceStep, RaceInv, JobsInv
<1>4. /\ payment'[a].status = "PAID" => payment[a].status = "PAID"
      /\ \A st \in {"PAID", "CANCELLED", "NONE"} :
           application'[a].status = st => application[a].status = st
      /\ application'[a].is_accepted => application[a].is_accepted
  <2>1. application[a].is_accepted \in BOOLEAN /\ application'[a].is_accepted \in BOOLEAN
    BY <1>1, StepTypes DEF RaceStep, TypeOK, ApplicationRow
  <2> QED  BY <1>2, <2>1 DEF Decided, Becomes
<1>5. HasPayment(a) => HasPayment(a)'  BY <1>1, <1>2, PaymentRowSurvives
<1>6. ASSUME a \notin harmed', ~HasPayment(a), application[a].status = "PAID"
      PROVE  application'[a].status = "PAID"
  <2>1. Stands(application'[a]) \/ application'[a].status = "NONE"
    BY <1>1, <1>6, PlaceKept DEF Stands
  <2> QED  BY <1>4, <1>6, <2>1 DEF Stands
<1>7. harmed \subseteq harmed'  BY HarmStays
<1> HIDE DEF a
<1>8. a = job'[v].app  BY DEF a
<1> QED
  BY <1>3, <1>4, <1>5, <1>6, <1>7, <1>8 DEF UpToDate, a

\* The steps that UpToDate says something of.
ClaimSteps == UnpaidSteps \cup {"reserve", "letter", "cancel", "accept",
                                "credit_payment"}

LEMMA NoClaim ==
  ASSUME NEW w, job'[w].pc \notin ClaimSteps
  PROVE  UpToDate(job[w])'
  BY DEF UpToDate, ClaimSteps, UnpaidSteps

\* What a request finds when it starts is true.
LEMMA ArrivalUpToDate ==
  ASSUME RaceStep, NEW w \in Workers, Arrive(w), job'[w].pc \in OwnSteps
  PROVE  UpToDate(job[w])'
<1> DEFINE Goal == UpToDate(job[w])'
<1>t. TypeOK  BY DEF RaceStep
<1>m. PaidIsMarked  BY DEF RaceStep, RaceInv
<1>g. ASSUME NEW next, Go(w, next) PROVE job'[w] = next
  BY <1>g, <1>t DEF Go, TypeOK
<1>1. ASSUME NEW a \in App, StartApply(w, a) PROVE Goal
  <2>1. job'[w].pc = "lock_slot"  BY <1>1, <1>g DEF StartApply, Start
  <2> QED  BY <2>1, NoClaim DEF ClaimSteps, UnpaidSteps
<1>2. ASSUME NEW a \in App, StartCancel(w, a) PROVE Goal
  <2>1. job'[w].pc = "cancel" /\ job'[w].app = a
    BY <1>2, <1>g DEF StartCancel, Start
  <2>2. ~application'[a].is_accepted  BY <1>2 DEF StartCancel
  <2> QED  BY <2>1, <2>2 DEF UpToDate, UnpaidSteps
<1>3. ASSUME NEW a \in App, StartInitiate(w, a) PROVE Goal
  <2>1. job'[w].pc = "initiate" /\ job'[w].app = a
    BY <1>3, <1>g DEF StartInitiate, Start
  <2>2. payment'[a].status # "PAID"
    BY <1>3, <1>m DEF StartInitiate, IsPaid, PaidIsMarked
  <2> QED  BY <2>1, <2>2 DEF UpToDate, UnpaidSteps
<1>4. ASSUME NEW a \in App, StartAccept(w, a) PROVE Goal
  <2>1. job'[w].pc = "accept" /\ job'[w].app = a
    BY <1>4, <1>g DEF StartAccept, Start
  <2>2. application'[a].status = "PAID"  BY <1>4 DEF StartAccept
  <2> QED  BY <2>1, <2>2 DEF UpToDate, UnpaidSteps
<1>5. ASSUME NEW a \in App, NEW result \in {"ok", "fail"},
             StartWebhook(w, a, result)
      PROVE  Goal
  <2>1. job'[w].pc \in {"mark_paid", "fail_payment"} /\ job'[w].app = a
    BY <1>5, <1>g DEF StartWebhook, Start
  <2>2. payment'[a].status = "PENDING"  BY <1>5 DEF StartWebhook
  <2> QED  BY <2>1, <2>2 DEF UpToDate, UnpaidSteps
<1>6. CASE \/ StartExpire(w)
           \/ \E l \in Slots : StartToggle(w, l) \/ StartEdit(w, l)
           \/ \E s \in Students : StartProfile(w, s)
  <2>1. job'[w].pc \in {"expire", "toggle", "edit", "profile"}
    <3>1. CASE StartExpire(w)  BY <3>1, <1>g DEF StartExpire, Start
    <3>2. ASSUME NEW l \in Slots, StartToggle(w, l)
          PROVE  job'[w].pc = "toggle"
      BY <3>2, <1>g DEF StartToggle, Start
    <3>3. ASSUME NEW l \in Slots, StartEdit(w, l) PROVE job'[w].pc = "edit"
      BY <3>3, <1>g DEF StartEdit, Start
    <3>4. ASSUME NEW s \in Students, StartProfile(w, s)
          PROVE  job'[w].pc = "profile"
      BY <3>4, <1>g DEF StartProfile, Start
    <3> QED  BY <1>6, <3>1, <3>2, <3>3, <3>4
  <2> QED  BY <2>1, NoClaim DEF ClaimSteps, UnpaidSteps
<1>7. ASSUME NEW l \in Slots, StartRefresh(w, l) PROVE Goal
  <2>1. job'[w].pc \in {"refresh", "idle"}
    BY <1>7, <1>g DEF StartRefresh, Idle
  <2> QED  BY <2>1, NoClaim DEF ClaimSteps, UnpaidSteps
<1> QED  BY <1>1, <1>2, <1>3, <1>4, <1>5, <1>6, <1>7 DEF Arrive

\* A job that was up to date is so after its own step.
LEMMA ActorUpToDate ==
  ASSUME RaceStep, NEW w \in Workers, Continue(w), job'[w].pc \in OwnSteps,
         <<w, job'[w].app>> \notin behind'
  PROVE  UpToDate(job[w])'
<1> DEFINE Goal == UpToDate(job[w])'
           a == job[w].app
<1>t. TypeOK /\ TypeOK'  BY StepTypes DEF RaceStep
<1>g. ASSUME NEW next, Go(w, next) PROVE job'[w] = next
  BY <1>g, <1>t DEF Go, TypeOK
<1>n. ASSUME job'[w].pc \notin ClaimSteps PROVE Goal
  BY <1>n, NoClaim
<1>d. ASSUME Done(w) PROVE Goal
  BY <1>d, <1>g, <1>n DEF Done, Idle, ClaimSteps, UnpaidSteps
<1>u. ASSUME job[w].pc \in OwnSteps, job'[w].app = a
      PROVE  a \in App /\ UpToDate(job[w])
  <2>1. a \in App  BY <1>t, <1>u, JobOfWorker, OwnApp
  <2>2. WorksOn(job'[w], a)
    BY <1>t, <1>u, OwnApp DEF TypeOK
  <2>3. <<w, a>> \notin behind
    BY <1>u, <2>1, <2>2 DEF RaceStep, Remember
  <2> QED  BY <1>u, <2>1, <2>3 DEF RaceStep, RaceInv, JobsInv
<1>1. CASE LockSlot(w)
  <2>1. CASE Go(w, [pc |-> "reserve", app |-> a, credit |-> job[w].credit,
                    row |-> application[a]])
    <3>1. /\ job'[w].pc = "reserve" /\ job'[w].app = a
          /\ job'[w].row = application[a]
      BY <1>g, <2>1
    <3>2. application' = application  BY <1>1 DEF LockSlot
    <3> QED  BY <3>1, <3>2 DEF UpToDate, UnpaidSteps
  <2> QED  BY <1>1, <1>d, <2>1 DEF LockSlot
<1>2. CASE ReserveSeat(w)
  <2> DEFINE row == job[w].row
             held == IF row.status \in {"NONE", "UNPAID"} THEN "PENDING"
                                                          ELSE row.status
  <2>1. Go(w, [pc |-> "letter", app |-> a, credit |-> job[w].credit,
               status |-> held, can_cancel |-> row.can_cancel])
    BY <1>2 DEF ReserveSeat
  <2>2. /\ job'[w].pc = "letter" /\ job'[w].app = a /\ job'[w].status = held
    BY <1>g, <2>1
  <2>3. a \in App /\ UpToDate(job[w])
    BY <1>2, <1>u, <2>2 DEF ReserveSeat, At, OwnSteps
  <2>4. application'[a].status \in {"PAID", "CANCELLED"}
          => application'[a].status = held
    <3>1. CASE row.status \in {"NONE", "UNPAID"}
      <4>1. application'[a].status = "PENDING"
        BY <1>2, <1>t, <2>3, <3>1 DEF ReserveSeat, TypeOK, ApplicationRow
      <4> QED  BY <4>1
    <3>2. CASE row.status \notin {"NONE", "UNPAID"}
      <4>1. application' = application  BY <1>2, <3>2 DEF ReserveSeat
      <4> QED  BY <1>2, <2>3, <3>2, <4>1 DEF UpToDate, ReserveSeat, At
    <3> QED  BY <3>1, <3>2
  <2> HIDE DEF held, row
  <2> QED  BY <2>2, <2>4 DEF UpToDate, UnpaidSteps
<1>3. CASE SaveLetter(w)
  <2>1. job'[w] = [pc |-> IF job[w].credit THEN "credit_payment"
                                           ELSE "find_payment", app |-> a]
    BY <1>3, <1>g DEF SaveLetter
  <2>2. CASE job[w].credit
    <3>1. job'[w].pc = "credit_payment" /\ job'[w].app = a  BY <2>1, <2>2
    <3>2. a \in App  BY <1>3, <1>u, <3>1 DEF SaveLetter, At, OwnSteps
    <3>3. application'[a].status = "PAID"
      BY <1>3, <1>t, <2>2, <3>2 DEF SaveLetter, TypeOK, ApplicationRow
    <3> QED  BY <3>1, <3>3 DEF UpToDate, UnpaidSteps
  <2>3. CASE ~job[w].credit
    BY <1>n, <2>1, <2>3 DEF ClaimSteps, UnpaidSteps
  <2> QED  BY <2>2, <2>3
<1>4. CASE CreatePaidPayment(w)
  BY <1>4, <1>d, <1>g, <1>n DEF CreatePaidPayment, ClaimSteps, UnpaidSteps
<1>5. CASE FindPayment(w)
  <2>1. CASE Go(w, [pc |-> "reset_payment", app |-> a]) /\ ~payment[a].is_paid
    <3>1. job'[w].pc = "reset_payment" /\ job'[w].app = a  BY <1>g, <2>1
    <3>2. a \in App
      BY <1>5, <1>u, <3>1 DEF FindPayment, At, OwnSteps, AppSteps
    <3>3. payment'[a].status # "PAID"
      BY <1>5, <2>1, <3>2 DEF FindPayment, RaceStep, RaceInv, PaidIsMarked
    <3> QED  BY <3>1, <3>3 DEF UpToDate
  <2>2. CASE Go(w, [pc |-> "create_payment", app |-> a])
    BY <1>g, <1>n, <2>2 DEF ClaimSteps, UnpaidSteps
  <2> QED  BY <1>5, <1>d, <2>1, <2>2 DEF FindPayment
<1>6. CASE RecordPayment(w)
  <2>1. job'[w].pc = "push" /\ job'[w].app = a
    BY <1>6, <1>g DEF RecordPayment
  <2>2. a \in App
    BY <1>6, <1>u, <2>1 DEF RecordPayment, At, OwnSteps, AppSteps
  <2>3. payment'[a].status = "PENDING"
    BY <1>6, <1>t, <2>2
    DEF RecordPayment, SavePaymentStatus, NewPayment, NoPayment, TypeOK,
        PaymentRow
  <2> QED  BY <2>1, <2>3 DEF UpToDate
<1>7. CASE PushFails(w)
  <2>1. job'[w].pc = "fail_payment" /\ job'[w].app = a
    BY <1>7, <1>g DEF PushFails
  <2>2. UpToDate(job[w])
    BY <1>7, <1>u, <2>1 DEF PushFails, At, OwnSteps, AppSteps
  <2>3. payment'[a].status # "PAID"
    BY <1>7, <2>2 DEF PushFails, At, UpToDate, UnpaidSteps
  <2> QED  BY <2>1, <2>3 DEF UpToDate
<1>8. CASE FailPayment(w)
  <2>1. job'[w].pc = "fail_application" /\ job'[w].app = a
    BY <1>8, <1>g DEF FailPayment
  <2>2. a \in App
    BY <1>8, <1>u, <2>1 DEF FailPayment, At, OwnSteps, AppSteps
  <2>3. payment'[a].status = "FAILED"
    BY <1>8, <1>t, <2>2 DEF FailPayment, SavePaymentStatus, TypeOK, PaymentRow
  <2> QED  BY <2>1, <2>3 DEF UpToDate, HasPayment
<1>9. CASE MarkPaid(w) \/ FailApplication(w) \/ CancelApplication(w)
           \/ ReadSlot(w)
  <2>1. job'[w].pc \in {"paid_application", "read_slot", "refresh"}
    BY <1>9, <1>g
    DEF MarkPaid, FailApplication, CancelApplication, ReadSlot
  <2> QED  BY <1>n, <2>1 DEF ClaimSteps, UnpaidSteps
<1>10. CASE \/ CountBookings(w) \/ SaveSlotStatus(w) \/ ExpireApplications(w)
            \/ ExpirePayments(w) \/ QueueRefresh(w)
  <2>1. job'[w].pc \in {"idle", "refresh_save", "grant", "expire_payments",
                        "queue_refresh"}
    <3>1. CASE CountBookings(w)  BY <1>g, <3>1 DEF CountBookings
    <3>2. CASE SaveSlotStatus(w)
      BY <1>g, <3>2 DEF SaveSlotStatus, Done, Idle
    <3>3. CASE ExpireApplications(w)  BY <1>g, <3>3 DEF ExpireApplications
    <3>4. CASE ExpirePayments(w)  BY <1>g, <3>4 DEF ExpirePayments
    <3>5. CASE QueueRefresh(w)
      <4>1. PICK l \in job[w].slots :
              Done(w) \/ Go(w, [pc |-> "queue_refresh",
                                slots |-> job[w].slots \ {l}])
        BY <3>5 DEF QueueRefresh
      <4> QED  BY <1>g, <4>1 DEF Done, Idle
    <3> QED  BY <1>10, <3>1, <3>2, <3>3, <3>4, <3>5
  <2> QED  BY <1>n, <2>1 DEF ClaimSteps, UnpaidSteps
<1> QED
  BY <1>d, <1>1, <1>2, <1>3, <1>4, <1>5, <1>6, <1>7, <1>8, <1>9, <1>10
  DEF Continue, RefuseReservation, SpendCredit, CreatePendingPayment,
      ResetPayment, GrantCredit, SaveProfile, PushSucceeds,
      SavePaidApplication, AcceptApplication, ToggleSlot, EditSlot, RowGone

LEMMA StepJobs == RaceStep => JobsInv'
<1> SUFFICES ASSUME RaceStep, NEW v \in Workers, job'[v].pc \in OwnSteps,
                    <<v, job'[v].app>> \notin behind'
             PROVE  UpToDate(job[v])'
  BY DEF JobsInv
<1>t. TypeOK  BY DEF RaceStep
<1>1. CASE job'[v] = job[v]  BY <1>1, OthersUpToDate
<1>2. CASE Arrive(v)  BY <1>2, ArrivalUpToDate
<1>3. CASE Continue(v)  BY <1>3, ActorUpToDate
<1>4. CASE Crash(v)
  <2>1. job'[v] = Idle  BY <1>4, <1>t DEF Crash, Done, Go, TypeOK
  <2> QED  BY <2>1 DEF Idle, OwnSteps, AppSteps
<1>5. ASSUME NEW w \in Workers, w # v, Arrive(w) \/ Continue(w) \/ Crash(w)
      PROVE  job'[v] = job[v]
  BY <1>5, <1>t, WhoArrives, WhoContinues DEF Moves, Crash, Done, Go, TypeOK
<1>6. Environment => UNCHANGED job
  BY DEF Environment, DeadlinePasses, WindowCloses, PromptAnswered,
         SlotCreate, SlotDelete
<1> QED  BY <1>1, <1>2, <1>3, <1>4, <1>5, <1>6 DEF RaceStep, Next

\* A verified payment and its place are lost only to a request that was under way
\* when the application was decided, or to a death between the two saves of
\* mark_paid: for any number of workers and deaths and any mix of requests.
THEOREM PaidPlacesStand == RaceSpec => []PaidPlaceStands
<1> DEFINE IInv == TypeOK /\ RowsInv /\ RaceInv
<1>1. RaceInit => IInv
  BY InitTypes, InitRows, InitRaces DEF RaceInit
<1>2. IInv /\ [RaceNext]_raceVars => IInv'
  <2>1. ASSUME IInv, RaceNext PROVE IInv'
    <3>1. RaceStep  BY <2>1 DEF RaceNext, RaceStep
    <3>2. TypeOK' /\ RowsInv'
      BY <2>1, StepTypes, StepRows DEF RaceNext
    <3> QED  BY <3>1, <3>2, StepPlaces, StepMarked, StepJobs DEF RaceInv
  <2>2. ASSUME IInv, UNCHANGED raceVars PROVE IInv'
    <3>1. UNCHANGED vars /\ UNCHANGED <<behind, harmed>>
      BY <2>2 DEF raceVars
    <3>2. TypeOK' /\ RowsInv'  BY <2>2, <3>1, StepTypes, StepRows
    <3>u. /\ application' = application /\ payment' = payment /\ job' = job
          /\ behind' = behind /\ harmed' = harmed
      BY <3>1 DEF vars
    <3>3. PaidIsMarked' /\ PaidPlaceStands'
      BY <2>2, <3>u DEF RaceInv, PaidIsMarked, PaidPlaceStands, Owed, At
    <3>4. ASSUME NEW v \in Workers, UpToDate(job[v]) PROVE UpToDate(job[v])'
      BY <3>u, <3>4 DEF UpToDate, HasPayment
    <3>5. JobsInv'
      BY <2>2, <3>u, <3>4 DEF RaceInv, JobsInv
    <3> QED  BY <3>2, <3>3, <3>5 DEF RaceInv
  <2> QED  BY <2>1, <2>2
<1>3. IInv => PaidPlaceStands  BY DEF RaceInv
<1> QED  BY <1>1, <1>2, <1>3, PTL DEF RaceSpec
=============================================================================
