--------------------------- MODULE PaymentCallback ---------------------------
(***************************************************************************)
(* The payment callback of the FastAPI service                             *)
(* (realtime/app/webhooks/router.py) for one payment reference, beside the *)
(* Django views that write the same rows.  The gateway may deliver a       *)
(* report any number of times and in any order.  A delivery takes a Redis  *)
(* mutex that expires, belongs to nobody and is assumed taken when Redis   *)
(* does not answer, and then one database transaction that starts with     *)
(* SELECT ... FOR UPDATE of the payment.  The Django views hold no lock    *)
(* from what they read to what they save, run beside each other and die.   *)
(***************************************************************************)
EXTENDS Naturals

CONSTANTS Call,        \* deliveries in progress at the same time
          Request,     \* requests in progress at the same time in Django
          MaxCrashes,  \* bound: how often the service dies in mid-delivery
          None

ASSUME CallbackAssumption == None \notin Call /\ MaxCrashes \in Nat

VARIABLES
  payment,      \* committed payments_payment.status
  is_paid,      \* committed payments_payment.is_paid, which nothing takes back
  application,  \* committed applications_application.status
  row,          \* the transaction that holds the payment row, or None
  lock,         \* the Redis key of the reference exists
  call,         \* call[c]: the delivery c is working on
  django,       \* django[d]: what the request has read, or the save it still owes
  orderly,      \* history: Django's requests came one by one, none died half done
  crashes

vars == <<payment, is_paid, application, row, lock, call, django, orderly, crashes>>

Report == {"PAID", "FAILED"}

\* At "seal" the two UPDATEs of the transaction are done and not committed.
CallState == [pc: {"idle", "acquire", "select", "update", "seal", "release"},
              report: Report,
              answer: {"none", "busy", "duplicate", "failed", "error"}]

NoCall == [pc |-> "idle", report |-> "FAILED", answer |-> "none"]

Init == /\ payment = "PENDING"
        /\ is_paid = FALSE
        /\ application = "PENDING"
        /\ row = None
        /\ lock = FALSE
        /\ call = [c \in Call |-> NoCall]
        /\ django = [d \in Request |-> "idle"]
        /\ orderly = TRUE
        /\ crashes = 0

At(c, pc) == call[c].pc = pc

\* Django's requests, and what only they save.
DjangoUnchanged == UNCHANGED <<application, django, orderly>>

\* A call that does not touch the rows.
RowsUnchanged == DjangoUnchanged /\ UNCHANGED <<payment, is_paid, crashes>>

-----------------------------------------------------------------------------
(* _process_payment *)

\* A delivery that passed the rate limit, the schema and the signature.
Deliver(c, r) == /\ At(c, "idle")
                 /\ call' = [call EXCEPT ![c] = [NoCall EXCEPT !.pc = "acquire", !.report = r]]
                 /\ RowsUnchanged /\ UNCHANGED <<row, lock>>

Acquire(c) == /\ At(c, "acquire")
              /\ ~lock
              /\ lock' = TRUE
              /\ call' = [call EXCEPT ![c].pc = "select"]
              /\ RowsUnchanged /\ UNCHANGED row

\* The key exists: answered "ok, duplicate, busy" with nothing looked at.
AnswerBusy(c) == /\ At(c, "acquire")
                 /\ lock
                 /\ call' = [call EXCEPT ![c].pc = "idle", ![c].answer = "busy"]
                 /\ RowsUnchanged /\ UNCHANGED <<row, lock>>

\* Redis raises: acquire_lock returns True.
AcquireFailsOpen(c) == /\ At(c, "acquire")
                       /\ call' = [call EXCEPT ![c].pc = "select"]
                       /\ RowsUnchanged /\ UNCHANGED <<row, lock>>

\* Mutant: the row is read without FOR UPDATE.
SelectUnlocked(c) ==
  /\ At(c, "select")
  /\ call' = [call EXCEPT ![c].pc = IF payment = "PAID" THEN "release" ELSE "update"]
  /\ RowsUnchanged /\ UNCHANGED <<row, lock>>

\* SELECT ... FOR UPDATE returns the row once nobody else holds it.
SelectPayment(c) ==
  /\ At(c, "select")
  /\ row = None
  /\ IF payment = "PAID"
     THEN /\ call' = [call EXCEPT ![c].pc = "release", ![c].answer = "duplicate"]
          /\ UNCHANGED row
     ELSE /\ call' = [call EXCEPT ![c].pc = "update"]
          /\ row' = c
  /\ RowsUnchanged /\ UNCHANGED lock

\* The report is a failure: the payment alone is written and committed.
RecordFailure(c) ==
  /\ At(c, "update")
  /\ call[c].report # "PAID"
  /\ payment' = "FAILED"
  /\ row' = None
  /\ call' = [call EXCEPT ![c].pc = "release", ![c].answer = "failed"]
  /\ DjangoUnchanged /\ UNCHANGED <<is_paid, lock, crashes>>

\* Mutant: no transaction, each UPDATE is its own commit.
UpdateRowsAutocommit(c) ==
  /\ At(c, "update")
  /\ call[c].report = "PAID"
  /\ payment' = "PAID"
  /\ is_paid' = TRUE
  /\ call' = [call EXCEPT ![c].pc = "seal"]
  /\ DjangoUnchanged /\ UNCHANGED <<row, lock, crashes>>

\* The two UPDATEs of a successful report, not committed yet.
UpdateRows(c) ==
  /\ At(c, "update")
  /\ call[c].report = "PAID"
  /\ call' = [call EXCEPT ![c].pc = "seal"]
  /\ RowsUnchanged /\ UNCHANGED <<row, lock>>

\* Mutant: the failed transaction is left open on its connection.
SealFailsOpen(c) ==
  /\ At(c, "seal")
  /\ call' = [call EXCEPT ![c].pc = "release", ![c].answer = "error"]
  /\ RowsUnchanged /\ UNCHANGED <<row, lock>>

\* The INSERT into core_integrityrecord names no id, and the column has no
\* default in the database: the statement fails, the transaction is rolled back
\* and the exception becomes a 500.  No statement after it is ever reached.
SealFails(c) ==
  /\ At(c, "seal")
  /\ row' = None
  /\ call' = [call EXCEPT ![c].pc = "release", ![c].answer = "error"]
  /\ RowsUnchanged /\ UNCHANGED lock

\* finally: DEL, whoever made the key.
Release(c) == /\ At(c, "release")
              /\ lock' = FALSE
              /\ call' = [call EXCEPT ![c].pc = "idle"]
              /\ RowsUnchanged /\ UNCHANGED row

\* release_lock swallows the exception of a Redis that does not answer.
ReleaseFails(c) == /\ At(c, "release")
                   /\ call' = [call EXCEPT ![c].pc = "idle"]
                   /\ RowsUnchanged /\ UNCHANGED <<row, lock>>

LockExpires == /\ lock
               /\ lock' = FALSE
               /\ RowsUnchanged /\ UNCHANGED <<row, call>>

\* The service dies: its transaction is rolled back, its key stays.
Crash(c) == /\ ~At(c, "idle")
            /\ crashes < MaxCrashes
            /\ crashes' = crashes + 1
            /\ row' = IF row = c THEN None ELSE row
            /\ call' = [call EXCEPT ![c] = NoCall]
            /\ DjangoUnchanged /\ UNCHANGED <<payment, is_paid, lock>>

-----------------------------------------------------------------------------
(* The Django side: each read and each save is a statement of its own.  A    *)
(* save of the payment waits for its row, and one of the application for a    *)
(* transaction that has written it.                                           *)

DeliveryUnchanged == UNCHANGED <<row, lock, call, crashes>>

Begin(d, pc) == /\ django[d] = "idle"
                /\ django' = [django EXCEPT ![d] = pc]
                /\ orderly' = (orderly /\ \A e \in Request : django[e] = "idle")
                /\ DeliveryUnchanged /\ UNCHANGED <<payment, is_paid, application>>

\* PaymentWebhookView: a report on a payment that is neither paid nor failed.
DjangoReads(d) == payment = "PENDING" /\ Begin(d, "read")

\* InitiateSTKPushView: the serializer finds an application that is not paid.
DjangoChecks(d) == application # "PAID" /\ ~is_paid /\ Begin(d, "checked")

Proceed(d, pcs, pc) == /\ django[d] \in pcs
                       /\ row = None
                       /\ django' = [django EXCEPT ![d] = pc]
                       /\ DeliveryUnchanged /\ UNCHANGED <<application, orderly>>

\* The payment is set back, whatever became of it since the check.
DjangoInitiates(d) == /\ Proceed(d, {"checked"}, "push")
                      /\ payment' = "PENDING"
                      /\ UNCHANGED is_paid

\* The gateway takes the push.
DjangoPushes(d) == Proceed(d, {"push"}, "idle") /\ UNCHANGED <<payment, is_paid>>

\* mark_paid.
DjangoVerifies(d) == /\ Proceed(d, {"read"}, "PAID")
                     /\ payment' = "PAID"
                     /\ is_paid' = TRUE

\* A failure report, or a push that the gateway does not take.
DjangoFails(d) == /\ Proceed(d, {"read", "push"}, "UNPAID")
                  /\ payment' = "FAILED"
                  /\ UNCHANGED is_paid

DjangoSavesApplication(d) ==
  /\ django[d] \in {"PAID", "UNPAID"}
  /\ \A c \in Call : ~At(c, "seal")
  /\ application' = django[d]
  /\ django' = [django EXCEPT ![d] = "idle"]
  /\ DeliveryUnchanged /\ UNCHANGED <<payment, is_paid, orderly>>

\* The worker dies, or an exception ends the request: what is saved stays.
DjangoDies(d) == /\ django[d] # "idle"
                 /\ django' = [django EXCEPT ![d] = "idle"]
                 /\ orderly' = (orderly /\ django[d] \notin {"PAID", "UNPAID"})
                 /\ DeliveryUnchanged /\ UNCHANGED <<payment, is_paid, application>>

Django(d) == \/ DjangoReads(d) \/ DjangoChecks(d) \/ DjangoInitiates(d) \/ DjangoPushes(d)
             \/ DjangoVerifies(d) \/ DjangoFails(d) \/ DjangoSavesApplication(d)
             \/ DjangoDies(d)

-----------------------------------------------------------------------------
Work(c) == \/ Acquire(c) \/ AnswerBusy(c) \/ RecordFailure(c) \/ UpdateRows(c)
           \/ SealFails(c) \/ Release(c)

\* What goes wrong around a delivery.
Fault(c) == AcquireFailsOpen(c) \/ ReleaseFails(c) \/ Crash(c)

Next == \/ \E c \in Call : \/ \E r \in Report : Deliver(c, r)
                           \/ Work(c) \/ SelectPayment(c) \/ Fault(c)
        \/ LockExpires
        \/ \E d \in Request : Django(d)

\* The event loop runs every call on, PostgreSQL queues the waiters of a row and
\* Redis expires keys.  Nothing is asked of Django.
Fairness == /\ \A c \in Call : WF_vars(Work(c)) /\ SF_vars(SelectPayment(c))
            /\ WF_vars(LockExpires)

Spec == Init /\ [][Next]_vars /\ Fairness

-----------------------------------------------------------------------------
(* Properties *)

TypeOK == /\ payment \in {"PENDING", "FAILED", "PAID"}
          /\ application \in {"PENDING", "UNPAID", "PAID"}
          /\ row \in Call \cup {None}
          /\ lock \in BOOLEAN
          /\ call \in [Call -> CallState]
          /\ is_paid \in BOOLEAN
          /\ django \in [Request -> {"idle", "checked", "read", "push", "PAID", "UNPAID"}]
          /\ orderly \in BOOLEAN
          /\ crashes \in 0..MaxCrashes

\* A failure report that overtakes, repeats or follows the verification of a
\* payment never undoes it, whatever becomes of the Redis mutex: the row lock
\* and the status read under it decide.  Only a Django request that ran beside
\* another one does, with what it read before.
VerifiedStaysVerified ==
  [][payment = "PAID" /\ payment' # "PAID" => django' # django /\ ~orderly]_vars

\* The rolled back transaction leaves nothing half done: a paid payment has its
\* application, or a request that is about to save it, unless Django's requests
\* ran beside each other or one died between the two saves.
PaidHasItsPlace ==
  orderly /\ payment = "PAID" =>
    application = "PAID" \/ \E d \in Request : django[d] = "PAID"

\* Every delivery is answered, also after lost keys, and a key left behind by a
\* crash only delays it.
CallIsAnswered == \A c \in Call : ~At(c, "idle") ~> At(c, "idle")

\* plan.md: the callback updates the database.  A successful report that is
\* processed is in the end recorded.
ReportedPaidIsRecorded ==
  \A c \in Call : (At(c, "update") /\ call[c].report = "PAID") ~> (payment = "PAID")
=============================================================================
