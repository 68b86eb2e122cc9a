------------------------ MODULE PaymentCallbackProofs ------------------------
(***************************************************************************)
(* Proofs about PaymentCallback: for any number of deliveries, of requests *)
(* in Django and of crashes, no delivery undoes a verified payment or      *)
(* parts it from its application.  The Redis mutex plays no part in the    *)
(* argument: the row lock does all of it.                                  *)
(***************************************************************************)
EXTENDS PaymentCallback, TLAPS

\* A delivery with an open transaction has the row, whose payment is not paid.
TransactionHoldsRow ==
  \A c \in Call : call[c].pc \in {"update", "seal"} => row = c /\ payment # "PAID"

\* What Django's one request has read or still owes agrees with the payment.
DjangoUpToDate ==
  orderly =>
    /\ \A d, e \in Request : django[d] # "idle" /\ django[e] # "idle" => d = e
    /\ is_paid => payment = "PAID"
    /\ \A d \in Request : django[d] \in {"checked", "read", "push", "UNPAID"} => ~is_paid
    /\ payment = "PAID" => application = "PAID" \/ \E d \in Request : django[d] = "PAID"

PaidIsMarked == payment = "PAID" => is_paid

CallbackInv == TypeOK /\ TransactionHoldsRow /\ PaidIsMarked /\ DjangoUpToDate

LEMMA CallbackInit == Init => CallbackInv
<1> SUFFICES ASSUME Init PROVE CallbackInv
  OBVIOUS
<1>1. NoCall \in CallState
  BY DEF NoCall, CallState, Report
<1>2. call \in [Call -> CallState]
  BY <1>1 DEF Init
<1>3. crashes \in 0..MaxCrashes
  BY CallbackAssumption DEF Init, CallbackAssumption
<1>4. TypeOK
  BY <1>2, <1>3 DEF Init, TypeOK
<1>5. TransactionHoldsRow /\ PaidIsMarked /\ DjangoUpToDate
  BY DEF Init, NoCall, TransactionHoldsRow, PaidIsMarked, DjangoUpToDate
<1> QED BY <1>4, <1>5 DEF CallbackInv

\* Steps of a delivery.
LEMMA DeliveryStep ==
  ASSUME CallbackInv, NEW c \in Call,
         (\E r \in Report : Deliver(c, r)) \/ Work(c) \/ SelectPayment(c) \/ Fault(c)
  PROVE  CallbackInv'
<1> USE CallbackAssumption
    DEF CallbackInv, TypeOK, TransactionHoldsRow, PaidIsMarked, DjangoUpToDate, CallState,
        Report, NoCall, At, RowsUnchanged, DjangoUnchanged
<1>1. CASE \E r \in Report : Deliver(c, r)
  <2>1. PICK r \in Report : Deliver(c, r)
    BY <1>1
  <2>2. call'[c] = [NoCall EXCEPT !.pc = "acquire", !.report = r]
    BY <2>1 DEF Deliver
  <2>3. call' \in [Call -> CallState] /\ call'[c].pc = "acquire"
    BY <2>1, <2>2 DEF Deliver
  <2>4. \A k \in Call \ {c} : call'[k] = call[k]
    BY <2>1 DEF Deliver
  <2>5. UNCHANGED <<payment, is_paid, application, row, lock, django, orderly, crashes>>
    BY <2>1 DEF Deliver
  <2>6. TransactionHoldsRow'
    BY <2>3, <2>4, <2>5
  <2> QED BY <2>3, <2>5, <2>6
<1>2. CASE Acquire(c)          BY <1>2 DEF Acquire
<1>3. CASE AnswerBusy(c)       BY <1>3 DEF AnswerBusy
<1>4. CASE AcquireFailsOpen(c) BY <1>4 DEF AcquireFailsOpen
<1>5. CASE SelectPayment(c)    BY <1>5 DEF SelectPayment
<1>6. CASE RecordFailure(c)    BY <1>6 DEF RecordFailure
<1>7. CASE UpdateRows(c)       BY <1>7 DEF UpdateRows
<1>8. CASE SealFails(c)        BY <1>8 DEF SealFails
<1>9. CASE Release(c)          BY <1>9 DEF Release
<1>10. CASE ReleaseFails(c)    BY <1>10 DEF ReleaseFails
<1>11. CASE Crash(c)           BY <1>11 DEF Crash
<1> QED
  BY <1>1, <1>2, <1>3, <1>4, <1>5, <1>6, <1>7, <1>8, <1>9, <1>10, <1>11
  DEF Work, Fault

\* Steps of Django.
LEMMA DjangoStep ==
  ASSUME CallbackInv, NEW d \in Request, Django(d)
  PROVE  CallbackInv'
<1> USE CallbackAssumption
    DEF CallbackInv, TypeOK, TransactionHoldsRow, PaidIsMarked, DjangoUpToDate,
        DeliveryUnchanged
<1>1. CASE DjangoReads(d)            BY <1>1 DEF DjangoReads, Begin
<1>2. CASE DjangoChecks(d)           BY <1>2 DEF DjangoChecks, Begin
<1>3. CASE DjangoInitiates(d)        BY <1>3 DEF DjangoInitiates, Proceed
<1>4. CASE DjangoPushes(d)           BY <1>4 DEF DjangoPushes, Proceed
<1>5. CASE DjangoVerifies(d)         BY <1>5 DEF DjangoVerifies, Proceed
<1>6. CASE DjangoFails(d)            BY <1>6 DEF DjangoFails, Proceed
<1>7. CASE DjangoSavesApplication(d) BY <1>7 DEF DjangoSavesApplication
<1>8. CASE DjangoDies(d)             BY <1>8 DEF DjangoDies
<1> QED BY <1>1, <1>2, <1>3, <1>4, <1>5, <1>6, <1>7, <1>8 DEF Django

\* A key that expires.
LEMMA ExpiryStep ==
  ASSUME CallbackInv, LockExpires PROVE CallbackInv'
BY DEF LockExpires, CallbackInv, TypeOK, TransactionHoldsRow, PaidIsMarked, DjangoUpToDate,
       RowsUnchanged, DjangoUnchanged

LEMMA CallbackStep == CallbackInv /\ [Next]_vars => CallbackInv'
<1> SUFFICES ASSUME CallbackInv, [Next]_vars PROVE CallbackInv'
  OBVIOUS
<1>1. CASE UNCHANGED vars
  BY <1>1 DEF vars, CallbackInv, TypeOK, TransactionHoldsRow, PaidIsMarked, DjangoUpToDate
<1>2. CASE Next
  BY <1>2, DeliveryStep, DjangoStep, ExpiryStep DEF Next
<1> QED BY <1>1, <1>2

LEMMA CallbackAlways == Spec => []CallbackInv
BY CallbackInit, CallbackStep, PTL DEF Spec

-----------------------------------------------------------------------------

\* Rows, keys, deliveries and Django's requests always hold what the code writes.
THEOREM CallbackTypeCorrect == Spec => []TypeOK
<1>1. CallbackInv => TypeOK
  BY DEF CallbackInv
<1> QED BY <1>1, CallbackAlways, PTL

\* However deliveries fail, repeat or die, and while Django's requests come one
\* by one and do not die between their two saves, a paid payment has its
\* application or the request that is about to save it.
THEOREM PaidPaymentHasItsPlace == Spec => []PaidHasItsPlace
<1>1. CallbackInv => PaidHasItsPlace
  BY DEF CallbackInv, DjangoUpToDate, PaidHasItsPlace
<1> QED BY <1>1, CallbackAlways, PTL

\* A delivery that writes holds the row of a payment that is not paid, and a
\* request of Django that ran alone has read what is still true.
LEMMA PaidIsKept ==
  ASSUME CallbackInv, [Next]_vars, payment = "PAID", payment' # "PAID"
  PROVE  django' # django /\ ~orderly
<1> USE DEF CallbackInv, TransactionHoldsRow, PaidIsMarked
<1>1. CASE UNCHANGED vars
  BY <1>1 DEF vars
<1>2. ASSUME NEW c \in Call,
             (\E r \in Report : Deliver(c, r)) \/ Work(c) \/ SelectPayment(c) \/ Fault(c)
      PROVE  payment' = "PAID"
  BY <1>2
  DEF Deliver, Work, Fault, Acquire, AnswerBusy, AcquireFailsOpen, SelectPayment,
      RecordFailure, UpdateRows, SealFails, Release, ReleaseFails, Crash, At,
      RowsUnchanged, DjangoUnchanged
<1>3. CASE LockExpires
  BY <1>3 DEF LockExpires, RowsUnchanged
<1>4. ASSUME NEW d \in Request, Django(d)
      PROVE  django' # django /\ ~orderly
  <2>1. DjangoInitiates(d) \/ DjangoFails(d)
    BY <1>4
    DEF Django, DjangoReads, DjangoChecks, Begin, DjangoPushes, DjangoVerifies,
        DjangoSavesApplication, DjangoDies, Proceed
  <2>2. django[d] \in {"checked", "read", "push"} /\ django'[d] \in {"push", "UNPAID"}
    BY <2>1 DEF DjangoInitiates, DjangoFails, Proceed, TypeOK
  <2>3. ~orderly
    BY <2>2 DEF DjangoUpToDate
  <2>4. django'[d] # django[d]
    BY <2>1 DEF DjangoInitiates, DjangoFails, Proceed, TypeOK
  <2> QED BY <2>3, <2>4
<1> QED BY <1>1, <1>2, <1>3, <1>4 DEF Next

\* No delivery ever undoes the verification, and neither does a request of Django
\* that ran alone.
THEOREM VerificationStands == Spec => VerifiedStaysVerified
<1>1. CallbackInv /\ [Next]_vars =>
        [payment = "PAID" /\ payment' # "PAID" => django' # django /\ ~orderly]_vars
  BY PaidIsKept
<1> QED BY <1>1, CallbackAlways, PTL DEF Spec, VerifiedStaysVerified
=============================================================================
