# IPT placement system: specifications

A TLA+ development beside the code of the IPT placement marketplace: a Django
application (`src/backend`) in which companies offer training slots and
students apply and pay for them, and a FastAPI service (`src/realtime`) that
takes payment callbacks and pushes notifications. Celery workers run the
background tasks, Redis holds locks, caches and rate limits, PostgreSQL the rows.

## Inventory

| Part | State it keeps | Operations | Talks to |
|---|---|---|---|
| applications, students (`apps/applications`, `apps/students`) | `Application` (status, deadline, can_cancel, is_accepted), `StudentProfile.reapplication_credit` | apply, create_application, cancel_application, accept_application, task `expire_unpaid` every 600 s | locks the slot row; creates payments; queues slot refreshes |
| payments (`apps/payments`) | `Payment` (status, is_paid, paid_at, gateway_txn_id) | initiate (gateway push), webhook, mark_paid, status poll | Selcom gateway; writes applications and slots |
| slots, companies (`apps/slots`, `apps/companies`) | `Slot` (status, capacity) | create, edit, toggle, delete, refresh_status and its task | counts applications; deletion cascades |
| listing (`slots/views.py`, `core/cache.py`, `core/signals.py`) | Redis: generation, listings, single-flight locks | search, bump on every save | signals of slots, applications, payments, companies; the callback |
| FastAPI callback (`realtime/app/webhooks`) | Redis lock per reference; the same rows by SQL | `_process_payment`, mock endpoints | ledger, notifications, Celery, listing generation |
| integrity ledger (`core/immutability.py`, both services) | `IntegrityRecord` chain of hashes | seal on save, verify_record, verify_chain | sealed from Django signals and from the callback |
| registration and login (`apps/accounts`, `core/redis_client.py`, `static/js/form-loading.js`) | `User`, Redis lock with token, session, task result | register and login by Celery task, poll, exchange for a session, deletion | Redis, the broker, the database |
| rate limits (`core/rate_limit.py`, `realtime/app/core/rate_limit.py`) | Redis: tokens, last | consume | all views, outbound messages |
| messages (`apps/notifications`, SMS and e-mail tasks) | `Message` (attempts, status), `Notification` | create, throttled dispatch, retry, fan-out | providers, token bucket, Redis channel |
| live notifications (`realtime/app/ws`, `static/js/ws.js`) | table of sockets | subscribe, connect, push, reconnect | Redis channel |
| verification (`core/views.py`, `apps/documents`) | verification_status, documents | upload, scan, review, edit, deactivate | gates in front of apply and of everything a company does; `AuditLog` |
| browser code (`static/js`) | what a page shows and has asked for | dependent selects, marketplace, payment and polling | the views above; replies arrive late, in any order or not at all |
| administration (`core/views.py`) | `PlatformSetting`, `NotificationTemplate`, `AuditLog` | settings form (row by row), template form, reports | `AuditLog`; the senders read templates |
| locations, helpers, scripts | reference data | reads | |

What is hard here: no request runs in a transaction (`ATOMIC_REQUESTS` is
off), so each handler is a sequence of commits that other workers see and that
a crash can cut anywhere; model instances are read once and saved later, with
`update_fields` naming columns that may have changed since; the gateway repeats
and reorders reports; deadlines pass at any moment. `PROJECT.json` lists each
such place under `hazards`, with the properties that cover it.

Correctness of the parts, in words: a seat is reserved only if there is one and given back if it is
not paid for; nobody is placed or credited without having paid; a verified payment stays verified
and gets its place; credits are conserved; the shown slot status follows the seats; a cached listing
of the current generation is not older than the generation; what was changed behind the ledger's
back is reported; an e-mail has one account and a session belongs to the e-mail that was typed; a
bucket gives out at most its capacity, its refill and what the delays of its callers add; a message
is delivered at most once and its row says what happened; an approval was made with the documents
there; the audit log tells of what was done and what it tells of can be found; a page that waited
for its replies shows what it asked for.

## Modules

| Module | Models | Runs | Theorems |
|---|---|---|---|
| `Placement` (with `MCPlacement`) | applications, payments, slots, credits and their handlers | `placement_serial`, `placement_race_seats` | `PlacementProofs` |
| `PlacementRaces` (with `MCPlacementRaces`) | `Placement` with the history of which requests were under way when something was decided | `placement_race_money` | `PlacementProofs` |
| `SlotSearchCache` (with `MCSlotSearchCache`) | the slot listing, its versioned cache and single flight | `search_cache_fresh`, `search_cache_outage` | `SlotSearchCacheProofs` |
| `PaymentCallback` | the FastAPI callback beside the Django views of one payment | `callback`, `callback_paid` | `PaymentCallbackProofs` |
| `Accounts`, implementing the abstract `Lease` | registration, login, account deletion, the Redis mutex | `accounts` | `AccountsProofs` |
| `IntegrityLedger` (with `MCIntegrityLedger`) | seals, the ledger and the integrity page | `ledger` | `IntegrityLedgerProofs` |
| `OutboundMessages`, built on `TokenBucket` | the Lua script, and the tasks that send under its budget | `outbound` | `OutboundMessagesProofs` |
| `Verification` (with `MCVerification`) | profiles, documents, review, its audit log, and the gates they open | `verification` | `VerificationProofs` |
| `Configuration` (with `MCVerification`) | platform settings and message templates, and their audit log | `verification` | `VerificationProofs` |
| `Browser`, composed of `LocationCascade`, `Marketplace`, `PaymentPage` (with `MCBrowser`) | the scripts that wait for replies | `browser` | `BrowserProofs` |

An operator whose comment begins with "Mutant:" is not part of a model: it is a
plausible mistake in the definition that follows it. With the mistake in
place, TLC finds a property violated; `PROJECT.json` lists which one, for every
property of every run. `MC` modules hold the constants, the symmetry and
the view of an instance; `MCVerification` also narrows the initial states and
composes `Verification` with `Configuration`.

## Placement: the core

`Placement.tla` models applications, payments, slots and credits at the grain
of one committing database statement with the reads in front of it. `job[w]`
is what worker `w` is doing: a program counter and the values it has read. A
later `save(update_fields=...)` writes those values, whatever the row holds
now. `Continue(w)` is the next statement of a job, `Arrive(w)` the first step
of a request or task, `Crash(w)` the end of a worker in mid-job, `RowGone(w)`
the exception of a save whose row was deleted.

| Handler | Actions, in order |
|---|---|
| `students.views.apply` | `StartApply`, `LockSlot`, `RefuseReservation` or `ReserveSeat` (`create_application`), `SaveLetter`, then with a credit `CreatePaidPayment`, `SpendCredit`, without `FindPayment`, `CreatePendingPayment` or `ResetPayment` |
| `students.views.cancel_application` | `StartCancel`, `CancelApplication`, `CountBookings`, `SaveSlotStatus`, `GrantCredit` |
| `InitiateSTKPushView.post` | `StartInitiate`, `RecordPayment`, `PushSucceeds` or `PushFails`, `FailPayment`, `FailApplication`, `ReadSlot`, `CountBookings`, `SaveSlotStatus` |
| `PaymentWebhookView.post` | `StartWebhook`, `MarkPaid`, `SavePaidApplication`, or the failure steps above |
| `students.views.profile`, `platform_student_edit` | `StartProfile`, `SaveProfile` (every column, the credit with them) |
| `applications.expire_unpaid` (any number at a time) | `StartExpire`, `ExpireApplications`, `ExpirePayments`, `QueueRefresh` (once per slot) |
| `slots.refresh_status` | `StartRefresh`, `CountBookings`, `SaveSlotStatus` |
| `send_acceptance_sms` | `StartAccept`, `AcceptApplication` |
| `slot_create`, `slot_toggle`, `slot_edit`, `slot_delete` | `SlotCreate`; `StartToggle`, `ToggleSlot`; `StartEdit`, `EditSlot`; `SlotDelete` |
| time and gateway | `DeadlinePasses`, `WindowCloses` (24 h to cancel), `PromptAnswered` |

The row lock of `create_application` is the predicate `Locked`: a worker
between its full check and its commit. Another `SELECT ... FOR UPDATE`, and
every UPDATE or DELETE of that slot row, waits for it; everything else passes.
`gateway[a]` is a set: the gateway may report a result any number of times, in
any order, at any later time. `stray` is a history variable: the applications
that hold a seat no reservation gave them (made PAID by a late webhook, by the
second save of a letter, or by a credit, after their reservation had ended).

Data that no property tells apart is left out: letters, amounts, phone numbers,
texts, and times other than "the deadline has passed" and "the 24 hours are
over". `is_paid` stands for `is_paid` and `paid_at`, which are written
together; a payment made with a credit takes the creation time of its
application as `paid_at`, which cannot matter since `can_cancel` is FALSE there.
A success reply of the gateway is assumed to carry a transaction id.
Requests have passed login, the verification gates, rate limits and the
webhook signature. `apply` hashes the letter before it saves it; a failure
there is a crash of the model.

### Runs

With one worker the statements of different requests do not interleave: this
is the serial system. With two workers they do.

| Run | Instance | Shows |
|---|---|---|
| `placement_serial` | 1 student, 2 slots, capacity 1, 1 worker; all requests of the student, the gateway and the clock | `PaidPaymentStaysPaid`; `PendingIsPayable`; `FullSlotIsFull`; `PaidAcceptanceStands`; `CreditConservation`; `MoneyGetsThePlace` |
| `placement_race_seats` | 2 students, 1 slot, capacities 0 and 1, 2 workers, 1 crash; apply, expiry, edit | `ReservationWithinCapacity`; `SeatReleased` under fairness |
| `placement_race_money` | 1 student, 1 slot, 2 workers, 1 crash; all requests but edit and toggle | `NoFreePlacement`; `PaidPlaceStands` of `PlacementRaces` |

The triggers that `plan.md` and the tests describe are in no migration of the
repository, so the model has none. Three statements that rest on them are
defined in the module and are violated: `SlotNeverOversold`, `AcceptedStaysPaid`
and `PaidHasPayment` (see Findings).

Bounds. Two students are enough to compete for a seat and one slot to compete
for; the second slot is what a credit is for, and one student can spend and
earn one in turn. Two workers give every pairwise race; one crash gives every
cut of a job. Sequences of requests are not bounded: the state space is finite
because rows, jobs and results are. A slot id is used once (`ABSENT`,
then a slot, then `DELETED`), except that an edit may bring a deleted row back.

What holds only in the serial system. `PaidPaymentStaysPaid`,
`MoneyGetsThePlace`, `PaidAcceptanceStands`, `PendingIsPayable`,
`FullSlotIsFull` and `CreditConservation` are properties of one worker that
does not crash: of what sequences of requests do, however long. With two
workers the code breaks each of them (an initiation that resets a payment
verified meanwhile; two cancellations at once; a profile form that brings a
spent credit back; a refresh that saves an old status), as the hazards say at
their lines. They are checked, and no theorem is stated about them, since the
deployed system has several workers.
`ReservationWithinCapacity`, `SeatReleased` and `NoFreePlacement` hold of every
interleaving.

`PlacementRaces` says how far the first three go wrong when workers interleave
and die. It is `Placement` with two history variables: `behind`, the requests
and tasks that were under way on an application when somebody else verified
its payment, made it PAID or CANCELLED, accepted it or deleted it (`Decided`),
and `harmed`, the applications that such a worker has written since, or whose
worker died between `mark_paid` and the application's save (`LeavesHalfPaid`).
`PaidPlaceStands`: whatever is not harmed and has a verified payment has the
status PAID on the payment, and an application that is PAID, about to be, or
cancelled and never accepted. So a repeated or late webhook, an expiry, a
second cancellation or an initiation that *began* after the decision does no
harm, in any interleaving: the losses in this code come from stale requests
and from that one death, and from nothing else.

Deadlock checking is off in the race runs only: there a bounded set of requests
can come to rest for good (all slots deleted, or no request enabled), which is a
system at rest and not a fault.

### Fairness

`FairSpec` is used for `SeatReleased`. Weak fairness of `Continue(w)`: a worker
goes on with its job (a web worker or Celery does not stop between two
statements for ever; a crash is an explicit, bounded event). Strong fairness of
taking up `expire_unpaid`: beat sends the task every 600 seconds and the broker
keeps it, and Celery's workers serve no web request, so a stream of requests
cannot shut it out for ever. Weak fairness of `DeadlinePasses`: time passes. No
request of a user is fair, nor is the refresh of a slot.

### Theorems

`PlacementProofs.tla`, for any set of students that is finite, any slots, any
workers, any capacities in `Nat`, any subset of requests and any number of
crashes:

* `TypeCorrect`: `Spec => []TypeOK`. One lemma per group of actions; `JobFields`
  says what the program counter implies about the record of a job.
* `ReservationsFit`: `Spec => ReservationWithinCapacity`, from the inductive
  invariant `ReservationInv` (`ReservationExclusive`). The property alone is
  not inductive: the full check is a step before the reservation. The invariant
  says that a worker in between is alone on its slot, that the slot exists, and
  that the firm seats (`Booked(l) \ stray`) are still fewer than the capacity.
  It is preserved because no other step adds a firm seat (`FirmSeats`) and none
  writes a locked slot row (`LockedSlotKept`). Students are finite so that
  seats can be counted.
* `PlacementIsPaidFor`: `Spec => []NoFreePlacement`, from `MoneyInv`, which adds
  what jobs under way are about to give: a cancellation, a grant, a letter saved
  with a credit or a PAID status, a `mark_paid`. Each was entitled by a row or a
  result of the gateway when it was read, and the gateway takes nothing back
  (`ChargedForEver`), so a stale read stays justified.

* `RowsHaveOwners`: `Spec => []NoOrphans`, whatever races with a deletion of a
  slot: no application without its slot, no payment without its application.
  `RowsInv` adds what a job still owes to the foreign keys, and that no job
  carries the status of a slot that is not there.

* `PaidPlacesStand`: `RaceSpec => []PaidPlaceStands`, for any number of workers and
  deaths, from the inductive invariant `RaceInv`. Besides the property it says
  that only a payment with `is_paid` has the status PAID, and of every job
  that is not behind that what it has read is still so as far as it matters
  (`UpToDate`): an initiation or a failure that is not behind meets a payment
  that is not verified, a cancellation an application nobody has accepted, a
  letter the status it is about to save. A step of another worker that would
  make this false is a decision, and puts the job behind; a step of its own
  either keeps it or harms. Behind and harmed are only ever about the
  application a job works on, which is why the argument is one application at
  a time.

The assumption `PlacementAssumption` is evaluated by TLC in every run. Only
model-checked: `SeatReleased` (liveness is out of the proof system's reach), and
the six serial properties, which are false of several workers.

## SlotSearchCache: the listing and its cache

`SlotSearchCache.tla` models `SlotSearchView.get` with `cache_get_or_set` step
by step (read the generation, look up, take the lock, poll, two queries, store,
release) against handlers that commit and bump. Redis is `generation`, `cache`,
`locks` and `up`; every call to it fails open while `up` is FALSE. Listings and
locks expire at any moment, so a slow holder loses its lock and deletes the
lock of the next; a worker may end at any step and leave its lock behind.

| Kind of handler | Code | Order |
|---|---|---|
| `save` | `Model.save` of a slot, application, payment or company | commit, bump |
| `apply` | `create_application`, then letter and payment | bump 0 to 2 times, commit, then twice commit and bump |
| `expire` | `expire_unpaid` and the queued `refresh_status` | commit without signal, commit, bump |
| `delete` | `Slot.delete` | bump inside Django's transaction, commit |

The database is a number `db` that counts the commits a listing can show
(`Commit` may also be one it does not show); a listing is the pair of numbers at
which its two queries were answered. One filter signature stands for all, since
signatures share only the generation. `floor` and `done` are history: what had
been completed when a search began, and by the last handler that ended;
`degraded` records that a bump or a generation was lost in an outage, after
which the code promises nothing before the TTL. A worker that dies between its
commit and its bump is not modelled: it leaves the listing stale for at most
the TTL of 20 s.

| Run | Instance | Shows |
|---|---|---|
| `search_cache_fresh` | 2 searchers, 1 handler of `save`, `apply`, `expire` | `ShowsCompletedWrites`; `CurrentListingIsFresh` |
| `search_cache_outage` | 2 searchers, 1 handler of `save`, `delete`, 1 outage | `WaiterIsAnswered` |

Two searchers are a holder and a waiter, or two holders after an expiry. One
handler is up to four commits and four bumps around every step of a search;
two handlers do not disturb each other, since a bump after one's own commit
covers whatever was committed before it. Searches repeat without bound.
`View` drops what Redis holds under a generation that is over and no search
uses, which nothing can read again. Fairness (`FairSpec`): a worker that serves
a search goes on with it; nothing makes Redis come back or a search begin.

`SlotSearchCacheProofs.tla` proves, for any searchers, writers and bounds,
`CacheTypeCorrect` and, for handlers of the kinds `save`, `apply` and `expire`,
`SearchesShowCompletedWrites` and `CurrentGenerationIsFresh`. Both rest on
`FreshInv`: a value cached or loaded under a key is not older than `floor` of any
search that uses the key, nor than `done` while the key is the current
generation (`Sound`); `done` is `db` when no handler is under way. A commit
makes `db` grow, a bump starts a generation no value has as its key, so both keep
it. The assumption on the kinds is needed: `delete` ends with a
commit, and the findings say what follows. `WaiterIsAnswered`
(liveness) is only model-checked.

## PaymentCallback: one payment, two services

`PaymentCallback.tla` follows `_process_payment` for one payment reference. A
delivery goes through `Deliver`, `Acquire` / `AnswerBusy` / `AcquireFailsOpen`
(the Redis key expires, has no owner and fails open), `SelectPayment` (the
`SELECT ... FOR UPDATE`), then `RecordFailure`, or `UpdateRows` and `SealFails`,
and `Release` / `ReleaseFails`. `row` is the transaction that holds the row.
Between these steps Django works on the same payment: `DjangoReads` to
`DjangoDies` are the webhook and the initiation, any number beside each other,
each read and each save a statement of its own (the saves wait for the row
lock), and each request may die anywhere. `orderly` is history: Django's
requests came one at a time and none died between its two saves. `Crash` ends a
delivery anywhere.

The statement after the two UPDATEs inserts into `core_integrityrecord` without
an id, and the UUID key has no default in the database. The model therefore has
`SealFails` and no commit of a successful report; `router.py` 168 to 254 is
reached by no execution and not modelled. `VerifiedStaysVerified` is about a
payment that Django's webhook has verified: failure reports that come through
the other service, at any time, never undo it; a Django request that ran beside
another one may. `PaidHasItsPlace` is stated of orderly requests, since without
that it is false of Django alone, as the findings and `PlacementRaces` say.

| Run | Instance | Shows |
|---|---|---|
| `callback` | 2 deliveries at a time of any number of reports, 2 requests at a time in Django, 1 crash of the service, any number of dead requests | `PaidHasItsPlace`; `VerifiedStaysVerified`; `CallIsAnswered` under fairness |
| `callback_paid` (violated) | the same with 1 Django request and no crash | `ReportedPaidIsRecorded`: what `plan.md` says of the callback is not what happens |

Two deliveries are a holder and a waiter of the row, or of the key; a delivery
that has ended may begin again with another report, so that any sequence of
reports occurs. Fairness: the event loop runs a delivery on (`Work`, weak);
PostgreSQL serves the queue of a row lock (`SelectPayment`, strong: the row may
be taken again and again, and a waiter comes first in the end); Redis expires
keys. Nothing is asked of Django, and a gateway never has to report.

`PaymentCallbackProofs` proves, for any deliveries and crashes, `TypeOK`,
`PaidHasItsPlace` and `VerifiedStaysVerified` from `CallbackInv`: a delivery with
an open transaction has the row, and then the payment is not PAID; as long as
Django's requests are orderly, what one has read or still owes agrees with the
payment. The Redis key occurs nowhere in
the argument: the row lock does all of it, which is why an expiry of the key,
its unconditional deletion and an outage of Redis are harmless.

## Accounts and Lease: registration, login, sessions

`Accounts.tla` has one form per page. `SubmitRegister` and `SubmitLogin` are the
POST with the task it queues: its answer arrives (`Answered`) or is lost
(`AnswerLost`), and then the task runs and nobody asks for its result.
`SubmitFails` is a POST that did not arrive, `Poll` and `Finalize` the page's
script and `check_auth_task` / `finalize_auth`, `Logout` and `RequestDeletion`
the other views. The task is `AcquireLock` / `AcquireGivesUp` (the task goes on
without a lock, also when its SET was done and the answer lost),
`CheckExists`, `SaveUser` (or its `IntegrityError`) and `ReleaseLock` (whose
failure is swallowed), or `LoginTask`. Any number of tasks run beside each other,
those of earlier submissions included. `TimeLimit` kills a task at any step and
makes its result an error; `WorkerDies` ends it with its worker, after the
early acknowledgement, so that it has no result, ever. `LockExpires` ends the
key at any moment. Passwords, names and roles are left out: a login finds the
active account of the e-mail or nothing.

`Lease.tla` is what a mutex with a time to live promises: it is granted when
free, and ends by its own holder or by time, never because another client
leaves. It does not promise mutual exclusion. `LockIsLease` says that the keys
of `redis_client` with their tokens implement it: `holder` is `lock`, and `inside[t]`
is the e-mail for which task `t` has a token.

The run `accounts` has two pages, two tasks at a time, two e-mails and two keys
of accounts: two registrations of one e-mail, a login beside a registration, a
page that goes on with another e-mail while the task of the first still runs.
It shows `OneAccountPerEmail` (the unique column alone guarantees it),
`SessionIsOwn`, `LockIsLease` and `SubmissionAnswered`: a page that polls is
answered, unless the worker of its task died; then it polls for ever, which is
a finding. Fairness: a Celery worker that lives runs its task on, the page polls
every 1.5 s, the exchange is answered or fails. No key has to expire, no user to
submit, and no fault to happen.

`AccountsProofs` proves for any pages, tasks, e-mails and keys: `TypeOK`;
`OneAccountPerEmail` and `SessionIsOwn` from `AccountInv`, which adds that the task
a page awaits is of the e-mail it submitted last, and that the account in a result
is one of the task's e-mail; and
`MutexImplementsLease`, step by step under the mapping above.

## IntegrityLedger: seals and the integrity page

`SaveRecord` is a save that has committed. What `seal` does then is three statements: `ReadLastHash`
(the last row), `ReadLastForRecord` (the last row of the record, and the early return of
`AlreadySealed`) and `AppendRow`, the row it creates under a random key; between them other writers
do the same, or the worker dies (`Crash`). A save inside a transaction that commits later is
modelled as one that has committed: its seal reads the same rows. `UpdateUnsealed` is
`QuerySet.update`, `DeleteRecord` a deletion, `EditRow` an edit of a stored payload. `Tampered`,
`Diverges` and `ChainBreak` are what `integrity_check` reports. "First", "last" and "before" are by
key, as in the code, and keys come in any order. A hash is what it is computed from, so that two
hashes are equal when that is.

The run `ledger` has two writers, two records of two values and three rows: two
seals that read the same last hash, a row of one record between two of the
other, an older row with a greater key. Writers, records and values are
interchangeable (`MCIntegrityLedger`). It shows `AncestryIsRooted`,
`SealedStateHasRow`, `EditedRowIsReported` and `UnsealedChangeIsReported`. That the
rows form one chain is not true of this code (see Findings) and not claimed.
There is nothing that must happen, and the ledger is full after three rows:
deadlock checking is off.

`IntegrityLedgerProofs` proves all four for any finite set of keys from
`LedgerInv`: each row is what `seal` wrote but for its payload; its `prev_hash`,
and that of each seal under way, is empty or the hash of a row; sealed states
have rows. It is kept because no step takes a row, its hash or its `prev_hash`
back (`Kept`). For `UnsealedChangeIsReported` the last row of a record by key must
exist, which `MaxOfKeys` shows by well-founded induction on the keys.

## TokenBucket and OutboundMessages: budgets and sends

`TokenBucket.tla` is the Lua script, which both services carry: refill, cap,
draw. `OutboundMessages.tla` keeps a bucket per channel and per kind of limited
request. `Consume` is one run of the script, with a time its caller has read
before, on what Redis still has (`Stored`: a bucket lives `Ttl` ticks after its
last use). The four sending tasks are `CreateMessage` (or `TaskRaises`, before
there is a row), `ReadClock`, `AskBudget` / `BudgetFailsOpen`, `ProviderAccepts` /
`ProviderRaises` and `SaveOutcome`. Between `ReadClock` and `AskBudget` time passes
and others draw, so that callers reach Redis in another order than they read
their clocks; `Skew` says how far the hosts' clocks are ahead. `Retried` is
Celery's retry, which runs the task again from its first statement; `Crash` is
the end of a worker, after which an acknowledged task is not run again.
`LimitRequest` is any other use of a bucket, by a caller that has read its clock
now or earlier; it reads and asks in one step, which shows no less, since it
carries nothing else.

`drift[b]` is history: how far the times that callers of `b` have read are from
the moments at which Redis ran the script, in all. `WithinBudget` says that no
more is granted than `Capacity + Refill * (now + drift)`. Each late call may move
`last` back and let the time behind it be refilled once more, and this is all it can
do. With drift 0 it is the budget that `rate_limit.py` promises; the code does not
keep that for callers that are late (see Findings).

The run `outbound` has two tasks of any kind, one bucket of requests, buckets
of one token, one retry, one tick and one fault: both tasks on one channel
exceed its budget, are retried with and without a new token, and give up;
tasks and requests of before the tick reach Redis after others have drawn with the
new time, twice for requests (`MaxDrift`), which is enough to exceed the budget that
`WithinBudget` would have without `drift`; buckets are dropped and come back
(`Ttl = 1`). Clocks agree (`Skew = 0`) to keep the run small; the theorem has the
skew open. It shows `WithinBudget`, `DeliveredAtMostOnce`,
`SentWasDelivered` and `EverySendEnds`. Fairness: Celery runs a queued task and
goes on with it; the clock is not fair, so that sends end although no token
comes. When all tasks have ended and the clock has stopped only requests go on;
without the bound on the clock nothing would come to rest, and deadlock checking
is off for that bound.

`OutboundMessagesProofs` proves, for any capacity, refill, skew, tasks and
bounds, `TypeOK`; `WithinBudget` from `BucketInv` (what a bucket has granted and
still holds was there at first, or gained up to its last use or the time it holds,
whichever is earlier, or is paid for by drift; and a bucket that Redis drops would
have been full, which is what `Ttl * Refill >= Capacity` is assumed for);
`DeliveredAtMostOnce` and `SentWasDelivered` from `MessageInv` (a task is put back
only before it has called the provider; a row is SENT only at the end of the last
run, and is the last row).

## Verification: profiles, documents, review

Requests read first and write later; `job[w]` is a request with what it has read.

| Code | Actions |
|---|---|
| profile pages of companies and students | `StartEdit`, `SaveEdit` (every column as it was read), `Invalidate` |
| `platform_student_edit`, `platform_company_edit` | `StudentEdit`, `CompanyEdit`, `SaveEdit`, `Invalidate`, `WriteAudit` |
| `student_verification`, `company_verification` | `StudentReview`, `CompanyReview`, `CheckDocuments`, `SaveApproval` or `SaveRejection`, `Invalidate`, `WriteAudit`; `Deactivate`, `WriteAudit` |
| `_require_approved_company` in front of slots | `StartPost`, `RequireApproved` |
| the student's cached status | `OpenMarketplace`, `LoadStatus`, `StoreStatus`, `StatusExpires` |
| `upload_document`, the student's vault, `enqueue_once` | `StartUpload`, `StudentUpload`, `StoreDocument` / `RefuseFile`, `SendScan`, `SendRaises`, `SendRaisesAgain` |
| `documents.scan`, `delete_document` | `ScanDocument`; `DeleteFile`, `DeleteRow` |

`edited`, `vetted` and `posted` are history: the last saved edit of each owner, the companies an
administrator approved with all documents there, and those that were let in to post. `vetted` is for
ever: a stale edit can bring back the approval of a company that was rejected since, the code does
that, and `ApprovedWasVetted` and `PostedWasVetted` pass it. They say that an approval with all
documents there came first, and no more. What such an edit may not do is the matter of
`ReviewIsWhole` (the columns of the older decision come back together) and `AuditMatchesDeeds` (that
decision is in the log). What a file contains is a choice of the scan's verdict.

`audit` is the set of rows `_write_audit` creates, as pairs of an action and the
owner of the profile (who did it, when and in which words is left out). The row is
a commit after that of the deed, and after the deletion of the cached status, so
that a worker may die in front of it: `deed` in a request is the row it still owes.
`AuditMatchesDeeds` says that the log tells of no deed that was not done, and that
it misses no decision a profile shows while no request has died, also when a
stale edit has brought back a decision that another one had replaced.

`Configuration.tla` is the rest of what administrators write. The settings form has
all keys and saves them one by one: `GetSetting` (`get_or_create`, whose defaults
are computed before there is a row, so that a number that is none raises here:
`SettingRaises`), `SaveSetting`, and after the last `LogForm`. A template is one
`update_or_create` (`SaveTemplate`, `TemplateRefused`). Forms are numbered as they are
sent; a row holds the number of the form whose values it has. `before` and `over`
are history: which forms were over when one was sent, and now. `AuditedFormsStand`:
a row of a form that the log tells of has its values, or those of a form that was
not over when it was sent; it never falls back behind it. (`SettingRaises` leaves
rows of a form that the log does not tell of: see Findings.)

The run `verification` has one company and one student, of which one account is active at a time
(owners share no row and no key), one required document type, one key of documents, two requests at
a time, two edits and two faults, of which the second is that the broker refuses a task once more.
That is an edit beside a review, two reviews, a deletion between the check and the save, a document
that is uploaded again under the key of a deleted one, and each cut of a decision by a crash. From
the state without accounts the same run explores `Configuration` (`MCNext`): it shares no variable
with profiles, and the log is only written, so that interleavings of the two show nothing. Two
administrators send three forms about two settings, both numbers, and one template: that is two
loops that interleave, a template beside them, and a third form after or between them. Nothing is
fair, since no property is about what must happen: that a stale cached status ends with its time to
live is Redis's doing and no question about this code. Deadlock checking is off: edits, forms and
keys of documents are bounded, and a request that has started an edit the bound no longer allows
stands still.

`VerificationProofs` proves, for any owners, documents and requests and from any
accounts, `TypeOK` and the six safety properties. `TypeInv` says what a request
carries at each of its steps. `VetInv`: what a request has read, or has checked,
bounds what it may write or be granted later; a stale edit can bring APPROVED
back only to a company in `vetted`. `ContentInv`: the row an edit has read had the
columns of one decision, so that its save has them too. `AuditInv`, for
`AuditMatchesDeeds`, says of each decision that a profile or the row an edit has read
shows that the log has it or a request owes it (`Logged`), and of each request that
owes a row that the deed is done (`Told`). What is logged or owed stays so while
nobody dies (`LoggedStays`), which is why a stale edit does no harm.

For `Configuration`, any administrators, settings, templates and number of forms,
it proves `ConfigTypeOK` and `AuditedFormsStand` from `ConfigInv`: a form is sent by
one request only, is not over while the request runs, and stands in all the rows its
request has passed. Only forms that are not over are ever written, so a row that
stands behind a form goes on to do so (`StandsStays`).

## Browser: pages that wait for replies

A tab shows one page (`open`); `Browser` composes the three scripts, whose
states do not meet.

* `LocationCascade`: the selects of region, district and ward
  (`ChooseRegion`, `ChooseDistrict`, `ChooseWard`), the replies that fill them in
  any order (`DistrictsArrive`, `WardsArrive`, `LoadFails`) and the form that
  checks what is submitted (`Submit`).
* `Marketplace`: filters (`ChangeRegion`, `ChangeDistrict`, `Type`,
  `DebounceEnds`), `LoadMore`, the replies (`PageArrives`, `PageFails`,
  `PlacesArrive`, `PlacesFail`), and the server: slots open and close
  (`SlotOpens`, `SlotCloses`), and `Search` cuts a page by its number from the
  listing of that moment, newest slot first.
* `PaymentPage`: the button (`Click`), the request that triggers the prompt in
  the steps of the server (`CheckPrompt`, `ResetPayment`, `PushAnswered`), which go
  on when the page has given it up for lost (`PromptLost`) and sent another,
  `PromptArrives`, and the loop of polls (`CheckStatus`, `ReadStatus`,
  `StatusArrives`, `StatusFails`).

The scripts do not tell a late reply from a current one. `crossed` is history: the
user changed or typed something while a reply was on its way. `PlacesAgree` and
`ListIsComplete` are about pages whose replies were waited for; without that
condition they are violated (see Findings). What the server does meanwhile is not
waited for: `opened` and `closed` are the slots that opened and closed since the
first page was cut, and `ListIsComplete` says that rows repeat only if one opened
and are missing only if one closed. `OnePrompt` likewise names the one case in which
a payment that the page reported as paid is not: a lost prompt was past its check.
That a *saved* place is one holds
whatever was waited for, since the form checks it.

The run `browser` has two regions with a district and a ward each, filters that
find no slot, two or three, pages of one slot, one slot that opens or closes, three
requests for pages and four for places, three clicks and two polls per loop (twenty
in the code). Three pages and one change are the least that show a row at both sides
of a seam, and one between two pages that no page has. It shows `PlacesAgree`,
`ListIsComplete`, `OnePrompt` and `WaitingEnds`. Fairness: a request is answered or
fails, a timer runs out; users, companies and the gateway owe nothing. Requests and
clicks are bounded, and a page then comes to rest: deadlock checking is off.

`BrowserProofs` proves `TypeOK` and the three invariants for any tree of places, any
filters, listings, page sizes and changes, any attempts and clicks, by one invariant
per page: who waits for the next answer of the payment page is alone, and the button
is off, and what was read as paid is so or overtaken by a lost prompt (`PayInv`); while
replies are waited for, at most one is on its way, for what the selects or filters say
now, and what it will be appended to is settled (`FormInv`, `MarketInv`). For the list,
the rows of a page are those whose position among the open slots lies in the page's
range: a slot that closes moves the others forward only, one that opens backward
only. `WaitingEnds` is model-checked.

## What is proved, and what is only checked

Every theorem is about `Spec` with its constants left open; the assumptions on
them are the named ASSUMEs of the modules, which TLC evaluates in every run. The
proofs use them and nothing else.

The six serial properties of `Placement` are no invariants of the specification for
every value of the constants: they are false of two workers, and model-checked for
one. What is proved in their place, for any number of workers and deaths, is
`PaidPlaceStands`. Every other safety property of a run is proved for all
values that its ASSUMEs admit, with `Kinds` narrowed for the two of `SlotSearchCache`.

Only model-checked is all liveness: `SeatReleased`, `WaiterIsAnswered`,
`CallIsAnswered`, `SubmissionAnswered`, `EverySendEnds` and `WaitingEnds`. Liveness
under fairness and ENABLED, and induction over what a recursive definition computes,
are out of the proof system's reach.

## Findings

`PROJECT.json` quotes the lines. One is shown by a run of its own
(`callback_paid`). The others are reproduced with the modules as they are, or by
the change named here:

| Finding | How to see it |
|---|---|
| a late verified payment oversells a slot | check `SlotNeverOversold` on 2 students, 1 slot, 1 worker of `MCPlacement` |
| a late failure makes an accepted application UNPAID | check `AcceptedStaysPaid` in `placement_serial` |
| an application PAID by credit without a payment, and the credit is kept | check `PaidHasPayment` in `placement_serial` |
| a paid payment without a place after a crash | `MoneyGetsThePlace` with `MaxCrashes = 1`, or `PaidPlaceStands` without `harmed` |
| a late initiation resets or fails a paid payment | `PaidPlaceStands` without `harmed`; `OnePrompt` without its last exception |
| a spent credit is there again, or a granted one gone | `StartProfile`, `SpendCredit` or `GrantCredit`, `SaveProfile` with two workers |
| the deleted slot is cached under the new generation | `CurrentListingIsFresh` with `Kinds = {"delete"}` |
| late callers, or skewed clocks, refill a bucket twice for one time | `WithinBudget` without `drift` |
| lists and selects of an earlier choice | `ListIsComplete`, `PlacesAgree` without `~crossed` |
| rows twice or missing behind "Load more" | `ListIsComplete` without `opened = {}` or `closed = {}` |
| a page polls for ever for a task that died with its worker | `SubmissionAnswered` without its last disjunct |

The rest were met while reading: the failed payment of the callback that leaves
its application PENDING (the action `RecordFailure`), the ledger that reports
breaks in its own order, the form that is dead after a network error
(`SubmitFails`), the settings form that raises in the middle, is half saved and
in no log (`SettingRaises`), the password reset that puts a UUID into a JSON session, and the
socket route that expects an integer.

## Not modelled

* Live notifications: `/ws/notifications/{user_id}` declares an integer and every
  user id is a UUID, so that no page of the program connects. There is no
  behaviour of the composed system to check before that is changed.
* The statements of the callback after its first seal, for the reason above, and
  its mock endpoints, which exist in development only.
* Password reset and change, and reports of the console: single saves and reads.
* `role_management`: it edits rows of `AdminRole`, and nothing in the repository
  creates one. `core/admin_mixins.py`: actions of a Django admin that
  `config/urls.py` does not mount.
* Letters, amounts, receipts, texts and translations, the signature check and
  the login in front of a request: data no property tells apart.
* Pure helpers (pages, skills, year labels), data imports and scripts:
  stateless functions of a few lines with tests, or programs that run once.
