-------------------------- MODULE OutboundMessages --------------------------
(***************************************************************************)
(* SMS and e-mail (notifications/services.py) sent by the Celery tasks of  *)
(* apps/applications and apps/payments under a budget per channel, beside  *)
(* the requests that the same token buckets limit.  A task creates a       *)
(* message row, reads its clock, asks the budget, calls the provider and   *)
(* saves the outcome.  When the budget is exhausted Celery runs the whole  *)
(* task again.                                                             *)
(***************************************************************************)
EXTENDS TokenBucket, Sequences

CONSTANTS Task,        \* one send that was asked for, with all its retries
          Channel,     \* SMS and EMAIL
          Scope,       \* the buckets of request limits
          MaxRetries,  \* max_retries of the tasks
          MaxTime,     \* bound: the clock stops here
          MaxDrift,    \* bound: how late requests reach Redis, in all, per scope
          MaxFaults,   \* bound: crashes and outages of Redis
          Skew         \* how far a host's clock is ahead of Redis's

Kind == {"submitted_sms", "acceptance_sms", "acceptance_email", "receipt_email"}

ASSUME OutboundAssumption ==
  /\ {"SMS", "EMAIL"} = Channel /\ Channel \cap Scope = {}
  /\ {MaxRetries, MaxTime, MaxDrift, MaxFaults, Skew} \subseteq Nat

VARIABLES
  now,        \* ticks since the start
  bucket,     \* bucket[b]: the hash in Redis and when it expires
  granted,    \* history: granted[b] draws that the script allowed
  drift,      \* history: drift[b] ticks between the times that callers of b have
              \* read and the moments at which Redis ran the script, in all
  kind,       \* kind[t]: which of the four tasks t is
  job,        \* job[t]: where the current run of the task is
  clock,      \* clock[t]: the time the task has read before it asks the budget
  retries,    \* retries[t]: request.retries of the task
  rows,       \* rows[t]: the statuses of the message rows t has created
  delivered,  \* history: delivered[t] messages the provider took from t
  faults

vars == <<now, bucket, granted, drift, kind, job, clock, retries, rows, delivered, faults>>

Bucket == Channel \cup Scope

\* The key is not there.
NoKey == [tokens |-> 0, last |-> 0, until |-> 0]

Ended == {"done", "raised", "lost"}

JobState == {"none", "queued", "created", "asking", "allowed", "sent", "failed"} \cup Ended

Init == /\ now = 0
        /\ bucket = [b \in Bucket |-> NoKey]
        /\ granted = [b \in Bucket |-> 0]
        /\ drift = [b \in Bucket |-> 0]
        /\ kind = [t \in Task |-> "submitted_sms"]
        /\ job = [t \in Task |-> "none"]
        /\ clock = [t \in Task |-> 0]
        /\ retries = [t \in Task |-> 0]
        /\ rows = [t \in Task |-> <<>>]
        /\ delivered = [t \in Task |-> 0]
        /\ faults = 0

-----------------------------------------------------------------------------
(* The buckets *)

\* What the script reads: the hash, unless its time to live is over.
Stored(b, time) ==
  IF now >= bucket[b].until
  THEN Full(time) ELSE [tokens |-> bucket[b].tokens, last |-> bucket[b].last]

Apart(x, y) == IF x >= y THEN x - y ELSE y - x

\* One run of the script, with the time its caller has read before.
Consume(b, time) ==
  LET after == Drawn(Stored(b, time), time)
  IN  /\ bucket' = [bucket EXCEPT ![b] =
                      [tokens |-> after.tokens, last |-> after.last, until |-> now + Ttl]]
      /\ granted' = [granted EXCEPT ![b] =
                       IF Allows(Stored(b, time), time) THEN @ + 1 ELSE @]
      /\ drift' = [drift EXCEPT ![b] = @ + Apart(now, time)]

\* What time.time() may return on the hosts of the deployment.
Clock == now..(now + Skew)

\* token_bucket, TokenBucketThrottle and enforce: a request that has read its
\* clock, now or earlier, is served or answered with 429; only the bucket is
\* left changed.
LimitRequest(s) ==
  /\ \E time \in 0..(now + Skew) : /\ drift[s] + Apart(now, time) <= MaxDrift
                                   /\ Consume(s, time)
  /\ UNCHANGED <<now, kind, job, clock, retries, rows, delivered, faults>>

Tick == /\ now < MaxTime
        /\ now' = now + 1
        /\ UNCHANGED <<bucket, granted, drift, kind, job, clock, retries, rows, delivered, faults>>

-----------------------------------------------------------------------------
(* The tasks *)

Enqueue(t, k) == /\ job[t] = "none"
                 /\ job' = [job EXCEPT ![t] = "queued"]
                 /\ kind' = [kind EXCEPT ![t] = k]
                 /\ UNCHANGED <<now, bucket, granted, drift, clock, retries, rows, delivered, faults>>

\* create_message, on every run of the task.
CreateMessage(t, k) ==
  /\ kind[t] = k
  /\ job[t] = "queued"
  /\ job' = [job EXCEPT ![t] = "created"]
  /\ rows' = [rows EXCEPT ![t] = Append(@, "PENDING")]
  /\ UNCHANGED <<now, bucket, granted, drift, kind, clock, retries, delivered, faults>>

\* The task raises before it has a row: what it is about was deleted, or the
\* receipt cannot be built.  Only OutboundRateLimited is retried.
TaskRaises(t) ==
  /\ job[t] = "queued"
  /\ job' = [job EXCEPT ![t] = "raised"]
  /\ UNCHANGED <<now, bucket, granted, drift, kind, clock, retries, rows, delivered, faults>>

SubmittedSms(t) == CreateMessage(t, "submitted_sms")
AcceptanceSms(t) == CreateMessage(t, "acceptance_sms")
AcceptanceEmail(t) == CreateMessage(t, "acceptance_email")
ReceiptEmail(t) == CreateMessage(t, "receipt_email")

ChannelOf(t) == IF kind[t] \in {"submitted_sms", "acceptance_sms"} THEN "SMS" ELSE "EMAIL"

\* Mutant: the run waits for the budget instead of being put back.
AsksAgain(t) == UNCHANGED <<job, retries>>

\* autoretry_for: OutboundRateLimited puts the task back, or fails it for good.
Retried(t) == IF retries[t] < MaxRetries
              THEN /\ job' = [job EXCEPT ![t] = "queued"]
                   /\ retries' = [retries EXCEPT ![t] = @ + 1]
              ELSE /\ job' = [job EXCEPT ![t] = "raised"]
                   /\ UNCHANGED retries

\* throttled_dispatch, as far as time.time() in consume.
ReadClock(t) ==
  /\ job[t] = "created"
  /\ job' = [job EXCEPT ![t] = "asking"]
  /\ clock' \in {[clock EXCEPT ![t] = time] : time \in Clock}
  /\ UNCHANGED <<now, bucket, granted, drift, kind, retries, rows, delivered, faults>>

\* Redis runs the script, whatever time the task has read; others may have come
\* in between.
AskBudget(t) ==
  /\ job[t] = "asking"
  /\ Consume(ChannelOf(t), clock[t])
  /\ IF Allows(Stored(ChannelOf(t), clock[t]), clock[t])
     THEN /\ job' = [job EXCEPT ![t] = "allowed"]
          /\ UNCHANGED retries
     ELSE Retried(t)
  /\ clock' = [clock EXCEPT ![t] = 0]
  /\ UNCHANGED <<now, kind, rows, delivered, faults>>

\* No answer comes from Redis, whether or not the script has run: consume returns
\* "allowed".
BudgetFailsOpen(t) ==
  /\ job[t] = "asking"
  /\ faults < MaxFaults
  /\ faults' = faults + 1
  /\ Consume(ChannelOf(t), clock[t]) \/ UNCHANGED <<bucket, granted, drift>>
  /\ job' = [job EXCEPT ![t] = "allowed"]
  /\ clock' = [clock EXCEPT ![t] = 0]
  /\ UNCHANGED <<now, kind, retries, rows, delivered>>

ProviderAccepts(t) == /\ job[t] = "allowed"
                      /\ job' = [job EXCEPT ![t] = "sent"]
                      /\ delivered' = [delivered EXCEPT ![t] = @ + 1]
                      /\ UNCHANGED <<now, bucket, granted, drift, kind, clock, retries, rows, faults>>

\* Mutant: a provider's exception is retried like an exhausted budget.
ProviderRetries(t) == /\ job[t] = "allowed"
                      /\ Retried(t)
                      /\ \E n \in {0, 1} : delivered' = [delivered EXCEPT ![t] = @ + n]
                      /\ UNCHANGED <<now, bucket, granted, drift, kind, clock, rows, faults>>

\* send_sms or send_email raises, before or after the provider took the message.
ProviderRaises(t) == /\ job[t] = "allowed"
                     /\ job' = [job EXCEPT ![t] = "failed"]
                     /\ \E n \in {0, 1} : delivered' = [delivered EXCEPT ![t] = @ + n]
                     /\ UNCHANGED <<now, bucket, granted, drift, kind, clock, retries, rows, faults>>

\* Mutant: the row is marked whatever the provider did.
SaveOutcomeSent(t) == /\ job[t] \in {"sent", "failed"}
                      /\ rows' = [rows EXCEPT ![t][Len(rows[t])] = "SENT"]
                      /\ job' = [job EXCEPT ![t] = "done"]
                      /\ UNCHANGED <<now, bucket, granted, drift, kind, clock, retries, delivered, faults>>

\* The save at the end of dispatch_message.
SaveOutcome(t) == /\ job[t] \in {"sent", "failed"}
                  /\ rows' = [rows EXCEPT ![t][Len(rows[t])] =
                                IF job[t] = "sent" THEN "SENT" ELSE "FAILED"]
                  /\ job' = [job EXCEPT ![t] = "done"]
                  /\ UNCHANGED <<now, bucket, granted, drift, kind, clock, retries, delivered, faults>>

\* The worker dies or the time limit kills it; the task was acknowledged when
\* it was received and is not run again.
Crash(t) == /\ job[t] \in {"created", "asking", "allowed", "sent", "failed"}
            /\ faults < MaxFaults
            /\ faults' = faults + 1
            /\ job' = [job EXCEPT ![t] = "lost"]
            /\ clock' = [clock EXCEPT ![t] = 0]
            /\ UNCHANGED <<now, bucket, granted, drift, kind, retries, rows, delivered>>

RunTask(t) == \/ SubmittedSms(t) \/ AcceptanceSms(t) \/ AcceptanceEmail(t) \/ ReceiptEmail(t)
              \/ TaskRaises(t) \/ ReadClock(t) \/ AskBudget(t)
              \/ ProviderAccepts(t) \/ ProviderRaises(t) \/ SaveOutcome(t)

Next == \/ Tick
        \/ \E s \in Scope : LimitRequest(s)
        \/ \E t \in Task : \/ \E k \in Kind : Enqueue(t, k)
                         \/ RunTask(t) \/ BudgetFailsOpen(t) \/ Crash(t)

\* Workers run what is queued; a retry comes due.
Spec == Init /\ [][Next]_vars /\ \A t \in Task : WF_vars(RunTask(t))

-----------------------------------------------------------------------------
(* Properties *)

TypeOK == /\ now \in 0..MaxTime
          /\ bucket \in [Bucket -> [tokens : 0..Capacity, last : Nat, until : Nat]]
          /\ granted \in [Bucket -> Nat] /\ drift \in [Bucket -> Nat]
          /\ kind \in [Task -> Kind]
          /\ job \in [Task -> JobState]
          /\ clock \in [Task -> Nat]
          /\ retries \in [Task -> 0..MaxRetries]
          /\ rows \in [Task -> Seq({"PENDING", "SENT", "FAILED"})]
          /\ delivered \in [Task -> Nat]
          /\ faults \in 0..MaxFaults

\* However many workers and requests draw at once, in whatever order they reach
\* Redis after reading their clocks, and however often Redis drops an idle
\* bucket: the script grants no more than a full bucket, what has been refilled
\* since, and what is refilled twice because readings are late or ahead.  Callers
\* that are prompt and agree on the time (drift 0) cannot over-draw it.
WithinBudget ==
  \A b \in Bucket : granted[b] <= Capacity + Refill * (now + drift[b])

\* Whatever is retried, the provider gets the message of one task at most once:
\* a task is only run again when it has not called the provider.
DeliveredAtMostOnce == \A t \in Task : delivered[t] <= 1

\* The rows tell the truth: of the rows that the retries of a task leave behind
\* at most one is SENT, and then the provider has the message.
SentWasDelivered ==
  \A t \in Task : LET Sent == {i \in DOMAIN rows[t] : rows[t][i] = "SENT"}
                  IN  /\ Sent \subseteq {Len(rows[t])}
                      /\ Sent # {} => delivered[t] = 1

\* Every send that was queued comes to an end, also under a budget that others
\* exhaust.
EverySendEnds == \A t \in Task : (job[t] = "queued") ~> (job[t] \in Ended)
=============================================================================
