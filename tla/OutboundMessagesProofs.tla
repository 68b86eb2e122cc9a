------------------------ MODULE OutboundMessagesProofs ------------------------
(***************************************************************************)
(* Proofs about OutboundMessages, for any tasks, budgets and numbers of    *)
(* retries: the bucket never grants more than it holds and gains, and the  *)
(* message of a task is delivered at most once, as its rows say.           *)
(***************************************************************************)
EXTENDS OutboundMessages, SequenceTheorems, TLAPS

-----------------------------------------------------------------------------
(* Arithmetic                                                              *)

LEMMA Refills ==
  ASSUME NEW r \in Nat, NEW from \in Nat, NEW to \in Nat, from <= to
  PROVE  /\ r * (to - from) = r * to - r * from
         /\ r * from \in Nat /\ r * to \in Nat /\ r * (to - from) \in Nat
         /\ r * from <= r * to
<1>1. PICK n \in Nat : to = from + n
  BY DEF Nat
<1>2. r * (from + n) = r * from + r * n
  OBVIOUS
<1>3. r * n \in Nat /\ r * from \in Nat
  OBVIOUS
<1> QED BY <1>1, <1>2, <1>3

\* What the script takes for the time since the bucket's last use.
Elapsed(last, time) == IF time >= last THEN time - last ELSE 0

\* One run of the script on a bucket b at a time.
LEMMA DrawnBucket ==
  ASSUME NEW b \in [tokens : 0..Capacity, last : Nat], NEW time \in Nat
  PROVE  /\ Drawn(b, time) \in [tokens : 0..Capacity, last : Nat]
         /\ Drawn(b, time).last = time
         /\ Drawn(b, time).tokens + (IF Allows(b, time) THEN 1 ELSE 0)
              <= b.tokens + Refill * Elapsed(b.last, time)
         /\ Drawn(b, time).tokens + (IF Allows(b, time) THEN 1 ELSE 0) <= Capacity
<1> DEFINE gain == Refill * Elapsed(b.last, time)
           filled == Lesser(Capacity, b.tokens + gain)
<1>1. Capacity \in Nat /\ Refill \in Nat
  BY BucketAssumption
<1>2. b.tokens \in 0..Capacity /\ b.last \in Nat
  OBVIOUS
<1>3. gain \in Nat
  BY <1>1, <1>2 DEF Elapsed
<1>4. Refilled(b, time) = [tokens |-> filled, last |-> time]
  BY DEF Refilled, Elapsed
<1> HIDE DEF gain
<1>5. filled \in 0..Capacity /\ filled <= b.tokens + gain /\ filled <= Capacity
  BY <1>1, <1>2, <1>3 DEF Lesser
<1> HIDE DEF filled
<1>6. Allows(b, time) <=> filled >= 1
  BY <1>4 DEF Allows
<1> DEFINE left == IF filled >= 1 THEN filled - 1 ELSE filled
<1>7. /\ left \in 0..Capacity /\ left + (IF filled >= 1 THEN 1 ELSE 0) = filled
      /\ Allows(b, time) => left = filled - 1
      /\ ~Allows(b, time) => left = filled
  BY <1>1, <1>5, <1>6
<1> HIDE DEF left
<1>8. Drawn(b, time) = [tokens |-> left, last |-> time]
  <2>1. Drawn(b, time) = [Refilled(b, time) EXCEPT !.tokens = left]
    BY <1>4, <1>7 DEF Drawn
  <2>2. [[tokens |-> filled, last |-> time] EXCEPT !.tokens = left]
          = [tokens |-> left, last |-> time]
    OBVIOUS
  <2> QED BY <1>4, <2>1, <2>2, Zenon
<1>9. Drawn(b, time) \in [tokens : 0..Capacity, last : Nat]
      /\ Drawn(b, time).last = time /\ Drawn(b, time).tokens = left
  BY <1>7, <1>8
<1>10. left + (IF Allows(b, time) THEN 1 ELSE 0) = filled
  BY <1>6, <1>7
<1>11. filled <= b.tokens + Refill * Elapsed(b.last, time)
  BY <1>5 DEF gain
<1>12. Drawn(b, time).tokens + (IF Allows(b, time) THEN 1 ELSE 0) = filled
  BY <1>9, <1>10
<1> QED BY <1>5, <1>9, <1>11, <1>12

-----------------------------------------------------------------------------
(* Types                                                                   *)

LEMMA ClockNat == TypeOK => Clock \subseteq Nat
BY OutboundAssumption DEF TypeOK, Clock

LEMMA ConsumeTypes ==
  ASSUME TypeOK, NEW b \in Bucket, NEW time \in Nat, Consume(b, time)
  PROVE  /\ bucket' \in [Bucket -> [tokens : 0..Capacity, last : Nat, until : Nat]]
         /\ granted' \in [Bucket -> Nat] /\ drift' \in [Bucket -> Nat]
<1> DEFINE after == Drawn(Stored(b, time), time)
           new == [tokens |-> after.tokens, last |-> after.last, until |-> now + Ttl]
<1>1. Stored(b, time) \in [tokens : 0..Capacity, last : Nat]
  BY BucketAssumption DEF Stored, Full, TypeOK
<1>2. after \in [tokens : 0..Capacity, last : Nat]
  BY <1>1, DrawnBucket
<1>3. now + Ttl \in Nat
  BY BucketAssumption, OutboundAssumption DEF TypeOK
<1>4. bucket' = [bucket EXCEPT ![b] = new]
  BY DEF Consume
<1> HIDE DEF after
<1>5. new \in [tokens : 0..Capacity, last : Nat, until : Nat]
  BY <1>2, <1>3
<1>6. granted' = [granted EXCEPT ![b] = @ + 1] \/ granted' = granted
  BY DEF Consume, TypeOK
<1>7. now \in Nat
  BY OutboundAssumption DEF TypeOK
<1>8. Apart(now, time) \in Nat
  BY <1>7 DEF Apart
<1>9. drift' \in [Bucket -> Nat]
  BY <1>8 DEF Consume, TypeOK
<1> HIDE DEF new
<1>10. bucket' \in [Bucket -> [tokens : 0..Capacity, last : Nat, until : Nat]]
  BY <1>4, <1>5 DEF TypeOK
<1>11. granted' \in [Bucket -> Nat]
  <2>1. granted \in [Bucket -> Nat]
    BY DEF TypeOK
  <2> QED BY <1>6, <2>1
<1> QED BY <1>9, <1>10, <1>11

LEMMA ChannelIsBucket ==
  ASSUME NEW t \in Task
  PROVE  ChannelOf(t) \in Bucket
BY OutboundAssumption DEF ChannelOf, Bucket

\* What becomes of a task that has asked for the budget.
LEMMA BudgetAsked ==
  ASSUME NEW t \in Task, AskBudget(t)
  PROVE  /\ \/ job' = [job EXCEPT ![t] = "allowed"]
            \/ job' = [job EXCEPT ![t] = "queued"]
            \/ job' = [job EXCEPT ![t] = "raised"]
         /\ \/ retries' = retries
            \/ retries[t] < MaxRetries /\ retries' = [retries EXCEPT ![t] = @ + 1]
<1>1. \/ job' = [job EXCEPT ![t] = "allowed"] /\ UNCHANGED retries
      \/ Retried(t)
  BY DEF AskBudget
<1>2. CASE job' = [job EXCEPT ![t] = "allowed"] /\ UNCHANGED retries
  BY <1>2, Zenon
<1>3. CASE Retried(t) /\ retries[t] < MaxRetries
  BY <1>3, Zenon DEF Retried
<1>4. CASE Retried(t) /\ ~(retries[t] < MaxRetries)
  BY <1>4, Zenon DEF Retried
<1> QED BY <1>1, <1>2, <1>3, <1>4

LEMMA TypeStep == TypeOK /\ [Next]_vars => TypeOK'
<1> SUFFICES ASSUME TypeOK, [Next]_vars PROVE TypeOK'
  OBVIOUS
<1>1. CASE UNCHANGED vars
  BY <1>1 DEF vars, TypeOK
<1>2. CASE Tick
  BY <1>2, OutboundAssumption DEF Tick, TypeOK
<1>3. ASSUME NEW s \in Scope, LimitRequest(s) PROVE TypeOK'
  <2>1. PICK time \in 0..(now + Skew) : Consume(s, time)
    BY <1>3 DEF LimitRequest
  <2>2. s \in Bucket /\ time \in Nat
    BY DEF Bucket
  <2> QED BY <1>3, <2>1, <2>2, ConsumeTypes DEF LimitRequest, TypeOK
<1>4. ASSUME NEW t \in Task, NEW k \in Kind, Enqueue(t, k) PROVE TypeOK'
  BY <1>4 DEF Enqueue, TypeOK, JobState, Ended
<1>5. ASSUME NEW t \in Task, NEW k, CreateMessage(t, k) PROVE TypeOK'
  <2>1. rows' \in [Task -> Seq({"PENDING", "SENT", "FAILED"})]
    <3>1. Append(rows[t], "PENDING") \in Seq({"PENDING", "SENT", "FAILED"})
      BY DEF TypeOK
    <3> QED BY <1>5, <3>1 DEF CreateMessage, TypeOK
  <2> QED BY <1>5, <2>1 DEF CreateMessage, TypeOK, JobState, Ended
<1>6. ASSUME NEW t \in Task, AskBudget(t) PROVE TypeOK'
  <2>1. Consume(ChannelOf(t), clock[t])
    BY <1>6 DEF AskBudget
  <2>2. clock[t] \in Nat
    BY DEF TypeOK
  <2>3. /\ bucket' \in [Bucket -> [tokens : 0..Capacity, last : Nat, until : Nat]]
        /\ granted' \in [Bucket -> Nat] /\ drift' \in [Bucket -> Nat]
    BY <2>1, <2>2, ChannelIsBucket, ConsumeTypes
  <2>4. job' \in [Task -> JobState] /\ retries' \in [Task -> 0..MaxRetries]
    <3>1. retries[t] \in 0..MaxRetries /\ MaxRetries \in Nat
      BY OutboundAssumption DEF TypeOK
    <3>2. retries' \in [Task -> 0..MaxRetries]
      <4>1. retries \in [Task -> 0..MaxRetries]
        BY DEF TypeOK
      <4>2. \/ retries' = retries
            \/ retries[t] < MaxRetries /\ retries' = [retries EXCEPT ![t] = @ + 1]
        BY <1>6, BudgetAsked
      <4> QED BY <3>1, <4>1, <4>2
    <3>3. job' \in [Task -> JobState]
      BY <1>6, BudgetAsked DEF TypeOK, JobState, Ended
    <3> QED BY <3>2, <3>3
  <2>5. UNCHANGED <<now, kind, rows, delivered, faults>> /\ clock' \in [Task -> Nat]
    BY <1>6 DEF AskBudget, TypeOK
  <2> QED BY <2>3, <2>4, <2>5 DEF TypeOK
<1>7. ASSUME NEW t \in Task, BudgetFailsOpen(t) \/ Crash(t) PROVE TypeOK'
  <2>1. faults' \in 0..MaxFaults
    <3>1. MaxFaults \in Nat
      BY OutboundAssumption
    <3> QED BY <1>7, <3>1 DEF BudgetFailsOpen, Crash, TypeOK
  <2>2. job' \in [Task -> JobState]
    BY <1>7 DEF BudgetFailsOpen, Crash, TypeOK, JobState, Ended
  <2>3. clock' = [clock EXCEPT ![t] = 0] /\ UNCHANGED <<now, kind, retries, rows, delivered>>
    BY <1>7 DEF BudgetFailsOpen, Crash
  <2>4. /\ bucket' \in [Bucket -> [tokens : 0..Capacity, last : Nat, until : Nat]]
        /\ granted' \in [Bucket -> Nat] /\ drift' \in [Bucket -> Nat]
    <3>1. CASE UNCHANGED <<bucket, granted, drift>>
      BY <3>1 DEF TypeOK
    <3>2. CASE Consume(ChannelOf(t), clock[t])
      <4>1. clock[t] \in Nat
        BY DEF TypeOK
      <4> QED BY <3>2, <4>1, ChannelIsBucket, ConsumeTypes
    <3> QED BY <1>7, <3>1, <3>2 DEF BudgetFailsOpen, Crash
  <2>5. clock' \in [Task -> Nat]
    BY <2>3 DEF TypeOK
  <2> QED BY <2>1, <2>2, <2>3, <2>4, <2>5 DEF TypeOK
<1>8. ASSUME NEW t \in Task, ProviderAccepts(t) \/ ProviderRaises(t) PROVE TypeOK'
  <2>1. PICK n \in {0, 1} : delivered' = [delivered EXCEPT ![t] = @ + n]
    BY <1>8 DEF ProviderAccepts, ProviderRaises
  <2>2. delivered' \in [Task -> Nat]
    BY <2>1 DEF TypeOK
  <2>3. job' \in [Task -> JobState]
    BY <1>8 DEF ProviderAccepts, ProviderRaises, TypeOK, JobState, Ended
  <2>4. UNCHANGED <<now, bucket, granted, drift, kind, clock, retries, rows, faults>>
    BY <1>8 DEF ProviderAccepts, ProviderRaises
  <2> QED BY <2>2, <2>3, <2>4 DEF TypeOK
<1>9. ASSUME NEW t \in Task, SaveOutcome(t) PROVE TypeOK'
  <2> DEFINE outcome == IF job[t] = "sent" THEN "SENT" ELSE "FAILED"
  <2>1. outcome \in {"SENT", "FAILED"}
    OBVIOUS
  <2>2. rows' = [rows EXCEPT ![t] = [@ EXCEPT ![Len(rows[t])] = outcome]]
    BY <1>9 DEF SaveOutcome
  <2> HIDE DEF outcome
  <2>3. [rows[t] EXCEPT ![Len(rows[t])] = outcome] \in Seq({"PENDING", "SENT", "FAILED"})
    <3> DEFINE S == {"PENDING", "SENT", "FAILED"}
    <3>1. rows[t] \in Seq(S) /\ outcome \in S
      BY <2>1 DEF TypeOK
    <3>2. CASE Len(rows[t]) \in 1..Len(rows[t])
      BY <3>1, <3>2, ExceptSeq
    <3>3. CASE Len(rows[t]) \notin 1..Len(rows[t])
      <4>1. [rows[t] EXCEPT ![Len(rows[t])] = outcome] = rows[t]
        BY <3>1, <3>3
      <4> QED BY <3>1, <4>1
    <3> QED BY <3>2, <3>3
  <2> QED BY <1>9, <2>2, <2>3 DEF SaveOutcome, TypeOK, JobState, Ended
<1>10. ASSUME NEW t \in Task, TaskRaises(t) \/ ReadClock(t) PROVE TypeOK'
  <2>1. clock' \in [Task -> Nat]
    BY <1>10, ClockNat DEF TaskRaises, ReadClock, TypeOK
  <2> QED BY <1>10, <2>1 DEF TaskRaises, ReadClock, TypeOK, JobState, Ended
<1> QED
  BY <1>1, <1>2, <1>3, <1>4, <1>5, <1>6, <1>7, <1>8, <1>9, <1>10
  DEF Next, RunTask, SubmittedSms, AcceptanceSms, AcceptanceEmail, ReceiptEmail

LEMMA TypeInit == Init => TypeOK
<1> SUFFICES ASSUME Init PROVE TypeOK
  OBVIOUS
<1>1. NoKey \in [tokens : 0..Capacity, last : Nat, until : Nat]
  BY BucketAssumption DEF NoKey
<1>2. 0 \in 0..MaxTime /\ 0 \in 0..MaxRetries /\ 0 \in 0..MaxFaults
  BY OutboundAssumption
<1> QED BY <1>1, <1>2 DEF Init, TypeOK, Kind, JobState, Ended

\* The clock, buckets, tasks and message rows always hold what the code writes.
THEOREM OutboundTypeCorrect == Spec => []TypeOK
BY TypeInit, TypeStep, PTL DEF Spec

-----------------------------------------------------------------------------
(* The budget                                                              *)

\* The moment of a bucket's last use, and the time its hash holds unless that is
\* later.
UsedAt(b) == bucket[b].until - Ttl
UsedBy(b) == Lesser(bucket[b].last, UsedAt(b))

\* What a bucket has granted and still holds was there at first, or gained up to
\* its last use, or counted twice by callers that were late or ahead; and a
\* bucket that Redis drops would have been full.
BucketInv ==
  \A b \in Bucket :
    \/ granted[b] = 0 /\ bucket[b].until = 0
    \/ /\ UsedAt(b) \in 0..now
       /\ granted[b] + bucket[b].tokens <= Capacity + Refill * (UsedBy(b) + drift[b])

\* Callers drift apart by what they read later or earlier than now.
LEMMA DriftPays ==
  ASSUME NEW n \in Nat, NEW used \in 0..n, NEW last \in Nat, NEW time \in Nat, NEW d \in Nat
  PROVE  /\ Lesser(time, n) + (d + Apart(n, time)) \in Nat
         /\ n + d <= Lesser(time, n) + (d + Apart(n, time))
         /\ Lesser(last, used) + d + Elapsed(last, time)
              <= Lesser(time, n) + (d + Apart(n, time))
BY DEF Lesser, Apart, Elapsed

LEMMA ConsumeKeepsBudget ==
  ASSUME TypeOK, BucketInv, NEW b \in Bucket, NEW time \in Nat, Consume(b, time),
         now' = now
  PROVE  BucketInv'
<1> DEFINE stored == Stored(b, time)
           after == Drawn(stored, time)
           old == bucket[b]
           grant == IF Allows(stored, time) THEN 1 ELSE 0
           limit == Lesser(time, now) + (drift[b] + Apart(now, time))
<1>1. /\ Capacity \in Nat /\ Refill \in Nat /\ Ttl \in Nat /\ now \in Nat
      /\ Ttl * Refill >= Capacity /\ grant \in {0, 1}
  BY BucketAssumption, OutboundAssumption DEF TypeOK
<1>2. /\ old \in [tokens : 0..Capacity, last : Nat, until : Nat]
      /\ granted[b] \in Nat /\ drift[b] \in Nat
  BY DEF TypeOK
<1>3. stored \in [tokens : 0..Capacity, last : Nat]
  BY <1>1, <1>2 DEF Stored, Full
<1>4. /\ after.tokens \in Nat /\ after.last = time
      /\ after.tokens + grant <= stored.tokens + Refill * Elapsed(stored.last, time)
      /\ after.tokens + grant <= Capacity
  BY <1>1, <1>3, DrawnBucket
<1>5. limit \in Nat /\ Refill * limit \in Nat
  <2>1. 0 \in 0..now
    BY <1>1
  <2>2. limit \in Nat
    BY <1>1, <1>2, <2>1, DriftPays
  <2> HIDE DEF limit
  <2> QED BY <1>1, <2>2
<1>6. granted[b] + after.tokens + grant <= Capacity + Refill * limit
  <2>1. CASE granted[b] = 0
    <3> HIDE DEF after, grant, stored, limit
    <3> QED BY <1>1, <1>4, <1>5, <2>1
  <2>2. CASE /\ UsedAt(b) \in 0..now
             /\ granted[b] + old.tokens <= Capacity + Refill * (UsedBy(b) + drift[b])
    <3> DEFINE before == UsedBy(b) + drift[b]
    <3>1. UsedBy(b) \in Nat /\ before \in Nat
      BY <1>2, <2>2 DEF UsedBy, Lesser
    <3>2. CASE now < old.until
      <4> DEFINE gone == Elapsed(old.last, time)
      <4>1. stored = [tokens |-> old.tokens, last |-> old.last]
        BY <1>1, <1>2, <3>2 DEF Stored
      <4>2. after.tokens + grant <= old.tokens + Refill * gone
        BY <1>4, <4>1
      <4>3. gone \in Nat /\ before + gone <= limit
        <5>1. gone \in Nat
          BY <1>2 DEF Elapsed
        <5> QED BY <1>1, <1>2, <2>2, <5>1, DriftPays DEF UsedBy
      <4> HIDE DEF gone, before, limit, after, grant, stored
      <4>4. Refill * before + Refill * gone <= Refill * limit
        <5>1. Refill * (before + gone) <= Refill * limit
          BY <1>1, <1>5, <3>1, <4>3, Refills
        <5> QED BY <1>1, <3>1, <4>3, <5>1
      <4>5. Refill * before \in Nat /\ Refill * gone \in Nat
        BY <1>1, <3>1, <4>3
      <4>6. granted[b] + old.tokens <= Capacity + Refill * before
        BY <2>2 DEF before
      <4> QED BY <1>1, <1>2, <1>4, <1>5, <4>2, <4>4, <4>5, <4>6
    <3>3. CASE now >= old.until
      <4>1. Ttl + before <= limit
        <5>1. Ttl + before <= now + drift[b]
          BY <1>1, <1>2, <2>2, <3>3 DEF UsedBy, UsedAt, Lesser
        <5>2. now + drift[b] <= limit
          BY <1>1, <1>2, <2>2, DriftPays
        <5> HIDE DEF limit, before
        <5> QED BY <1>1, <1>2, <1>5, <3>1, <5>1, <5>2
      <4>2. granted[b] + old.tokens <= Capacity + Refill * before
        BY <2>2
      <4> HIDE DEF before, limit, after, grant, stored
      <4>3. Ttl * Refill + Refill * before <= Refill * limit
        <5>1. Refill * (Ttl + before) <= Refill * limit
          BY <1>1, <1>5, <3>1, <4>1, Refills
        <5> QED BY <1>1, <3>1, <5>1
      <4>4. Refill * before \in Nat /\ Ttl * Refill \in Nat
        BY <1>1, <3>1
      <4> QED BY <1>1, <1>2, <1>4, <1>5, <4>2, <4>3, <4>4
    <3> QED BY <1>1, <1>2, <3>2, <3>3
  <2> QED BY <2>1, <2>2 DEF BucketInv
<1>7. /\ bucket' = [bucket EXCEPT ![b] = [tokens |-> after.tokens, last |-> after.last,
                                          until |-> now + Ttl]]
      /\ drift' = [drift EXCEPT ![b] = @ + Apart(now, time)]
  BY DEF Consume
<1>8. granted'[b] = granted[b] + grant /\ \A a \in Bucket : a # b => granted'[a] = granted[a]
  BY DEF Consume, TypeOK
<1>9. drift'[b] = drift[b] + Apart(now, time)
  BY <1>7 DEF TypeOK
<1>10. limit = Lesser(time, now) + drift'[b]
  BY <1>9
<1> HIDE DEF after, grant, stored, limit
<1>11. /\ bucket'[b].tokens = after.tokens /\ bucket'[b].last = time
       /\ bucket'[b].until = now + Ttl
       /\ \A a \in Bucket : a # b => bucket'[a] = bucket[a] /\ drift'[a] = drift[a]
  BY <1>4, <1>7 DEF TypeOK
<1> SUFFICES ASSUME NEW a \in Bucket
             PROVE  \/ granted'[a] = 0 /\ bucket'[a].until = 0
                    \/ /\ UsedAt(a)' \in 0..now'
                       /\ granted'[a] + bucket'[a].tokens
                            <= Capacity + Refill * (UsedBy(a)' + drift'[a])
  BY DEF BucketInv
<1>12. CASE a = b
  <2>1. UsedAt(b)' = now
    BY <1>1, <1>11 DEF UsedAt
  <2>2. UsedBy(b)' = Lesser(time, now)
    BY <1>11, <2>1 DEF UsedBy
  <2>3. granted'[b] + bucket'[b].tokens = granted[b] + after.tokens + grant
    BY <1>1, <1>2, <1>4, <1>8, <1>11
  <2>4. granted'[b] + bucket'[b].tokens <= Capacity + Refill * (UsedBy(b)' + drift'[b])
    BY <1>6, <1>10, <2>2, <2>3
  <2>5. UsedAt(b)' \in 0..now'
    BY <1>1, <2>1
  <2> QED BY <1>12, <2>4, <2>5
<1>13. CASE a # b
  BY <1>8, <1>11, <1>13 DEF BucketInv, UsedBy, UsedAt
<1> QED BY <1>12, <1>13

LEMMA BucketStep == TypeOK /\ BucketInv /\ [Next]_vars => BucketInv'
<1> SUFFICES ASSUME TypeOK, BucketInv, [Next]_vars PROVE BucketInv'
  OBVIOUS
<1>1. ASSUME UNCHANGED <<bucket, granted, drift>>, now' = now \/ now' = now + 1
      PROVE  BucketInv'
  BY <1>1, OutboundAssumption DEF BucketInv, UsedBy, UsedAt, TypeOK
<1>2. ASSUME NEW s \in Scope, LimitRequest(s) PROVE BucketInv'
  <2>1. PICK time \in 0..(now + Skew) : Consume(s, time)
    BY <1>2 DEF LimitRequest
  <2> QED BY <1>2, <2>1, ConsumeKeepsBudget DEF LimitRequest, Bucket
<1>3. ASSUME NEW t \in Task, Consume(ChannelOf(t), clock[t]), now' = now PROVE BucketInv'
  <2>1. clock[t] \in Nat
    BY DEF TypeOK
  <2> QED BY <1>3, <2>1, ChannelIsBucket, ConsumeKeepsBudget
<1>4. ASSUME NEW t \in Task, AskBudget(t) \/ BudgetFailsOpen(t) PROVE BucketInv'
  BY <1>1, <1>3, <1>4 DEF AskBudget, BudgetFailsOpen
<1>5. CASE UNCHANGED vars
  BY <1>1, <1>5 DEF vars
<1>6. CASE Tick
  BY <1>1, <1>6 DEF Tick
<1>7. ASSUME NEW t \in Task,
             \/ \E k \in Kind : Enqueue(t, k) \/ CreateMessage(t, k)
             \/ TaskRaises(t) \/ ReadClock(t)
             \/ ProviderAccepts(t) \/ ProviderRaises(t) \/ SaveOutcome(t) \/ Crash(t)
      PROVE  BucketInv'
  BY <1>1, <1>7
  DEF Enqueue, CreateMessage, TaskRaises, ReadClock, ProviderAccepts, ProviderRaises,
      SaveOutcome, Crash
<1> QED
  BY <1>2, <1>4, <1>5, <1>6, <1>7
  DEF Next, RunTask, Kind, SubmittedSms, AcceptanceSms, AcceptanceEmail, ReceiptEmail

\* However many callers draw at once, in whatever order they reach Redis, and
\* although Redis drops idle buckets: no more is granted than a full bucket, what
\* it gains, and what late and early readings of the clock let it gain twice.
THEOREM BudgetIsKept == Spec => []WithinBudget
<1>1. Init => BucketInv
  BY DEF Init, NoKey, BucketInv
<1>2. TypeOK /\ BucketInv => WithinBudget
  <2> SUFFICES ASSUME TypeOK, BucketInv, NEW b \in Bucket
               PROVE  granted[b] <= Capacity + Refill * (now + drift[b])
    BY DEF WithinBudget
  <2>1. /\ bucket[b].last \in Nat /\ bucket[b].tokens \in Nat /\ granted[b] \in Nat
        /\ now \in Nat /\ drift[b] \in Nat
    BY OutboundAssumption DEF TypeOK
  <2>2. Capacity \in Nat /\ Refill \in Nat /\ Refill * (now + drift[b]) \in Nat
    BY <2>1, BucketAssumption
  <2>3. CASE granted[b] = 0
    BY <2>2, <2>3
  <2>4. CASE /\ UsedAt(b) \in 0..now
             /\ granted[b] + bucket[b].tokens <= Capacity + Refill * (UsedBy(b) + drift[b])
    <3>1. UsedBy(b) + drift[b] \in Nat /\ UsedBy(b) + drift[b] <= now + drift[b]
      BY <2>1, <2>4 DEF UsedBy, Lesser
    <3>2. /\ Refill * (UsedBy(b) + drift[b]) <= Refill * (now + drift[b])
          /\ Refill * (UsedBy(b) + drift[b]) \in Nat
      BY <2>1, <2>2, <3>1, Refills
    <3> QED BY <2>1, <2>2, <2>4, <3>2
  <2> QED BY <2>3, <2>4 DEF BucketInv
<1> QED BY <1>1, <1>2, BucketStep, OutboundTypeCorrect, PTL DEF Spec

-----------------------------------------------------------------------------
(* Deliveries and their rows                                               *)

BeforeProvider == {"none", "queued", "created", "asking", "allowed"}

\* A task is put back only before it has called the provider.
DeliveryInv ==
  \A t \in Task : /\ job[t] \in BeforeProvider => delivered[t] = 0
                  /\ delivered[t] <= 1
                  /\ job[t] = "sent" => delivered[t] = 1

\* A row is SENT only at the end of the last run, and it is the last row.
RowInv ==
  \A t \in Task :
    /\ job[t] \in {"created", "asking", "allowed", "sent", "failed"} => rows[t] # <<>>
    /\ \A i \in 1..Len(rows[t]) : rows[t][i] = "SENT" =>
         job[t] = "done" /\ i = Len(rows[t]) /\ delivered[t] = 1

MessageInv == DeliveryInv /\ RowInv

\* The steps that leave the rows alone.
LEMMA RowsKept ==
  ASSUME TypeOK, TypeOK', DeliveryInv', RowInv, NEW t \in Task, NEW state \in JobState,
         job' = [job EXCEPT ![t] = state], UNCHANGED rows,
         \A u \in Task : u # t => delivered'[u] = delivered[u],
         job[t] # "done",
         state \in {"asking", "allowed", "sent", "failed"} =>
           job[t] \in {"created", "asking", "allowed", "sent", "failed"},
         state # "created"
  PROVE  RowInv'
BY DEF TypeOK, RowInv

LEMMA MessageStep == TypeOK /\ TypeOK' /\ MessageInv /\ [Next]_vars => MessageInv'
<1> SUFFICES ASSUME TypeOK, TypeOK', DeliveryInv, RowInv, [Next]_vars PROVE MessageInv'
  BY DEF MessageInv
<1>1. ASSUME UNCHANGED <<job, rows, delivered>> PROVE MessageInv'
  BY <1>1 DEF MessageInv, DeliveryInv, RowInv
<1>2. CASE UNCHANGED vars \/ Tick \/ \E s \in Scope : LimitRequest(s)
  BY <1>1, <1>2 DEF vars, Tick, LimitRequest
<1>3. ASSUME NEW t \in Task, NEW k \in Kind, Enqueue(t, k) PROVE MessageInv'
  <2>1. DeliveryInv'
    BY <1>3 DEF Enqueue, TypeOK, DeliveryInv, BeforeProvider
  <2> QED BY <1>3, <2>1, RowsKept DEF Enqueue, JobState, Ended, MessageInv
<1>4. ASSUME NEW t \in Task, NEW k \in Kind, CreateMessage(t, k) PROVE MessageInv'
  <2>1. DeliveryInv'
    BY <1>4 DEF CreateMessage, TypeOK, DeliveryInv, BeforeProvider
  <2>2. /\ job[t] = "queued" /\ job' = [job EXCEPT ![t] = "created"]
        /\ rows' = [rows EXCEPT ![t] = Append(@, "PENDING")] /\ UNCHANGED delivered
    BY <1>4 DEF CreateMessage
  <2>3. rows[t] \in Seq({"PENDING", "SENT", "FAILED"})
    BY DEF TypeOK
  <2>4. /\ rows'[t] # <<>>
        /\ \A i \in 1..Len(rows'[t]) : rows'[t][i] # "SENT"
    <3> DEFINE more == Append(rows[t], "PENDING")
    <3>1. rows'[t] = more
      BY <2>2 DEF TypeOK
    <3>2. /\ more # <<>> /\ Len(more) = Len(rows[t]) + 1 /\ Len(rows[t]) \in Nat
          /\ \A i \in 1..Len(rows[t]) : more[i] = rows[t][i]
          /\ more[Len(rows[t]) + 1] = "PENDING"
      BY <2>3, AppendProperties
    <3>3. \A i \in 1..Len(rows[t]) : rows[t][i] # "SENT"
      BY <2>2 DEF RowInv
    <3> HIDE DEF more
    <3> QED BY <3>1, <3>2, <3>3
  <2>5. RowInv'
    BY <2>2, <2>4 DEF TypeOK, RowInv
  <2> QED BY <2>1, <2>5 DEF MessageInv
<1>5. ASSUME NEW t \in Task, AskBudget(t) PROVE MessageInv'
  <2>1. \/ job' = [job EXCEPT ![t] = "allowed"]
        \/ job' = [job EXCEPT ![t] = "queued"]
        \/ job' = [job EXCEPT ![t] = "raised"]
    BY <1>5, BudgetAsked
  <2>2. job[t] = "asking" /\ UNCHANGED <<rows, delivered>>
    BY <1>5 DEF AskBudget
  <2>3. DeliveryInv'
    BY <2>1, <2>2 DEF TypeOK, DeliveryInv, BeforeProvider
  <2>4. ASSUME NEW state \in {"allowed", "queued", "raised"},
               job' = [job EXCEPT ![t] = state]
        PROVE  RowInv'
    BY <2>2, <2>3, <2>4, RowsKept DEF JobState, Ended
  <2> QED BY <2>1, <2>3, <2>4 DEF MessageInv
<1>6. ASSUME NEW t \in Task, BudgetFailsOpen(t) \/ Crash(t) PROVE MessageInv'
  <2>1. PICK state \in {"allowed", "lost"} : /\ job' = [job EXCEPT ![t] = state]
                                             /\ state = "allowed" => job[t] = "asking"
    BY <1>6 DEF BudgetFailsOpen, Crash
  <2>2. job[t] \in {"created", "asking", "allowed", "sent", "failed"} /\ UNCHANGED <<rows, delivered>>
    BY <1>6 DEF BudgetFailsOpen, Crash
  <2>3. DeliveryInv'
    BY <2>1, <2>2 DEF TypeOK, DeliveryInv, BeforeProvider
  <2> QED BY <2>1, <2>2, <2>3, RowsKept DEF JobState, Ended, MessageInv
<1>7. ASSUME NEW t \in Task, ProviderAccepts(t) \/ ProviderRaises(t) PROVE MessageInv'
  <2>1. PICK state \in {"sent", "failed"}, n \in {0, 1} :
          /\ job' = [job EXCEPT ![t] = state]
          /\ delivered' = [delivered EXCEPT ![t] = @ + n]
          /\ state = "sent" => n = 1
    BY <1>7 DEF ProviderAccepts, ProviderRaises
  <2>2. job[t] = "allowed" /\ UNCHANGED rows
    BY <1>7 DEF ProviderAccepts, ProviderRaises
  <2>3. DeliveryInv'
    BY <2>1, <2>2 DEF TypeOK, DeliveryInv, BeforeProvider
  <2> QED BY <2>1, <2>2, <2>3, RowsKept DEF JobState, Ended, MessageInv, TypeOK
<1>8. ASSUME NEW t \in Task, SaveOutcome(t) PROVE MessageInv'
  <2>1. /\ job[t] \in {"sent", "failed"} /\ job' = [job EXCEPT ![t] = "done"]
        /\ UNCHANGED delivered
    BY <1>8 DEF SaveOutcome
  <2>2. DeliveryInv'
    BY <2>1 DEF TypeOK, DeliveryInv, BeforeProvider
  <2> DEFINE outcome == IF job[t] = "sent" THEN "SENT" ELSE "FAILED"
             S == {"PENDING", "SENT", "FAILED"}
             saved == [rows[t] EXCEPT ![Len(rows[t])] = outcome]
  <2>3. rows' = [rows EXCEPT ![t] = saved]
    BY <1>8 DEF SaveOutcome
  <2>4. /\ rows[t] \in Seq(S) /\ rows[t] # <<>> /\ outcome \in S
        /\ outcome = "SENT" => delivered[t] = 1
    BY <2>1 DEF TypeOK, RowInv, DeliveryInv
  <2>5. Len(rows[t]) \in 1..Len(rows[t])
    BY <2>4, EmptySeq
  <2>6. /\ Len(saved) = Len(rows[t])
        /\ \A j \in 1..Len(rows[t]) :
             saved[j] = IF j = Len(rows[t]) THEN outcome ELSE rows[t][j]
    <3> HIDE DEF outcome
    <3> QED BY <2>4, <2>5, ExceptSeq
  <2> HIDE DEF outcome, saved
  <2>7. RowInv'
    <3>1. \A u \in Task : u # t => rows'[u] = rows[u] /\ job'[u] = job[u]
      BY <2>1, <2>3 DEF TypeOK
    <3>2. rows'[t] = saved /\ job'[t] = "done"
      BY <2>1, <2>3 DEF TypeOK
    <3>3. \A i \in 1..Len(saved) : saved[i] = "SENT" =>
            i = Len(saved) /\ delivered'[t] = 1
      BY <2>1, <2>4, <2>6 DEF RowInv
    <3> QED BY <2>1, <3>1, <3>2, <3>3 DEF RowInv
  <2> QED BY <2>2, <2>7 DEF MessageInv
<1>9. ASSUME NEW t \in Task, TaskRaises(t) \/ ReadClock(t) PROVE MessageInv'
  <2>1. PICK state \in {"raised", "asking"} :
          /\ job' = [job EXCEPT ![t] = state]
          /\ job[t] \in {"queued", "created"}
          /\ state = "asking" => job[t] = "created"
          /\ UNCHANGED <<rows, delivered>>
    BY <1>9 DEF TaskRaises, ReadClock
  <2>2. DeliveryInv'
    BY <2>1 DEF TypeOK, DeliveryInv, BeforeProvider
  <2> QED BY <2>1, <2>2, RowsKept DEF JobState, Ended, MessageInv
<1> QED
  BY <1>2, <1>3, <1>4, <1>5, <1>6, <1>7, <1>8, <1>9
  DEF Next, RunTask, Kind, SubmittedSms, AcceptanceSms, AcceptanceEmail, ReceiptEmail

LEMMA MessageAlways == Spec => []MessageInv
<1>1. Init => MessageInv
  <2> SUFFICES ASSUME Init PROVE MessageInv
    OBVIOUS
  <2>1. \A t \in Task : job[t] = "none" /\ delivered[t] = 0 /\ rows[t] = <<>>
    BY DEF Init
  <2> QED BY <2>1 DEF MessageInv, DeliveryInv, RowInv, BeforeProvider
<1> QED BY <1>1, MessageStep, OutboundTypeCorrect, PTL DEF Spec

\* Whatever is retried, the provider gets the message of a task at most once.
THEOREM DeliveredOnce == Spec => []DeliveredAtMostOnce
<1>1. MessageInv => DeliveredAtMostOnce
  BY DEF MessageInv, DeliveryInv, DeliveredAtMostOnce
<1> QED BY <1>1, MessageAlways, PTL

\* At most the last row of a task is SENT, and then the provider has the message.
THEOREM RowsTellTheTruth == Spec => []SentWasDelivered
<1>1. TypeOK /\ MessageInv => SentWasDelivered
  <2> SUFFICES ASSUME TypeOK, MessageInv, NEW t \in Task, NEW i \in DOMAIN rows[t],
                      rows[t][i] = "SENT"
               PROVE  i = Len(rows[t]) /\ delivered[t] = 1
    BY DEF SentWasDelivered
  <2>1. rows[t] \in Seq({"PENDING", "SENT", "FAILED"})
    BY DEF TypeOK
  <2>2. i \in 1..Len(rows[t])
    BY <2>1
  <2> QED BY <2>2 DEF MessageInv, RowInv
<1> QED BY <1>1, MessageAlways, OutboundTypeCorrect, PTL
=============================================================================
