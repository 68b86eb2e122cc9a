---------------------------- MODULE AccountsProofs ----------------------------
(***************************************************************************)
(* Proofs about Accounts, for any pages, tasks, e-mails and accounts: one  *)
(* account per e-mail, sessions of the page's own account, and the         *)
(* refinement of Lease by the mutex of redis_client.                       *)
(***************************************************************************)
EXTENDS Accounts, TLAPS

\* A running task has an e-mail, and a token only between the lock's two ends.
TaskOK ==
  \A t \in TaskId : /\ task[t].pc \in Running => task[t].email \in Email
                    /\ task[t].token => task[t].pc \in {"checking", "saving", "releasing"}

\* A page that polls or exchanges awaits a task of the e-mail typed last.
AwaitIsOwn ==
  \A p \in Page :
    /\ form[p] \in {"polling", "finalizing"} => awaits[p] # None
    /\ awaits[p] # None => /\ form[p] \in {"polling", "finalizing"}
                           /\ task[awaits[p]].email = typed[p]

\* The account a task has found or made is one of its e-mail.
ResultIsOwn == \A t \in TaskId : task[t].user # None =>
                 users[task[t].user] # None /\ users[task[t].user].email = task[t].email

TaskInv == TypeOK /\ TaskOK

AccountInv == TaskInv /\ AwaitIsOwn /\ OneAccountPerEmail /\ SessionIsOwn /\ ResultIsOwn

-----------------------------------------------------------------------------
(* What every step is made of                                              *)

FirstStep == {"waiting", "login"}

\* The task of a submission is new, and nobody else awaits it.
Started(p, e, t, pc) ==
  /\ task' \in [TaskId -> Task]
  /\ task'[t].pc = pc /\ task'[t].email = e
  /\ task'[t].token = FALSE /\ task'[t].user = None
  /\ \A s \in TaskId : s # t => task'[s] = task[s]
  /\ typed' = [typed EXCEPT ![p] = e]
  /\ task[t].token = FALSE
  /\ \A q \in Page : awaits[q] # t

LEMMA DelayStep ==
  ASSUME TaskInv, NEW p \in Page, NEW e \in Email, NEW t \in TaskId,
         NEW pc \in FirstStep, Delay(p, e, t, pc)
  PROVE  Started(p, e, t, pc)
<1> DEFINE next == [NoTask EXCEPT !.pc = pc, !.email = e]
<1>1. /\ next \in Task /\ next.pc = pc /\ next.email = e
      /\ next.token = FALSE /\ next.user = None
  BY DEF NoTask, Task, Running, FirstStep
<1>2. task' = [task EXCEPT ![t] = next]
  BY DEF Delay
<1> HIDE DEF next
<1>3. task[t].token = FALSE
  <2>1. task[t].pc \notin {"checking", "saving", "releasing"}
    BY DEF Delay, Unused, Running
  <2> QED BY <2>1 DEF TaskInv, TaskOK, TypeOK, Task
<1> QED BY <1>1, <1>2, <1>3 DEF Started, Delay, Unused, TaskInv, TypeOK

\* A step of a task is one of three: it goes on with the same result, it ends
\* without one, or it has found or made an account.
TaskGoes(t, next) ==
  /\ next \in Task
  /\ task' = [task EXCEPT ![t] = next]
  /\ next.email = task[t].email
  /\ next.pc \in Running => task[t].pc \in Running
  /\ next.token => next.pc \in {"checking", "saving", "releasing"}
  /\ UNCHANGED <<form, typed, awaits, session>>

LEMMA TaskGoesTypes ==
  ASSUME TaskInv, NEW t \in TaskId, NEW next, TaskGoes(t, next)
  PROVE  /\ task' \in [TaskId -> Task] /\ TaskOK'
         /\ task'[t] = next
         /\ \A s \in TaskId : s # t => task'[s] = task[s]
         /\ \A s \in TaskId : task'[s].email = task[s].email
BY DEF TaskInv, TypeOK, TaskOK, TaskGoes

LEMMA AcquireGoes ==
  ASSUME TaskInv, NEW t \in TaskId, AcquireLock(t)
  PROVE  \E next : TaskGoes(t, next) /\ next.user = task[t].user /\ next.token = TRUE
<1> DEFINE next == [task[t] EXCEPT !.pc = "checking", !.token = TRUE]
<1>1. next \in Task /\ next.pc = "checking" /\ next.email = task[t].email
      /\ next.user = task[t].user /\ next.token = TRUE
  BY DEF TaskInv, TypeOK, Task, Running
<1>2. task' = [task EXCEPT ![t] = next] /\ task[t].pc = "waiting"
      /\ UNCHANGED <<form, typed, awaits, session>>
  BY DEF AcquireLock, TaskStep
<1> HIDE DEF next
<1> QED BY <1>1, <1>2 DEF TaskGoes, Running

LEMMA QuietGoes ==
  ASSUME TaskInv, NEW t \in TaskId, AcquireGivesUp(t) \/ CheckExists(t)
  PROVE  \E next : /\ TaskGoes(t, next) /\ next.user = task[t].user
                   /\ next.token = task[t].token
<1>1. PICK pc \in {"checking", "saving", "releasing"} :
        /\ task[t].pc \in Running
        /\ task' = [task EXCEPT ![t] = [task[t] EXCEPT !.pc = pc]]
        /\ UNCHANGED <<form, typed, awaits, session>>
  BY DEF AcquireGivesUp, CheckExists, TaskStep, Running
<1> DEFINE next == [task[t] EXCEPT !.pc = pc]
<1>2. next \in Task /\ next.pc = pc /\ next.email = task[t].email
      /\ next.user = task[t].user /\ next.token = task[t].token
  BY DEF TaskInv, TypeOK, Task, Running
<1>3. task' = [task EXCEPT ![t] = next]
  BY <1>1
<1> HIDE DEF next
<1> QED BY <1>1, <1>2, <1>3 DEF TaskGoes

LEMMA ReleaseGoes ==
  ASSUME TaskInv, NEW t \in TaskId, ReleaseLock(t)
  PROVE  \E next : TaskGoes(t, next) /\ next.user = task[t].user /\ next.token = FALSE
<1> DEFINE next == [task[t] EXCEPT !.pc = "ready", !.token = FALSE]
<1>1. next \in Task /\ next.pc = "ready" /\ next.email = task[t].email
      /\ next.user = task[t].user /\ next.token = FALSE
  BY DEF TaskInv, TypeOK, Task, Running
<1>2. task' = [task EXCEPT ![t] = next] /\ UNCHANGED <<form, typed, awaits, session>>
  BY DEF ReleaseLock, TaskStep
<1> HIDE DEF next
<1> QED BY <1>1, <1>2 DEF TaskGoes, Running

LEMMA DeathGoes ==
  ASSUME TaskInv, NEW t \in TaskId, TimeLimit(t) \/ WorkerDies(t)
  PROVE  \E next : TaskGoes(t, next) /\ next.user = None /\ next.token = FALSE
<1>1. PICK pc \in {"ready", "lost"} :
        /\ task' = [task EXCEPT ![t] =
                      [task[t] EXCEPT !.pc = pc, !.token = FALSE, !.user = None]]
        /\ UNCHANGED <<form, typed, awaits, session>>
  BY DEF TimeLimit, WorkerDies, TaskStep
<1> DEFINE next == [task[t] EXCEPT !.pc = pc, !.token = FALSE, !.user = None]
<1>2. next \in Task /\ next.pc = pc /\ next.email = task[t].email
      /\ next.user = None /\ next.token = FALSE
  BY DEF TaskInv, TypeOK, Task, Running
<1>3. task' = [task EXCEPT ![t] = next]
  BY <1>1
<1> HIDE DEF next
<1> QED BY <1>1, <1>2, <1>3 DEF TaskGoes, Running

\* A login finds an account of its e-mail, or none.
LEMMA LoginGoes ==
  ASSUME TaskInv, NEW t \in TaskId, LoginTask(t)
  PROVE  \E next : /\ TaskGoes(t, next) /\ next.token = task[t].token
                   /\ next.user # None => /\ users[next.user] # None
                                          /\ users[next.user].email = task[t].email
<1>1. PICK u \in {v \in UserId : users[v] = [email |-> task[t].email, active |-> TRUE]}
                   \cup {None} :
        TaskStep(t, "login", [task[t] EXCEPT !.pc = "ready", !.user = u])
  BY DEF LoginTask
<1> DEFINE next == [task[t] EXCEPT !.pc = "ready", !.user = u]
<1>2. next \in Task /\ next.pc = "ready" /\ next.email = task[t].email
      /\ next.user = u /\ next.token = task[t].token
  BY DEF TaskInv, TypeOK, Task, Running
<1>3. /\ task' = [task EXCEPT ![t] = next] /\ task[t].pc = "login"
      /\ UNCHANGED <<form, typed, awaits, session>>
  BY <1>1 DEF TaskStep
<1> HIDE DEF next
<1>4. task[t].email \in Email /\ ~task[t].token
  BY <1>3 DEF TaskInv, TaskOK, Running
<1>5. u # None => users[u] # None /\ users[u].email = task[t].email
  <2> SUFFICES ASSUME u # None PROVE users[u] # None /\ users[u].email = task[t].email
    OBVIOUS
  <2>1. users[u] = [email |-> task[t].email, active |-> TRUE] /\ u \in UserId
    BY <1>1
  <2>2. users[u] \in User /\ users[u].email = task[t].email
    BY <1>4, <2>1 DEF User
  <2> QED BY <2>2, AccountsAssumption
<1>6. ~next.token
  BY <1>2, <1>4
<1>7. TaskGoes(t, next)
  BY <1>2, <1>3, <1>6 DEF TaskGoes, Running
<1> QED BY <1>2, <1>5, <1>7

\* A registration saves a row of an e-mail that no other row has, or none.
LEMMA SaveGoes ==
  ASSUME TaskInv, NEW t \in TaskId, SaveUser(t)
  PROVE  \E next :
           /\ TaskGoes(t, next) /\ next.token = task[t].token
           /\ UNCHANGED lock
           /\ \/ \E u \in UserId, row \in User :
                   /\ users[u] = None /\ row.email = task[t].email
                   /\ ~Exists(task[t].email)
                   /\ users' = [users EXCEPT ![u] = row]
                   /\ next.user = u
              \/ UNCHANGED users /\ next.user = task[t].user
<1>1. ASSUME NEW u \in UserId, users[u] = None,
             TaskStep(t, "saving", [task[t] EXCEPT !.pc = "releasing", !.user = u]),
             ~Exists(task[t].email), UNCHANGED lock,
             users' = [users EXCEPT ![u] = [email |-> task[t].email, active |-> TRUE]]
      PROVE  \E next :
               /\ TaskGoes(t, next) /\ next.token = task[t].token
               /\ \E row \in User : /\ row.email = task[t].email
                                    /\ users' = [users EXCEPT ![u] = row]
                                    /\ next.user = u
  <2> DEFINE next == [task[t] EXCEPT !.pc = "releasing", !.user = u]
             row == [email |-> task[t].email, active |-> TRUE]
  <2>1. next \in Task /\ next.pc = "releasing" /\ next.email = task[t].email
        /\ next.user = u /\ next.token = task[t].token
    BY DEF TaskInv, TypeOK, Task, Running
  <2>2. /\ task' = [task EXCEPT ![t] = next] /\ task[t].pc = "saving"
        /\ UNCHANGED <<form, typed, awaits, session>>
    BY <1>1 DEF TaskStep
  <2>3. task[t].email \in Email
    BY <2>2 DEF TaskInv, TaskOK, Running
  <2>4. row \in User /\ row.email = task[t].email /\ users' = [users EXCEPT ![u] = row]
    BY <1>1, <2>3 DEF User
  <2> HIDE DEF next, row
  <2>5. TaskGoes(t, next)
    BY <2>1, <2>2 DEF TaskGoes, Running
  <2> QED BY <2>1, <2>4, <2>5
<1>2. ASSUME TaskStep(t, "saving", [task[t] EXCEPT !.pc = "releasing"])
      PROVE  \E next : /\ TaskGoes(t, next) /\ next.token = task[t].token
                       /\ next.user = task[t].user
  <2> DEFINE next == [task[t] EXCEPT !.pc = "releasing"]
  <2>1. next \in Task /\ next.pc = "releasing" /\ next.email = task[t].email
        /\ next.user = task[t].user /\ next.token = task[t].token
    BY DEF TaskInv, TypeOK, Task, Running
  <2>2. /\ task' = [task EXCEPT ![t] = next] /\ task[t].pc = "saving"
        /\ UNCHANGED <<form, typed, awaits, session>>
    BY <1>2 DEF TaskStep
  <2> HIDE DEF next
  <2> QED BY <2>1, <2>2 DEF TaskGoes, Running
<1>3. CASE \E u \in {v \in UserId : users[v] = None} :
             /\ TaskStep(t, "saving", [task[t] EXCEPT !.pc = "releasing", !.user = u])
             /\ ~Exists(task[t].email)
             /\ users' = [users EXCEPT ![u] = [email |-> task[t].email, active |-> TRUE]]
             /\ UNCHANGED lock
  <2>1. PICK u \in UserId :
          /\ users[u] = None
          /\ TaskStep(t, "saving", [task[t] EXCEPT !.pc = "releasing", !.user = u])
          /\ ~Exists(task[t].email)
          /\ users' = [users EXCEPT ![u] = [email |-> task[t].email, active |-> TRUE]]
          /\ UNCHANGED lock
    BY <1>3
  <2>2. PICK next : /\ TaskGoes(t, next) /\ next.token = task[t].token
                    /\ \E row \in User : /\ row.email = task[t].email
                                         /\ users' = [users EXCEPT ![u] = row]
                                         /\ next.user = u
    BY <1>1, <2>1
  <2>3. PICK row \in User : /\ row.email = task[t].email
                            /\ users' = [users EXCEPT ![u] = row]
                            /\ next.user = u
    BY <2>2
  <2>4. users[u] = None /\ ~Exists(task[t].email) /\ UNCHANGED lock
    BY <2>1
  <2> QED BY <2>2, <2>3, <2>4
<1>4. CASE /\ TaskStep(t, "saving", [task[t] EXCEPT !.pc = "releasing"])
           /\ UNCHANGED <<users, lock>>
  BY <1>4, <1>2
<1> QED BY <1>3, <1>4 DEF SaveUser

-----------------------------------------------------------------------------
(* Accounts and sessions                                                   *)

LEMMA AccountInit == Init => AccountInv
<1> SUFFICES ASSUME Init PROVE AccountInv
  OBVIOUS
<1>1. NoTask \in Task
  BY DEF NoTask, Task
<1>2. TypeOK
  BY <1>1 DEF Init, TypeOK, FormState
<1>3. TaskOK /\ ResultIsOwn
  BY DEF Init, TaskOK, ResultIsOwn, NoTask, Running
<1>4. AwaitIsOwn /\ OneAccountPerEmail /\ SessionIsOwn
  BY DEF Init, AwaitIsOwn, OneAccountPerEmail, SessionIsOwn
<1> QED BY <1>2, <1>3, <1>4 DEF AccountInv, TaskInv

\* A submission brings a task without a result.
LEMMA SubmitKeeps ==
  ASSUME AccountInv, NEW p \in Page, NEW e \in Email, NEW t \in TaskId,
         SubmitRegister(p, e, t) \/ SubmitLogin(p, e, t)
  PROVE  AccountInv'
<1>1. PICK pc \in FirstStep : /\ Delay(p, e, t, pc)
                              /\ Answered(p, t) \/ AnswerLost(p)
  BY DEF SubmitRegister, SubmitLogin, FirstStep
<1>2. TaskInv
  BY DEF AccountInv
<1>3. /\ task' \in [TaskId -> Task]
      /\ task'[t].pc = pc /\ task'[t].email = e
      /\ task'[t].token = FALSE /\ task'[t].user = None
      /\ \A s \in TaskId : s # t => task'[s] = task[s]
      /\ typed' = [typed EXCEPT ![p] = e]
      /\ \A q \in Page : awaits[q] # t
  <2>1. Started(p, e, t, pc)
    BY <1>1, <1>2, DelayStep
  <2> QED BY <2>1 DEF Started
<1>4. /\ form[p] = "ready" /\ session[p] = None
      /\ UNCHANGED <<session, users, lock>>
  BY <1>1 DEF Delay
<1>5. TypeOK'
  BY <1>1, <1>3, <1>4 DEF Answered, AnswerLost, AccountInv, TaskInv, TypeOK, FormState
<1>6. TaskOK'
  BY <1>2, <1>3 DEF TaskInv, TaskOK, FirstStep
<1>7. AwaitIsOwn'
  <2>0. /\ awaits[p] = None
        /\ \A q \in Page : q # p => typed'[q] = typed[q]
        /\ typed'[p] = e
    BY <1>3, <1>4 DEF AccountInv, AwaitIsOwn, TaskInv, TypeOK
  <2>1. CASE Answered(p, t)
    <3>1. /\ form'[p] = "polling" /\ awaits'[p] = t
          /\ \A q \in Page : q # p => form'[q] = form[q] /\ awaits'[q] = awaits[q]
      BY <2>1 DEF Answered, AccountInv, TaskInv, TypeOK
    <3>2. \A q \in Page : q # p /\ awaits[q] # None => task'[awaits[q]] = task[awaits[q]]
      BY <1>3 DEF AccountInv, TaskInv, TypeOK
    <3> QED BY <1>3, <2>0, <3>1, <3>2, AccountsAssumption DEF AccountInv, AwaitIsOwn
  <2>2. CASE AnswerLost(p)
    <3>1. /\ form'[p] = "dead" /\ awaits' = awaits
          /\ \A q \in Page : q # p => form'[q] = form[q]
      BY <2>2 DEF AnswerLost, AccountInv, TaskInv, TypeOK
    <3>2. \A q \in Page : q # p /\ awaits[q] # None => task'[awaits[q]] = task[awaits[q]]
      BY <1>3 DEF AccountInv, TaskInv, TypeOK
    <3> QED BY <1>3, <2>0, <3>1, <3>2 DEF AccountInv, AwaitIsOwn
  <2> QED BY <1>1, <2>1, <2>2
<1>8. OneAccountPerEmail'
  BY <1>4 DEF AccountInv, OneAccountPerEmail
<1>9. SessionIsOwn'
  BY <1>3, <1>4 DEF AccountInv, SessionIsOwn, TaskInv, TypeOK
<1>10. ResultIsOwn'
  BY <1>3, <1>4 DEF AccountInv, ResultIsOwn
<1> QED BY <1>5, <1>6, <1>7, <1>8, <1>9, <1>10 DEF AccountInv, TaskInv

\* Page steps that leave the rows alone; a session is the awaited result.
LEMMA PageKeeps ==
  ASSUME AccountInv, NEW p \in Page,
         \/ SubmitFails(p) \/ Poll(p) \/ Finalize(p) \/ FinalizeFails(p)
         \/ Reload(p) \/ Logout(p)
  PROVE  AccountInv'
<1>1. UNCHANGED <<typed, task, users, lock>>
  BY DEF SubmitFails, Poll, Finalize, FinalizeFails, Reload, Logout
<1>2. PICK f \in FormState, a \in {None, awaits[p]}, s \in {None, session[p]} \cup
             (IF form[p] = "finalizing" THEN {task[awaits[p]].user} ELSE {}) :
        /\ form' = [form EXCEPT ![p] = f]
        /\ awaits' = [awaits EXCEPT ![p] = a]
        /\ session' = [session EXCEPT ![p] = s]
        /\ f \in {"polling", "finalizing"} => a # None
        /\ a # None => f \in {"polling", "finalizing"}
  <2> USE DEF AccountInv, TaskInv, TypeOK, AwaitIsOwn, FormState
  <2>1. CASE SubmitFails(p)   BY <2>1 DEF SubmitFails
  <2>2. CASE Poll(p)          BY <2>2 DEF Poll
  <2>3. CASE Finalize(p)      BY <2>3 DEF Finalize
  <2>4. CASE FinalizeFails(p) BY <2>4 DEF FinalizeFails
  <2>5. CASE Reload(p)
    <3> DEFINE f == IF session[p] = None THEN "ready" ELSE "home"
    <3>1. f \in FormState /\ f \notin {"polling", "finalizing"}
      OBVIOUS
    <3>2. form' = [form EXCEPT ![p] = f] /\ awaits' = [awaits EXCEPT ![p] = None]
      BY <2>5 DEF Reload
    <3>3. session' = [session EXCEPT ![p] = session[p]]
      BY <2>5 DEF Reload
    <3> HIDE DEF f
    <3> QED BY <3>1, <3>2, <3>3
  <2>6. CASE Logout(p)        BY <2>6 DEF Logout
  <2> QED BY <2>1, <2>2, <2>3, <2>4, <2>5, <2>6
<1>3. form[p] = "finalizing" => /\ awaits[p] \in TaskId
                                /\ task[awaits[p]].user \in UserId \cup {None}
                                /\ task[awaits[p]].email = typed[p]
  BY DEF AccountInv, AwaitIsOwn, TaskInv, TypeOK, Task
<1>4. s \in UserId \cup {None} /\ a \in TaskId \cup {None}
  BY <1>2, <1>3 DEF AccountInv, TaskInv, TypeOK
<1>5. TypeOK'
  BY <1>1, <1>2, <1>4 DEF AccountInv, TaskInv, TypeOK
<1>6. TaskOK' /\ OneAccountPerEmail' /\ ResultIsOwn'
  BY <1>1 DEF AccountInv, TaskInv, TaskOK, OneAccountPerEmail, ResultIsOwn
<1>7. AwaitIsOwn'
  BY <1>1, <1>2 DEF AccountInv, AwaitIsOwn, TaskInv, TypeOK
<1>8. s # None => users[s] # None /\ users[s].email = typed[p]
  BY <1>2, <1>3 DEF AccountInv, SessionIsOwn, ResultIsOwn
<1>9. SessionIsOwn'
  BY <1>1, <1>2, <1>8 DEF AccountInv, SessionIsOwn, TaskInv, TypeOK
<1> QED BY <1>5, <1>6, <1>7, <1>9 DEF AccountInv, TaskInv

\* A deletion keeps the row and its e-mail.
LEMMA DeletionKeeps ==
  ASSUME AccountInv, NEW p \in Page, RequestDeletion(p)
  PROVE  AccountInv'
<1>1. /\ form' = [form EXCEPT ![p] = "ready"] /\ session' = [session EXCEPT ![p] = None]
      /\ form[p] = "home"
      /\ UNCHANGED <<typed, awaits, task, lock>>
  BY DEF RequestDeletion
<1>2. /\ users' \in [UserId -> User \cup {None}]
      /\ \A u \in UserId : /\ (users'[u] = None) = (users[u] = None)
                           /\ users[u] # None => users'[u].email = users[u].email
  <2>1. CASE session[p] = None
    <3>1. users' = users
      BY <2>1, AccountsAssumption DEF RequestDeletion, AccountInv, TaskInv, TypeOK
    <3> QED BY <3>1 DEF AccountInv, TaskInv, TypeOK
  <2>2. CASE session[p] # None
    <3> DEFINE u == session[p]
               left == [users[u] EXCEPT !.active = FALSE]
    <3>1. u \in UserId /\ users[u] # None /\ users[u] \in User
      BY <2>2 DEF AccountInv, SessionIsOwn, TaskInv, TypeOK
    <3>2. left \in User /\ left.email = users[u].email
      BY <3>1 DEF User
    <3>3. left # None
      BY <3>2, AccountsAssumption
    <3>4. users' = [users EXCEPT ![u] = left]
      BY DEF RequestDeletion
    <3> HIDE DEF left
    <3> QED BY <3>1, <3>2, <3>3, <3>4 DEF AccountInv, TaskInv, TypeOK
  <2> QED BY <2>1, <2>2
<1>3. TypeOK'
  BY <1>1, <1>2 DEF AccountInv, TaskInv, TypeOK, FormState
<1>4. TaskOK' /\ AwaitIsOwn'
  BY <1>1 DEF AccountInv, TaskInv, TaskOK, AwaitIsOwn, TypeOK
<1>5. OneAccountPerEmail'
  BY <1>2 DEF AccountInv, OneAccountPerEmail
<1>6. SessionIsOwn'
  BY <1>1, <1>2 DEF AccountInv, SessionIsOwn, TaskInv, TypeOK
<1>7. ResultIsOwn'
  <2>1. \A t \in TaskId : task[t].user \in UserId \cup {None}
    BY DEF AccountInv, TaskInv, TypeOK, Task
  <2> QED BY <1>1, <1>2, <2>1 DEF AccountInv, ResultIsOwn
<1> QED BY <1>3, <1>4, <1>5, <1>6, <1>7 DEF AccountInv, TaskInv

\* A step of a task that leaves the rows alone keeps everything, if the result
\* it ends with is one of its e-mail.
LEMMA TaskKeeps ==
  ASSUME AccountInv, NEW t \in TaskId, NEW next, TaskGoes(t, next),
         UNCHANGED users, lock' \in [Email -> TaskId \cup {None}],
         next.user # None => /\ users[next.user] # None
                             /\ users[next.user].email = task[t].email
  PROVE  AccountInv'
<1>1. /\ task' \in [TaskId -> Task] /\ TaskOK'
      /\ task'[t] = next
      /\ \A s \in TaskId : s # t => task'[s] = task[s]
      /\ \A s \in TaskId : task'[s].email = task[s].email
  BY TaskGoesTypes DEF AccountInv
<1>2. UNCHANGED <<form, typed, awaits, session, users>>
  BY DEF TaskGoes
<1>3. TypeOK'
  BY <1>1, <1>2 DEF AccountInv, TaskInv, TypeOK
<1>4. AwaitIsOwn'
  BY <1>1, <1>2 DEF AccountInv, AwaitIsOwn, TaskInv, TypeOK
<1>5. OneAccountPerEmail' /\ SessionIsOwn'
  BY <1>2 DEF AccountInv, OneAccountPerEmail, SessionIsOwn
<1>6. ResultIsOwn'
  BY <1>1, <1>2 DEF AccountInv, ResultIsOwn
<1> QED BY <1>1, <1>3, <1>4, <1>5, <1>6 DEF AccountInv, TaskInv

\* A new account has an e-mail that no other has, and a key that no page holds.
LEMMA NewIsOwn ==
  ASSUME AccountInv, NEW t \in TaskId, NEW next, TaskGoes(t, next),
         NEW u \in UserId, NEW row \in User, users[u] = None,
         row.email = task[t].email, ~Exists(task[t].email),
         users' = [users EXCEPT ![u] = row], next.user = u, UNCHANGED lock
  PROVE  AccountInv'
<1>1. /\ task' \in [TaskId -> Task] /\ TaskOK'
      /\ task'[t] = next
      /\ \A s \in TaskId : s # t => task'[s] = task[s]
      /\ \A s \in TaskId : task'[s].email = task[s].email
  BY TaskGoesTypes DEF AccountInv
<1>2. UNCHANGED <<form, typed, awaits, session>>
  BY DEF TaskGoes
<1>3. row # None
  BY AccountsAssumption
<1>4. \A v \in UserId : users'[v] = IF v = u THEN row ELSE users[v]
  BY DEF AccountInv, TaskInv, TypeOK
<1>5. TypeOK'
  BY <1>1, <1>2 DEF AccountInv, TaskInv, TypeOK
<1>6. AwaitIsOwn'
  BY <1>1, <1>2 DEF AccountInv, AwaitIsOwn, TaskInv, TypeOK
<1>7. OneAccountPerEmail'
  BY <1>4 DEF AccountInv, OneAccountPerEmail, Exists
<1>8. \A s \in TaskId : task[s].user \in UserId \cup {None}
  BY DEF AccountInv, TaskInv, TypeOK, Task
<1>9. SessionIsOwn'
  BY <1>2, <1>4 DEF AccountInv, SessionIsOwn, TaskInv, TypeOK
<1>10. ResultIsOwn'
  <2> SUFFICES ASSUME NEW s \in TaskId, task'[s].user # None
               PROVE  /\ users'[task'[s].user] # None
                      /\ users'[task'[s].user].email = task'[s].email
    BY DEF ResultIsOwn
  <2>1. CASE s = t
    BY <2>1, <1>1, <1>3, <1>4
  <2>2. CASE s # t
    BY <2>2, <1>1, <1>4, <1>8 DEF AccountInv, ResultIsOwn
  <2> QED BY <2>1, <2>2
<1> QED BY <1>1, <1>5, <1>6, <1>7, <1>9, <1>10 DEF AccountInv, TaskInv

LEMMA LockTypes ==
  ASSUME AccountInv, NEW t \in TaskId,
         \/ AcquireLock(t) \/ AcquireGivesUp(t) \/ CheckExists(t) \/ ReleaseLock(t)
         \/ LoginTask(t) \/ TimeLimit(t) \/ WorkerDies(t)
  PROVE  UNCHANGED users /\ lock' \in [Email -> TaskId \cup {None}]
BY DEF AcquireLock, AcquireGivesUp, SetKey, CheckExists, ReleaseLock, LoginTask, TimeLimit,
       WorkerDies, AccountInv, TaskInv, TypeOK

LEMMA TaskStepKeeps ==
  ASSUME AccountInv, NEW t \in TaskId, RunTask(t) \/ TimeLimit(t) \/ WorkerDies(t)
  PROVE  AccountInv'
<1>1. TaskInv
  BY DEF AccountInv
<1>2. task[t].user # None => /\ users[task[t].user] # None
                             /\ users[task[t].user].email = task[t].email
  BY DEF AccountInv, ResultIsOwn
<1>3. CASE AcquireLock(t)
  BY <1>1, <1>2, <1>3, AcquireGoes, TaskKeeps, LockTypes
<1>4. CASE AcquireGivesUp(t) \/ CheckExists(t)
  BY <1>1, <1>2, <1>4, QuietGoes, TaskKeeps, LockTypes
<1>5. CASE ReleaseLock(t)
  BY <1>1, <1>2, <1>5, ReleaseGoes, TaskKeeps, LockTypes
<1>6. CASE LoginTask(t)
  BY <1>1, <1>6, LoginGoes, TaskKeeps, LockTypes
<1>7. CASE TimeLimit(t) \/ WorkerDies(t)
  BY <1>1, <1>7, DeathGoes, TaskKeeps, LockTypes
<1>8. CASE SaveUser(t)
  <2>1. PICK next :
          /\ TaskGoes(t, next)
          /\ UNCHANGED lock
          /\ \/ \E u \in UserId, row \in User :
                  /\ users[u] = None /\ row.email = task[t].email
                  /\ ~Exists(task[t].email)
                  /\ users' = [users EXCEPT ![u] = row]
                  /\ next.user = u
             \/ UNCHANGED users /\ next.user = task[t].user
    BY <1>1, <1>8, SaveGoes
  <2>2. CASE UNCHANGED users /\ next.user = task[t].user
    <3>1. lock' \in [Email -> TaskId \cup {None}]
      BY <1>1, <2>1 DEF TaskInv, TypeOK
    <3> QED BY <1>2, <2>1, <2>2, <3>1, TaskKeeps
  <2>3. CASE \E u \in UserId, row \in User :
               /\ users[u] = None /\ row.email = task[t].email
               /\ ~Exists(task[t].email)
               /\ users' = [users EXCEPT ![u] = row]
               /\ next.user = u
    BY <2>1, <2>3, NewIsOwn
  <2> QED BY <2>1, <2>2, <2>3
<1> QED BY <1>3, <1>4, <1>5, <1>6, <1>7, <1>8 DEF RunTask

LEMMA AccountStep == AccountInv /\ [Next]_vars => AccountInv'
<1> SUFFICES ASSUME AccountInv, [Next]_vars PROVE AccountInv'
  OBVIOUS
<1>1. CASE UNCHANGED vars
  BY <1>1 DEF vars, AccountInv, TaskInv, TypeOK, TaskOK, AwaitIsOwn, OneAccountPerEmail,
              SessionIsOwn, ResultIsOwn
<1>2. ASSUME NEW p \in Page, PageStep(p) PROVE AccountInv'
  BY <1>2, SubmitKeeps, PageKeeps, DeletionKeeps DEF PageStep
<1>3. ASSUME NEW t \in TaskId, RunTask(t) \/ TimeLimit(t) \/ WorkerDies(t)
      PROVE  AccountInv'
  BY <1>3, TaskStepKeeps
<1>4. ASSUME NEW e \in Email, LockExpires(e) PROVE AccountInv'
  BY <1>4 DEF LockExpires, AccountInv, TaskInv, TypeOK, TaskOK, AwaitIsOwn,
              OneAccountPerEmail, SessionIsOwn, ResultIsOwn
<1> QED BY <1>1, <1>2, <1>3, <1>4 DEF Next

LEMMA AccountAlways == Spec => []AccountInv
BY AccountInit, AccountStep, PTL DEF Spec

\* Forms, tasks, rows and keys always hold what the code writes.
THEOREM AccountTypeCorrect == Spec => []TypeOK
<1>1. AccountInv => TypeOK
  BY DEF AccountInv, TaskInv
<1> QED BY <1>1, AccountAlways, PTL

\* However registrations interleave, and with a lock that expires, is lost or
\* never obtained: an e-mail has at most one account.
THEOREM EmailIsUnique == Spec => []OneAccountPerEmail
<1>1. AccountInv => OneAccountPerEmail
  BY DEF AccountInv
<1> QED BY <1>1, AccountAlways, PTL

\* A browser is only ever logged in as the account of the e-mail it submitted
\* last, whatever tasks of earlier submissions still run.
THEOREM SessionsAreOwn == Spec => []SessionIsOwn
<1>1. AccountInv => SessionIsOwn
  BY DEF AccountInv
<1> QED BY <1>1, AccountAlways, PTL

-----------------------------------------------------------------------------
(* The mutex implements Lease                                              *)

Inside == [t \in TaskId |-> IF task[t].token THEN task[t].email ELSE None]

\* What a task step does to the keys that are held.
LEMMA GoesInside ==
  ASSUME TaskInv, NEW t \in TaskId, NEW next, TaskGoes(t, next)
  PROVE  /\ Inside' = [Inside EXCEPT ![t] = IF next.token THEN task[t].email ELSE None]
         /\ next.token = task[t].token => Inside' = Inside
<1>1. /\ task'[t] = next
      /\ \A s \in TaskId : s # t => task'[s] = task[s]
  BY TaskGoesTypes
<1>2. next.email = task[t].email
  BY DEF TaskGoes
<1> QED BY <1>1, <1>2 DEF Inside

LEMMA PageStutters ==
  ASSUME TaskInv, NEW p \in Page, PageStep(p)
  PROVE  UNCHANGED <<lock, Inside>>
<1>1. ASSUME NEW e \in Email, NEW t \in TaskId, SubmitRegister(p, e, t) \/ SubmitLogin(p, e, t)
      PROVE  UNCHANGED <<lock, Inside>>
  <2>1. PICK pc \in FirstStep : Delay(p, e, t, pc)
    BY <1>1 DEF SubmitRegister, SubmitLogin, FirstStep
  <2>2. /\ task'[t].token = FALSE /\ task[t].token = FALSE
        /\ \A s \in TaskId : s # t => task'[s] = task[s]
    <3>1. Started(p, e, t, pc)
      BY <2>1, DelayStep
    <3> QED BY <3>1 DEF Started
  <2>3. Inside' = Inside
    BY <2>2 DEF Inside
  <2> QED BY <2>1, <2>3 DEF Delay
<1>2. CASE \/ SubmitFails(p) \/ Poll(p) \/ Finalize(p) \/ FinalizeFails(p)
           \/ Reload(p) \/ Logout(p) \/ RequestDeletion(p)
  BY <1>2 DEF SubmitFails, Poll, Finalize, FinalizeFails, Reload, Logout, RequestDeletion,
              Inside
<1> QED BY <1>1, <1>2 DEF PageStep

\* A lease is granted to a task that has none.
LEMMA AcquireGrants ==
  ASSUME TaskInv, NEW t \in TaskId, AcquireLock(t)
  PROVE  \E e \in Email : L!Grant(t, e)
<1>1. PICK next : TaskGoes(t, next) /\ next.token = TRUE
  BY AcquireGoes
<1>2. task[t].email \in Email /\ ~task[t].token
  BY DEF AcquireLock, TaskStep, TaskInv, TaskOK, Running
<1>3. Inside' = [Inside EXCEPT ![t] = task[t].email] /\ Inside[t] = None
  BY <1>1, <1>2, GoesInside DEF Inside
<1>4. PICK e \in Email : e = task[t].email
  BY <1>2
<1>5. L!Grant(t, e)
  BY <1>3, <1>4 DEF AcquireLock, SetKey, L!Grant, Inside
<1> QED BY <1>5

\* The task goes on without a token; the key may have been set all the same.
LEMMA GivingUpStrands ==
  ASSUME TaskInv, NEW t \in TaskId, AcquireGivesUp(t)
  PROVE  (\E e \in Email : L!Strand(t, e)) \/ UNCHANGED <<lock, Inside>>
<1>1. Inside' = Inside
  BY QuietGoes, GoesInside
<1>2. PICK e \in Email : e = task[t].email
  BY DEF AcquireGivesUp, TaskStep, TaskInv, TaskOK, Running
<1>3. SetKey(t) => L!Strand(t, e)
  BY <1>1, <1>2 DEF SetKey, L!Strand, Inside
<1> QED BY <1>1, <1>3 DEF AcquireGivesUp

\* Only a task that has the key deletes it; one that cannot leaves it to expire.
LEMMA ReleaseLeaves ==
  ASSUME TaskInv, NEW t \in TaskId, ReleaseLock(t)
  PROVE  \/ \E e \in Email : L!Leave(t, e)
         \/ L!Die(t)
         \/ UNCHANGED <<lock, Inside>>
<1>1. PICK next : TaskGoes(t, next) /\ next.token = FALSE
  BY ReleaseGoes
<1>2. task[t].email \in Email /\ task[t].token \in BOOLEAN
  BY DEF ReleaseLock, TaskStep, TaskInv, TaskOK, TypeOK, Task, Running
<1>3. Inside' = [Inside EXCEPT ![t] = None]
  BY <1>1, GoesInside
<1>4. CASE UNCHANGED lock
  BY <1>3, <1>4 DEF L!Die, Inside
<1>5. CASE ~task[t].token
  <2>1. Inside' = Inside
    BY <1>1, <1>2, <1>5, GoesInside
  <2>2. lock' = lock
    BY <1>2, <1>5 DEF ReleaseLock, TaskInv, TypeOK
  <2> QED BY <2>1, <2>2
<1>6. CASE task[t].token /\ ~UNCHANGED lock
  <2>1. lock' = [lock EXCEPT ![task[t].email] = IF @ = t THEN None ELSE @]
    BY <1>6 DEF ReleaseLock
  <2>2. PICK e \in Email : e = task[t].email
    BY <1>2
  <2>3. Inside[t] = e
    BY <1>6, <2>2 DEF Inside
  <2>4. L!Leave(t, e)
    BY <1>3, <2>1, <2>2, <2>3 DEF L!Leave, Inside
  <2> QED BY <2>4
<1> QED BY <1>2, <1>4, <1>5, <1>6

\* A task that is killed leaves its key to expire.
LEMMA DeathDies ==
  ASSUME TaskInv, NEW t \in TaskId, TimeLimit(t) \/ WorkerDies(t)
  PROVE  L!Die(t)
<1>1. PICK next : TaskGoes(t, next) /\ next.token = FALSE
  BY DeathGoes
<1>2. UNCHANGED lock
  BY DEF TimeLimit, WorkerDies
<1>3. Inside' = [Inside EXCEPT ![t] = None]
  BY <1>1, GoesInside
<1> QED BY <1>2, <1>3 DEF L!Die, Inside

\* The other steps of a task concern no key.
LEMMA TaskStutters ==
  ASSUME TaskInv, NEW t \in TaskId, CheckExists(t) \/ SaveUser(t) \/ LoginTask(t)
  PROVE  UNCHANGED <<lock, Inside>>
<1>1. CASE CheckExists(t)
  BY <1>1, QuietGoes, GoesInside DEF CheckExists
<1>2. CASE SaveUser(t)
  <2>1. PICK next : TaskGoes(t, next) /\ next.token = task[t].token /\ UNCHANGED lock
    BY <1>2, SaveGoes
  <2> QED BY <2>1, GoesInside
<1>3. CASE LoginTask(t)
  BY <1>3, LoginGoes, GoesInside DEF LoginTask
<1> QED BY <1>1, <1>2, <1>3

LEMMA StepImplementsLease ==
  ASSUME TaskInv, [Next]_vars
  PROVE  L!Next \/ UNCHANGED <<lock, Inside>>
<1>1. CASE UNCHANGED vars
  BY <1>1 DEF vars, Inside
<1>2. ASSUME NEW p \in Page, PageStep(p) PROVE UNCHANGED <<lock, Inside>>
  BY <1>2, PageStutters
<1>3. ASSUME NEW t \in TaskId, RunTask(t) \/ TimeLimit(t) \/ WorkerDies(t)
      PROVE  L!Next \/ UNCHANGED <<lock, Inside>>
  <2>1. CASE AcquireLock(t)
    BY <2>1, AcquireGrants DEF L!Next
  <2>2. CASE AcquireGivesUp(t)
    BY <2>2, GivingUpStrands DEF L!Next
  <2>3. CASE ReleaseLock(t)
    BY <2>3, ReleaseLeaves DEF L!Next
  <2>4. CASE TimeLimit(t) \/ WorkerDies(t)
    BY <2>4, DeathDies DEF L!Next
  <2>5. CASE CheckExists(t) \/ SaveUser(t) \/ LoginTask(t)
    BY <2>5, TaskStutters
  <2> QED BY <1>3, <2>1, <2>2, <2>3, <2>4, <2>5 DEF RunTask
<1>4. ASSUME NEW e \in Email, LockExpires(e) PROVE L!Next
  <2>1. L!Expire(e)
    BY <1>4 DEF LockExpires, L!Expire
  <2> QED BY <2>1 DEF L!Next
<1> QED BY <1>1, <1>2, <1>3, <1>4 DEF Next

\* The mutex of redis_client implements a lease: no task deletes the key of
\* another, whenever keys expire, Redis fails and tasks are killed.
THEOREM MutexImplementsLease == Spec => LockIsLease
<1>1. Init => L!Init
  BY DEF Init, L!Init, NoTask
<1>2. TaskInv /\ [Next]_vars => [L!Next]_(L!lvars)
  BY StepImplementsLease DEF Inside, L!lvars
<1>3. AccountInv => TaskInv
  BY DEF AccountInv
<1> QED BY <1>1, <1>2, <1>3, AccountAlways, PTL DEF Spec, LockIsLease, L!Spec
=============================================================================
