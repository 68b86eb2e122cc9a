------------------------------ MODULE Accounts ------------------------------
(***************************************************************************)
(* Registration, login and account deletion: the page's form              *)
(* (static/js/form-loading.js), the views and tasks of apps/accounts and   *)
(* the Redis mutex of apps/core/redis_client.py.  A page submits its form, *)
(* the view queues a task, the page polls for the result and exchanges it  *)
(* for a session.  Tasks run at the same time, those that no page awaits   *)
(* any more included.                                                      *)
(***************************************************************************)
EXTENDS Naturals

CONSTANTS Page,     \* browser pages, each with one form
          TaskId,   \* Celery tasks; an id nobody refers to is used again
          Email,
          UserId,   \* primary keys, used once
          None

\* A row of accounts_user.
User == [email: Email, active: BOOLEAN]

ASSUME AccountsAssumption == None \notin Page \cup TaskId \cup Email \cup UserId \cup User

VARIABLES
  form,     \* form[p]: what the page is doing
  typed,    \* typed[p]: the e-mail of the page's last submission
  awaits,   \* awaits[p]: the task whose result the page waits for or exchanges
  session,  \* session[p]: the user the browser is logged in as, or None
  task,     \* task[t]: where the task is, and its result
  users,    \* users[u]: a row of accounts_user, or None
  lock      \* lock[e]: the token stored in Redis, the task that set it

vars == <<form, typed, awaits, session, task, users, lock>>

FormState == {"ready", "polling", "finalizing", "dead", "home"}

Running == {"waiting", "checking", "saving", "releasing", "login"}

\* user is the row the result names, or None when the result is an error.  The
\* result of a task is readable when it is "ready", and never of one "lost".
Task == [pc: Running \cup {"none", "ready", "lost"}, email: Email \cup {None},
         token: BOOLEAN, user: UserId \cup {None}]

NoTask == [pc |-> "none", email |-> None, token |-> FALSE, user |-> None]

Init == /\ form = [p \in Page |-> "ready"]
        /\ typed = [p \in Page |-> None]
        /\ awaits = [p \in Page |-> None]
        /\ session = [p \in Page |-> None]
        /\ task = [t \in TaskId |-> NoTask]
        /\ users = [u \in UserId |-> None]
        /\ lock = [e \in Email |-> None]

Exists(e) == \E u \in UserId : users[u] # None /\ users[u].email = e

-----------------------------------------------------------------------------
(* The page and the views it posts to *)

\* An id that no worker, page or key refers to.
Unused(t) == /\ task[t].pc \notin Running
             /\ \A p \in Page : awaits[p] # t
             /\ \A e \in Email : lock[e] # t

\* .delay(): a registration starts "waiting", a login at "login".
Delay(p, e, t, pc) == /\ form[p] = "ready"
                      /\ session[p] = None
                      /\ Unused(t)
                      /\ typed' = [typed EXCEPT ![p] = e]
                      /\ task' = [task EXCEPT ![t] = [NoTask EXCEPT !.pc = pc, !.email = e]]
                      /\ UNCHANGED <<session, users, lock>>

\* The view's answer arrives (202 with the id of the task), or it does not: the
\* task runs all the same, but the handler hides the overlay and leaves
\* data-loading-submitting on the form, which ignores every later submit.
Answered(p, t) == /\ form' = [form EXCEPT ![p] = "polling"]
                  /\ awaits' = [awaits EXCEPT ![p] = t]

AnswerLost(p) == /\ form' = [form EXCEPT ![p] = "dead"]
                 /\ UNCHANGED awaits

\* register: a form that passes clean_email; a denied or invalid one is
\* rendered again and changes nothing.
SubmitRegister(p, e, t) == /\ ~Exists(e)
                           /\ Delay(p, e, t, "waiting")
                           /\ Answered(p, t) \/ AnswerLost(p)

SubmitLogin(p, e, t) == /\ Delay(p, e, t, "login")
                        /\ Answered(p, t) \/ AnswerLost(p)

\* The POST does not reach the view, or its .delay() raises.
SubmitFails(p) == /\ form[p] = "ready"
                  /\ form' = [form EXCEPT ![p] = "dead"]
                  /\ UNCHANGED <<typed, awaits, session, task, users, lock>>

\* Mutant: an error is not told to the page.
PollSuccess(p) == /\ form[p] = "polling"
                  /\ task[awaits[p]].pc = "ready"
                  /\ task[awaits[p]].user # None
                  /\ form' = [form EXCEPT ![p] = "finalizing"]
                  /\ UNCHANGED <<typed, awaits, session, task, users, lock>>

\* check_auth_task, when the result is there.
Poll(p) == /\ form[p] = "polling"
           /\ task[awaits[p]].pc = "ready"
           /\ IF task[awaits[p]].user = None
              THEN /\ form' = [form EXCEPT ![p] = "ready"]
                   /\ awaits' = [awaits EXCEPT ![p] = None]
              ELSE /\ form' = [form EXCEPT ![p] = "finalizing"]
                   /\ UNCHANGED awaits
           /\ UNCHANGED <<typed, session, task, users, lock>>

Finalize(p) == /\ form[p] = "finalizing"
               /\ form' = [form EXCEPT ![p] = "home"]
               /\ awaits' = [awaits EXCEPT ![p] = None]
               /\ session' = [session EXCEPT ![p] = task[awaits[p]].user]
               /\ UNCHANGED <<typed, task, users, lock>>

\* The exchange has no catch: when its request or its answer is lost the page
\* stays behind its overlay, logged in or not.
FinalizeFails(p) == /\ form[p] = "finalizing"
                    /\ form' = [form EXCEPT ![p] = "dead"]
                    /\ awaits' = [awaits EXCEPT ![p] = None]
                    /\ \/ session' = [session EXCEPT ![p] = task[awaits[p]].user]
                       \/ UNCHANGED session
                    /\ UNCHANGED <<typed, task, users, lock>>

\* The user loads the page again; a task it was polling runs on.
Reload(p) == /\ form[p] \in {"dead", "polling"}
             /\ form' = [form EXCEPT ![p] = IF session[p] = None THEN "ready" ELSE "home"]
             /\ awaits' = [awaits EXCEPT ![p] = None]
             /\ UNCHANGED <<typed, session, task, users, lock>>

Logout(p) == /\ form[p] = "home"
             /\ form' = [form EXCEPT ![p] = "ready"]
             /\ session' = [session EXCEPT ![p] = None]
             /\ UNCHANGED <<typed, awaits, task, users, lock>>

\* request_account_deletion, from any page that is logged in as an active user.
RequestDeletion(p) ==
  /\ form[p] = "home"
  /\ users[session[p]].active
  /\ users' = [users EXCEPT ![session[p]].active = FALSE]
  /\ form' = [form EXCEPT ![p] = "ready"]
  /\ session' = [session EXCEPT ![p] = None]
  /\ UNCHANGED <<typed, awaits, task, lock>>

-----------------------------------------------------------------------------
(* The tasks.  The result of a task is readable once it has returned, after *)
(* its finally block.                                                       *)

TaskStep(t, from, next) == /\ task[t].pc = from
                           /\ task' = [task EXCEPT ![t] = next]
                           /\ UNCHANGED <<form, typed, awaits, session>>

\* SET NX PX succeeds.
SetKey(t) == /\ lock[task[t].email] = None
             /\ lock' = [lock EXCEPT ![task[t].email] = t]

AcquireLock(t) ==
  /\ TaskStep(t, "waiting", [task[t] EXCEPT !.pc = "checking", !.token = TRUE])
  /\ SetKey(t)
  /\ UNCHANGED users

\* acquire_lock returns None: its deadline is over, Redis is down, or the answer
\* of a SET that did set the key is lost.  The task goes on all the same.
AcquireGivesUp(t) == /\ TaskStep(t, "waiting", [task[t] EXCEPT !.pc = "checking"])
                     /\ SetKey(t) \/ UNCHANGED lock
                     /\ UNCHANGED users

CheckExists(t) ==
  /\ TaskStep(t, "checking",
       [task[t] EXCEPT !.pc = IF Exists(task[t].email) THEN "releasing" ELSE "saving"])
  /\ UNCHANGED <<users, lock>>

\* Mutant: e-mail is not unique in the table.
SaveUserAgain(t) ==
  \E u \in {v \in UserId : users[v] = None} :
    /\ TaskStep(t, "saving", [task[t] EXCEPT !.pc = "releasing", !.user = u])
    /\ users' = [users EXCEPT ![u] = [email |-> task[t].email, active |-> TRUE]]
    /\ UNCHANGED lock

\* user.save() under the unique constraint on email, or its IntegrityError.
SaveUser(t) ==
  \/ \E u \in {v \in UserId : users[v] = None} :
       /\ TaskStep(t, "saving", [task[t] EXCEPT !.pc = "releasing", !.user = u])
       /\ ~Exists(task[t].email)
       /\ users' = [users EXCEPT ![u] = [email |-> task[t].email, active |-> TRUE]]
       /\ UNCHANGED lock
  \/ /\ TaskStep(t, "saving", [task[t] EXCEPT !.pc = "releasing"])
     /\ Exists(task[t].email)
     /\ UNCHANGED <<users, lock>>

\* Mutant: DEL without comparing the token.
ReleaseAnyLock(t) ==
  /\ TaskStep(t, "releasing", [task[t] EXCEPT !.pc = "ready", !.token = FALSE])
  /\ lock' = [lock EXCEPT ![task[t].email] = IF task[t].token THEN None ELSE @]
  /\ UNCHANGED users

\* The finally block: compare and delete, if a token was obtained.  An error of
\* Redis is swallowed: the key stays, beside the same result.
ReleaseLock(t) ==
  /\ TaskStep(t, "releasing", [task[t] EXCEPT !.pc = "ready", !.token = FALSE])
  /\ \/ lock' = [lock EXCEPT ![task[t].email] = IF task[t].token /\ @ = t THEN None ELSE @]
     \/ UNCHANGED lock
  /\ UNCHANGED users

\* Mutant: authenticate by the password alone.
LoginAnyone(t) ==
  /\ \E u \in {v \in UserId : users[v] # None} \cup {None} :
       TaskStep(t, "login", [task[t] EXCEPT !.pc = "ready", !.user = u])
  /\ UNCHANGED <<users, lock>>

\* process_login_task: authenticate accepts active users with their password.
LoginTask(t) ==
  /\ \E u \in {v \in UserId : users[v] = [email |-> task[t].email, active |-> TRUE]}
                \cup {None} :
       TaskStep(t, "login", [task[t] EXCEPT !.pc = "ready", !.user = u])
  /\ UNCHANGED <<users, lock>>

\* CELERY_TASK_TIME_LIMIT, under a prefork pool: the child is killed without its
\* finally block and the result is an error.  A row it has saved stays.
TimeLimit(t) ==
  /\ task[t].pc \in Running
  /\ TaskStep(t, task[t].pc, [task[t] EXCEPT !.pc = "ready", !.token = FALSE, !.user = None])
  /\ UNCHANGED <<users, lock>>

\* The worker itself dies.  The task was acknowledged when it began and is not
\* delivered again: its result stays PENDING or STARTED.
WorkerDies(t) ==
  /\ task[t].pc \in Running
  /\ TaskStep(t, task[t].pc, [task[t] EXCEPT !.pc = "lost", !.token = FALSE, !.user = None])
  /\ UNCHANGED <<users, lock>>

\* The time to live of the key runs out.
LockExpires(e) == /\ lock[e] # None
                  /\ lock' = [lock EXCEPT ![e] = None]
                  /\ UNCHANGED <<form, typed, awaits, session, task, users>>

PageStep(p) == \/ \E e \in Email, t \in TaskId : SubmitRegister(p, e, t) \/ SubmitLogin(p, e, t)
               \/ SubmitFails(p) \/ Poll(p) \/ Finalize(p) \/ FinalizeFails(p)
               \/ Reload(p) \/ Logout(p) \/ RequestDeletion(p)

RunTask(t) == \/ AcquireLock(t) \/ AcquireGivesUp(t) \/ CheckExists(t) \/ SaveUser(t)
              \/ ReleaseLock(t) \/ LoginTask(t)

Next == \/ \E p \in Page : PageStep(p)
        \/ \E t \in TaskId : RunTask(t) \/ TimeLimit(t) \/ WorkerDies(t)
        \/ \E e \in Email : LockExpires(e)

\* A worker that lives runs its task on, a page polls every 1.5 s.  Nobody has to
\* submit, no worker has to die and no request has to fail.
Fairness == /\ \A t \in TaskId : WF_vars(RunTask(t))
            /\ \A p \in Page : WF_vars(Poll(p)) /\ WF_vars(Finalize(p) \/ FinalizeFails(p))

Spec == Init /\ [][Next]_vars /\ Fairness

-----------------------------------------------------------------------------
(* Properties *)

TypeOK == /\ form \in [Page -> FormState]
          /\ typed \in [Page -> Email \cup {None}]
          /\ awaits \in [Page -> TaskId \cup {None}]
          /\ session \in [Page -> UserId \cup {None}]
          /\ task \in [TaskId -> Task]
          /\ users \in [UserId -> User \cup {None}]
          /\ lock \in [Email -> TaskId \cup {None}]

\* However registrations interleave, and whatever happens to the lock that is
\* meant to serialise them, an e-mail belongs to at most one account.
OneAccountPerEmail ==
  \A u, v \in UserId : users[u] # None /\ users[v] # None /\ users[u].email = users[v].email
                         => u = v

\* A browser is only ever logged in as the account of the e-mail its page
\* submitted last, also when tasks of earlier submissions are still running.
SessionIsOwn ==
  \A p \in Page : session[p] # None => /\ users[session[p]] # None
                                       /\ users[session[p]].email = typed[p]

\* The mutex of redis_client is a lease: a task that outlives its time to live
\* never deletes the key of the task that came after it.
L == INSTANCE Lease WITH
       Key <- Email, Client <- TaskId, holder <- lock,
       inside <- [t \in TaskId |-> IF task[t].token THEN task[t].email ELSE None]
LockIsLease == L!Spec

\* A page that polls is answered, by a session, an error or a dead form, unless
\* the worker of its task has died: then, and only then, it polls for ever.
SubmissionAnswered ==
  \A p \in Page :
    (form[p] = "polling") ~> \/ form[p] \in {"ready", "home", "dead"}
                             \/ awaits[p] # None /\ task[awaits[p]].pc = "lost"
=============================================================================
