----------------------------- MODULE PaymentPage -----------------------------
(***************************************************************************)
(* The page that asks for a payment (static/js/payments.js): the button    *)
(* requests a prompt on the student's handset, then the page polls the     *)
(* payment's status every three seconds, twenty times at most.  The server *)
(* and the gateway are reduced to what they make of the payment's status;  *)
(* Placement has them in full.                                             *)
(***************************************************************************)
EXTENDS Naturals

CONSTANTS MaxAttempts,  \* twenty in the code
          MaxClicks     \* bound: clicks on the button

\* Assumed where the module is instantiated.
PageAssumption == MaxAttempts \in Nat /\ MaxClicks \in Nat

VARIABLES
  payment,  \* the payment's status in the database
  button,   \* the button is enabled
  clicks,   \* clicks so far
  prompts,  \* requests to initiate the payment
  pollers,  \* loops of checkStatus
  message   \* the last outcome the page has shown

pageVars == <<payment, button, clicks, prompts, pollers, message>>

Status == {"PENDING", "PAID", "FAILED"}

\* A request: whether the page waits for it, and how far the server has come.
Prompt == [id: 1..MaxClicks, waited: BOOLEAN,
           state: {"sent", "checked", "pushed", "refused", "ok", "error"}]

\* A loop: between two requests, with a request on its way, or with its answer.
Poller == [id: 1..MaxClicks, attempts: 0..MaxAttempts,
           state: {"timer", "asked"} \cup Status]

Init == /\ payment \in Status
        /\ button = TRUE
        /\ clicks = 0
        /\ prompts = {}
        /\ pollers = {}
        /\ message = "none"

Click == /\ button /\ clicks < MaxClicks
         /\ clicks' = clicks + 1
         /\ button' = FALSE
         /\ message' = "none"
         /\ prompts' = prompts \cup {[id |-> clicks', waited |-> TRUE, state |-> "sent"]}
         /\ UNCHANGED <<payment, pollers>>

Prompted(p, state) == prompts' = (prompts \ {p}) \cup {[p EXCEPT !.state = state]}

\* The serializer: an application that is not paid, among others.  (is_paid, which
\* no write takes back, refuses a payment that was set back as well.)
CheckPrompt(p) == /\ p \in prompts /\ p.state = "sent"
                  /\ \/ Prompted(p, "refused")
                     \/ payment # "PAID" /\ Prompted(p, "checked")
                  /\ UNCHANGED <<payment, button, clicks, pollers, message>>

\* The row is created or set back, whatever became of it since the check.
ResetPayment(p) == /\ p \in prompts /\ p.state = "checked"
                   /\ payment' = "PENDING"
                   /\ Prompted(p, "pushed")
                   /\ UNCHANGED <<button, clicks, pollers, message>>

\* The gateway takes the prompt, refuses it, or the request ends in an exception.
PushAnswered(p) == /\ p \in prompts /\ p.state = "pushed"
                   /\ \/ UNCHANGED payment /\ Prompted(p, "ok")
                      \/ payment' = "FAILED" /\ Prompted(p, "error")
                      \/ UNCHANGED payment /\ Prompted(p, "error")
                   /\ UNCHANGED <<button, clicks, pollers, message>>

\* Mutant: the button is enabled as soon as the prompt is out.
PromptEnables(p) ==
  /\ p \in prompts /\ p.waited /\ p.state \in {"refused", "ok", "error"}
  /\ prompts' = prompts \ {p}
  /\ button' = TRUE
  /\ IF p.state = "ok"
     THEN /\ pollers' = pollers \cup {[id |-> p.id, attempts |-> 0, state |-> "timer"]}
          /\ UNCHANGED message
     ELSE /\ message' = "error"
          /\ UNCHANGED pollers
  /\ UNCHANGED <<payment, clicks>>

PromptArrives(p) ==
  /\ p \in prompts /\ p.waited /\ p.state \in {"refused", "ok", "error"}
  /\ prompts' = prompts \ {p}
  /\ IF p.state = "ok"
     THEN /\ pollers' = pollers \cup {[id |-> p.id, attempts |-> 0, state |-> "timer"]}
          /\ UNCHANGED <<button, message>>
     ELSE /\ button' = TRUE
          /\ message' = "error"
          /\ UNCHANGED pollers
  /\ UNCHANGED <<payment, clicks>>

\* The connection breaks; the request may be at the server all the same.
PromptLost(p) == /\ p \in prompts /\ p.waited
                 /\ prompts' = (prompts \ {p}) \cup {[p EXCEPT !.waited = FALSE]}
                 /\ button' = TRUE
                 /\ message' = "error"
                 /\ UNCHANGED <<payment, clicks, pollers>>

Loop(p, q) == pollers' = (pollers \ {p}) \cup {q}

EndLoop(p, outcome, enable) == /\ pollers' = pollers \ {p}
                               /\ message' = outcome
                               /\ button' = enable

\* Mutant: the attempts are not counted.
CheckStatusForever(p) == /\ p \in pollers /\ p.state = "timer"
                         /\ Loop(p, [p EXCEPT !.state = "asked"])
                         /\ UNCHANGED <<payment, button, clicks, prompts, message>>

CheckStatus(p) == /\ p \in pollers /\ p.state = "timer"
                  /\ IF p.attempts = MaxAttempts
                     THEN EndLoop(p, "timeout", TRUE)
                     ELSE /\ Loop(p, [p EXCEPT !.attempts = @ + 1, !.state = "asked"])
                          /\ UNCHANGED <<button, message>>
                  /\ UNCHANGED <<payment, clicks, prompts>>

\* PaymentStatusCheckView.
ReadStatus(p) == /\ p \in pollers /\ p.state = "asked"
                 /\ Loop(p, [p EXCEPT !.state = payment])
                 /\ UNCHANGED <<payment, button, clicks, prompts, message>>

StatusArrives(p) ==
  /\ p \in pollers /\ p.state \in Status
  /\ CASE p.state = "PAID" -> EndLoop(p, "paid", button)
       [] p.state = "FAILED" -> EndLoop(p, "failed", TRUE)
       [] OTHER -> Loop(p, [p EXCEPT !.state = "timer"]) /\ UNCHANGED <<button, message>>
  /\ UNCHANGED <<payment, clicks, prompts>>

\* An answer that does not come, or is no JSON.
StatusFails(p) == /\ p \in pollers /\ p.state # "timer"
                  /\ Loop(p, [p EXCEPT !.state = "timer"])
                  /\ UNCHANGED <<payment, button, clicks, prompts, message>>

\* PaymentWebhookView: the first callback decides.
Webhook(s) == /\ payment = "PENDING"
              /\ payment' = s
              /\ UNCHANGED <<button, clicks, prompts, pollers, message>>

Step == \/ \E p \in prompts : \/ CheckPrompt(p) \/ ResetPayment(p) \/ PushAnswered(p)
                             \/ PromptArrives(p) \/ PromptLost(p)
        \/ \E p \in pollers : CheckStatus(p) \/ ReadStatus(p) \/ StatusArrives(p)
                              \/ StatusFails(p)

Next == Click \/ Step \/ \E s \in {"PAID", "FAILED"} : Webhook(s)

TypeOK == /\ payment \in Status
          /\ button \in BOOLEAN
          /\ clicks \in 0..MaxClicks
          /\ prompts \subseteq Prompt
          /\ pollers \subseteq Poller
          /\ message \in {"none", "error", "failed", "timeout", "paid"}

\* The page polls for one prompt at a time, never while its button can ask for
\* another.  What it reports as paid is paid, but for one case: a prompt the page
\* gave up for lost was past its check, and set the payment back or failed it.
OnePrompt ==
  /\ \A p, q \in pollers : p = q
  /\ pollers # {} => ~button /\ \A p \in prompts : ~p.waited
  /\ message = "paid" /\ payment # "PAID" =>
       \E p \in prompts : ~p.waited /\ p.state \in {"pushed", "ok", "error"}
=============================================================================
