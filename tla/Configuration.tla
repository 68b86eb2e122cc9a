---------------------------- MODULE Configuration ----------------------------
(***************************************************************************)
(* What administrators configure in the console: the platform settings and *)
(* the message templates (admin_settings and notification_templates of     *)
(* core/views.py), and the audit log of both.  A settings form is saved    *)
(* row by row, so that two administrators interleave.                      *)
(***************************************************************************)
EXTENDS Naturals

CONSTANTS Admins,        \* requests of the console at the same time
          SettingCount,  \* settings 1..SettingCount, in the order of the form
          Numbers,       \* those whose field is read as a number
          Templates,     \* keys of templates
          MaxForms       \* bound: forms that are sent

Setting == 1..SettingCount
Key == Setting \cup Templates
Form == 1..MaxForms

ASSUME ConfigurationAssumption ==
  /\ SettingCount \in Nat \ {0} /\ MaxForms \in Nat
  /\ Numbers \subseteq Setting
  /\ Setting \cap Templates = {}

VARIABLES
  row,      \* row[k]: the form whose values the row of k has, Default or NoRow
  request,  \* request[a]: the POST of administrator a
  log,      \* the forms that the audit log tells of
  forms,    \* history: forms sent so far
  fields,   \* history: fields[n] are the keys form n is about,
  before,   \*   before[n] the forms that were over when it was sent,
  over      \*   and over those that are over now

configVars == <<row, request, log, forms, fields, before, over>>
sent == <<forms, fields, before>>

\* A row that get_or_create made and that has not been saved since.
Default == 0
NoRow == MaxForms + 1

NoRequest == [pc |-> "idle", form |-> 0, key |-> 1]

ConfigInit == /\ row = [k \in Key |-> NoRow]
              /\ request = [a \in Admins |-> NoRequest]
              /\ log = {}
              /\ forms = 0
              /\ fields = [n \in Form |-> {}]
              /\ before = [n \in Form |-> {}]
              /\ over = {}

Does(a, pc) == request[a].pc = pc

\* Administrator a sends a form about keys; the first row to look at is k.
Send(a, pc, keys, k) ==
  /\ Does(a, "idle")
  /\ forms < MaxForms
  /\ forms' = forms + 1
  /\ fields' = [fields EXCEPT ![forms + 1] = keys]
  /\ before' = [before EXCEPT ![forms + 1] = over]
  /\ request' = [request EXCEPT ![a] = [pc |-> pc, form |-> forms + 1, key |-> k]]
  /\ UNCHANGED <<row, log, over>>

Proceed(a, pc, k) == request' = [request EXCEPT ![a].pc = pc, ![a].key = k]

\* The request is answered, raises or dies.
Over(a) == /\ over' = over \cup {request[a].form}
           /\ request' = [request EXCEPT ![a] = NoRequest]

-----------------------------------------------------------------------------
(* admin_settings: the form has all settings, and all are saved            *)

SendSettings(a) == Send(a, "get", Setting, 1)

GetSetting(a) ==
  LET k == request[a].key
  IN  /\ Does(a, "get")
      /\ row' = [row EXCEPT ![k] = IF @ = NoRow THEN Default ELSE @]
      /\ Proceed(a, "save", k)
      /\ UNCHANGED <<log, over, sent>>

\* float() of what is no number: in the defaults of get_or_create, before there
\* is a row.  The settings in front of it stay saved.
SettingRaises(a) == /\ Does(a, "get")
                    /\ request[a].key \in Numbers
                    /\ Over(a)
                    /\ UNCHANGED <<row, log, sent>>

\* Mutant: the value goes into the defaults of get_or_create and nowhere else.
SaveNewSetting(a) ==
  LET k == request[a].key
  IN  /\ Does(a, "save")
      /\ row' = [row EXCEPT ![k] = IF @ = Default THEN request[a].form ELSE @]
      /\ IF k = SettingCount THEN Proceed(a, "audit", k) ELSE Proceed(a, "get", k + 1)
      /\ UNCHANGED <<log, over, sent>>

SaveSetting(a) ==
  LET k == request[a].key
  IN  /\ Does(a, "save")
      /\ row' = [row EXCEPT ![k] = request[a].form]
      /\ IF k = SettingCount THEN Proceed(a, "audit", k) ELSE Proceed(a, "get", k + 1)
      /\ UNCHANGED <<log, over, sent>>

-----------------------------------------------------------------------------
(* notification_templates: one template, in a transaction of its own       *)

SendTemplate(a, t) == Send(a, "template", {t}, t)

SaveTemplate(a) ==
  LET t == request[a].key
  IN  /\ Does(a, "template")
      /\ row' = [row EXCEPT ![t] = request[a].form]
      /\ Proceed(a, "audit", t)
      /\ UNCHANGED <<log, over, sent>>

\* No key or no name, or a value that the database refuses.
TemplateRefused(a) == /\ Does(a, "template")
                      /\ Over(a)
                      /\ UNCHANGED <<row, log, sent>>

-----------------------------------------------------------------------------
LogForm(a) == /\ Does(a, "audit")
              /\ log' = log \cup {request[a].form}
              /\ Over(a)
              /\ UNCHANGED <<row, sent>>

AdminDies(a) == /\ ~Does(a, "idle")
                /\ Over(a)
                /\ UNCHANGED <<row, log, sent>>

ConfigNext ==
  \E a \in Admins :
    \/ SendSettings(a) \/ GetSetting(a) \/ SettingRaises(a) \/ SaveSetting(a)
    \/ \E t \in Templates : SendTemplate(a, t)
    \/ SaveTemplate(a) \/ TemplateRefused(a)
    \/ LogForm(a) \/ AdminDies(a)

ConfigSpec == ConfigInit /\ [][ConfigNext]_configVars

-----------------------------------------------------------------------------
(* Properties *)

ConfigTypeOK ==
  /\ row \in [Key -> Form \cup {Default, NoRow}]
  /\ request \in [Admins -> [pc: {"idle", "get", "save", "template", "audit"},
                             form: Form \cup {0}, key: Key]]
  /\ log \subseteq over /\ over \subseteq Form
  /\ forms \in 0..MaxForms
  /\ fields \in [Form -> SUBSET Key] /\ before \in [Form -> SUBSET Form]

\* The row of k has the values of form n, or of one that was not over when n
\* was sent: of the two, neither came first.
Stands(n, k) == row[k] \in Form /\ (row[k] = n \/ row[k] \notin before[n])

\* What the audit log says was saved can be found, whoever else saves settings
\* or templates at the same time: no row is left as it was before a form that
\* the log tells of, and none is forgotten.
AuditedFormsStand == \A n \in log : \A k \in fields[n] : Stands(n, k)
=============================================================================
