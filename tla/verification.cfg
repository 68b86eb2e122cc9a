SPECIFICATION MCSpec
CONSTANTS
  Company = {c1}
  Student = {s1}
  DocType = {brela}
  DocId = {d1}
  Worker = {w1, w2}
  MaxEdits = 2
  MaxFaults = 2
  None = None
  Admins = {a1, a2}
  SettingCount = 2
  Numbers = {1, 2}
  Templates = {receipt}
  MaxForms = 3
INVARIANTS ApprovedWasVetted PostedWasVetted NoEditIsLost ReviewIsWhole AnsweredMeansQueued AuditMatchesDeeds AuditedFormsStand
CHECK_DEADLOCK FALSE
