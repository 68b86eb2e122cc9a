SPECIFICATION Spec
CONSTANTS
  Page = {p1, p2}
  TaskId = {t1, t2}
  Email = {e1, e2}
  UserId = {u1, u2}
  None = None
INVARIANTS OneAccountPerEmail SessionIsOwn
PROPERTIES LockIsLease SubmissionAnswered
