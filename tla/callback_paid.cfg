SPECIFICATION Spec
CONSTANTS
  Call = {c1, c2}
  Request = {d1}
  MaxCrashes = 0
  None = None

PROPERTY ReportedPaidIsRecorded
