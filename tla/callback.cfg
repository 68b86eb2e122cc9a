SPECIFICATION Spec
CONSTANTS
  Call = {c1, c2}
  Request = {d1, d2}
  MaxCrashes = 1
  None = None
INVARIANTS PaidHasItsPlace
PROPERTIES VerifiedStaysVerified CallIsAnswered
