CONSTANTS
  s1 = s1
  s2 = s2
  l1 = l1
  l2 = l2
  w1 = w1
  w2 = w2
  Students = {s1}
  Slots = {l1, l2}
  Workers = {w1}
  Capacities = {1}
  Ops <- SerialRequests
  MaxCrashes = 0
SPECIFICATION Spec
SYMMETRY Symmetry
INVARIANTS
  PaidPaymentStaysPaid
  PendingIsPayable
  FullSlotIsFull
  PaidAcceptanceStands
  CreditConservation
  MoneyGetsThePlace
