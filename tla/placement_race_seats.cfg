CONSTANTS
  s1 = s1
  s2 = s2
  l1 = l1
  l2 = l2
  w1 = w1
  w2 = w2
  Students = {s1, s2}
  Slots = {l1}
  Workers = {w1, w2}
  Capacities = {0, 1}
  Ops <- SeatRequests
  MaxCrashes = 1
SPECIFICATION FairSpec
PROPERTIES
  ReservationWithinCapacity
  SeatReleased
CHECK_DEADLOCK FALSE
