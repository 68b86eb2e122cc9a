CONSTANTS
  s1 = s1
  l1 = l1
  w1 = w1
  w2 = w2
  Students = {s1}
  Slots = {l1}
  Workers = {w1, w2}
  Capacities = {1}
  Ops <- Requests
  MaxCrashes = 1
SPECIFICATION RaceSpec
SYMMETRY Symmetry
INVARIANTS
  NoFreePlacement
  PaidPlaceStands
CHECK_DEADLOCK FALSE
