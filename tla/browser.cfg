SPECIFICATION MCSpec
CONSTANTS
  r1 = r1
  r2 = r2
  d1 = d1
  d2 = d2
  w1 = w1
  w2 = w2
  word = word
  None = None
  Region = {r1, r2}
  District = {d1, d2}
  Ward = {w1, w2}
  Word = {word}
  RegionOf <- MCRegionOf
  DistrictOf <- MCDistrictOf
  Slot = {1, 2, 3}
  Finds <- MCFinds
  PageSize = 1
  MaxChanges = 1
  MaxPlaceLoads = 4
  MaxPageLoads = 3
  MaxAttempts = 2
  MaxClicks = 3
INVARIANTS PlacesAgree ListIsComplete 
PROPERTIES WaitingEnds
CHECK_DEADLOCK FALSE
