CONSTANTS
  r1 = r1
  r2 = r2
  w1 = w1
  w2 = w2
  Searchers = {r1, r2}
  Writers = {w1}
  Kinds = {"save", "delete"}
  MaxWrites = 1
  MaxOutages = 1
SPECIFICATION FairSpec
PROPERTY WaiterIsAnswered
