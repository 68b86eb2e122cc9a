CONSTANTS
  r1 = r1
  r2 = r2
  w1 = w1
  w2 = w2
  Searchers = {r1, r2}
  Writers = {w1}
  Kinds = {"save", "apply", "expire"}
  MaxWrites = 1
  MaxOutages = 0
SPECIFICATION Spec
SYMMETRY Symmetry
VIEW View
INVARIANTS
  ShowsCompletedWrites
  CurrentListingIsFresh
