SPECIFICATION Spec
CONSTANTS
  Record = {r1, r2}
  Value = {v1, v2}
  Writer = {w1, w2}
  RowId = {1, 2, 3}
  Edited = Edited
  Gone = Gone
  None = None
INVARIANTS AncestryIsRooted SealedStateHasRow EditedRowIsReported UnsealedChangeIsReported
SYMMETRY MCSymmetry
CHECK_DEADLOCK FALSE
