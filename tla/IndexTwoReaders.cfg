SPECIFICATION Spec
CONSTANTS
  Reader = {r1, r2}
  Capacity = 6
  MaxSnapshot = 5
  Resets = FALSE
SYMMETRY Symmetry
INVARIANTS NoSnapshotMissed
CHECK_DEADLOCK FALSE
