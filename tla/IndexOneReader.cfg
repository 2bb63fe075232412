SPECIFICATION Spec
CONSTANTS
  Reader = {r1}
  Capacity = 3
  MaxSnapshot = 6
  Resets = TRUE
INVARIANTS NoSnapshotMissed
CHECK_DEADLOCK FALSE
