SPECIFICATION Spec
CONSTANTS
  Reader = {r1, r2}
  Capacity = 2
  MaxSnapshot = 4
  Resets = FALSE
SYMMETRY Symmetry
INVARIANTS NoHoleAhead LeaderMissesNothing WithinCapacity
CHECK_DEADLOCK FALSE
