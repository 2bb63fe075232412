\* A backend with snapshot isolation: two creations at once.
CONSTANTS
  Client = {c1, c2}
  Name = {n1}
  NoName = none
  Serializable = FALSE
  RacingDrops = FALSE
  MaxAttempt = 2
  MaxCreations = 2
  MaxFaults = 0
SYMMETRY Symmetries
SPECIFICATION Spec
INVARIANTS
  OneRowEach
CHECK_DEADLOCK FALSE
