SPECIFICATION Spec
CONSTANTS
  Client = {c1, c2}
  Nobody = Nobody
  Table = {a}
  Kind = "dml"
  Backend = "sqlite"
  MaxWindow = 2
  MaxSnapshot = 2
  Guesses = FALSE
  Resets = TRUE
  Expires = FALSE
  Recreates = FALSE
SYMMETRY Symmetry
INVARIANTS PinnedShape SafeRangeSound WindowExact
PROPERTIES CursorMonotone ImplementsCursorSpec
CHECK_DEADLOCK FALSE
