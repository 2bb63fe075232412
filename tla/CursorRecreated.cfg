SPECIFICATION Spec
CONSTANTS
  Client = {c1, c2}
  Nobody = Nobody
  Table = {a, b}
  Kind = "dml"
  Backend = "returning"
  MaxWindow = 2
  MaxSnapshot = 1
  Guesses = TRUE
  Resets = TRUE
  Expires = FALSE
  Recreates = TRUE
SYMMETRY Symmetry
INVARIANTS TypeOK WindowExact
CHECK_DEADLOCK FALSE
