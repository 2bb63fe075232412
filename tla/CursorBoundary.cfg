SPECIFICATION Spec
CONSTANTS
  Client = {c1, c2}
  Nobody = Nobody
  Table = {a}
  Kind = "dml"
  Backend = "returning"
  MaxWindow = 2
  MaxSnapshot = 3
  Guesses = FALSE
  Resets = FALSE
  Expires = FALSE
  Recreates = FALSE
SYMMETRY Symmetry
INVARIANTS BoundaryAnnounced
CHECK_DEADLOCK FALSE
