SPECIFICATION Spec
CONSTANTS
  Client = {c1, c2}
  Nobody = Nobody
  Table = {a, b}
  Kind = "dml"
  Backend = "returning"
  MaxWindow = 2
  MaxSnapshot = 2
  Guesses = FALSE
  Resets = FALSE
  Expires = FALSE
  Recreates = TRUE
VIEW WithoutWindows
SYMMETRY Symmetry
PROPERTIES CommitRespectsBoundary
CHECK_DEADLOCK FALSE
