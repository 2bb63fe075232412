SPECIFICATION Spec
CONSTANTS
  Client = {c1, c2}
  Nobody = Nobody
  Table = {a}
  Kind = "ddl"
  Backend = "postgres"
  MaxWindow = 2
  MaxSnapshot = 3
  Guesses = FALSE
  Resets = TRUE
  Expires = TRUE
  Recreates = TRUE
VIEW WithoutTables
SYMMETRY Symmetry
INVARIANTS WindowExact
PROPERTIES CommitLandsOnSnapshot ImplementsCursorSpec
CHECK_DEADLOCK FALSE
