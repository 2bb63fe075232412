\* The state schema has been created beforehand, and is empty.
CONSTANTS
  c1 = c1
  c2 = c2
  c3 = c3
  p1 = p1
  p2 = p2
  Client <- Threads
  Process = {p1, p2}
  ProcessOf <- Home
  Nobody = nobody
  Backends = {"postgres", "duckdb", "sqlite"}
  Wishes = {"default", "custom"}
  Heedless = FALSE
  Precreated = TRUE
  MaxAttempt = 2
  MaxFaults = 2
SYMMETRY Symmetries
SPECIFICATION Spec
INVARIANTS
  NamesReady
