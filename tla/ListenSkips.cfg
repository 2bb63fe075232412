\* A DDL consumer of everything, and a catalog in which views come and go.
CONSTANTS
  Client = {c1}
  Nobody = nobody
  Kinds = {"ddl"}
  Content = {"table", "view", "other"}
  Notifies = FALSE
  AutoCommits = {FALSE}
  Scopes = {"catalog"}
  Recreates = FALSE
  MaxWindow = 2
  MaxSnapshot = 3
  MaxFaults = 1
SPECIFICATION Spec
INVARIANTS
  NothingSkipped
