\* A DDL consumer that is created again, for the whole catalog instead of one
\* object, while a call reads it.
CONSTANTS
  Client = {c1}
  Nobody = nobody
  Kinds = {"ddl"}
  Content = {"table", "elsewhere"}
  Notifies = FALSE
  AutoCommits = {FALSE}
  Scopes = {"object", "catalog"}
  Recreates = TRUE
  MaxWindow = 2
  MaxSnapshot = 3
  MaxFaults = 1
SPECIFICATION Spec
INVARIANTS
  NothingSkipped
