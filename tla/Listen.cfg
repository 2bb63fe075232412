\* Both kinds of consumer, two applications, notifications.
CONSTANTS
  Client = {c1, c2}
  Nobody = nobody
  Kinds = {"ddl", "dml"}
  Content = {"table", "rows", "touch"}
  Notifies = TRUE
  AutoCommits = {TRUE, FALSE}
  Scopes = {"object"}
  Recreates = TRUE
  MaxWindow = 1
  MaxSnapshot = 2
  MaxFaults = 1
SPECIFICATION Spec
SYMMETRY Symmetry
INVARIANTS
  NothingSkipped
  NoLostWakeup
  WindowReachesMatch
PROPERTIES
  ImplementsDelivery
