\* Polling, and applications that commit what they were given.
CONSTANTS
  Client = {c1, c2}
  Nobody = nobody
  Kinds = {"ddl", "dml"}
  Content = {"table", "rows", "touch"}
  Notifies = FALSE
  AutoCommits = {FALSE}
  Scopes = {"object"}
  Recreates = FALSE
  MaxWindow = 1
  MaxSnapshot = 2
  MaxFaults = 1
SPECIFICATION FairSpec
PROPERTIES
  EventuallyDelivered
