\* Three calls, one key: a waiter erases the key of a newer entry.
CONSTANTS
  Client = {c1, c2, c3}
  Key = {k1}
  Entry = {e1, e2, e3}
  Nothing = nothing
SPECIFICATION Spec
INVARIANTS
  OneBuilder
