\* Three calls, two keys.
CONSTANTS
  Client = {c1, c2, c3}
  Key = {k1, k2}
  Entry = {e1, e2, e3}
  Nothing = nothing
SPECIFICATION FairSpec
INVARIANTS
  InFlightHasBuilder
  WaitHasEnd
PROPERTIES
  WaiterGetsSegment
  EveryCallEnds
