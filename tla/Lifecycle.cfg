\* Three clients create and drop two consumers; statements fail, drops do not race.
CONSTANTS
  Client = {c1, c2, c3}
  Name = {n1, n2}
  NoName = none
  Serializable = TRUE
  RacingDrops = FALSE
  MaxAttempt = 2
  MaxCreations = 3
  MaxFaults = 2
SYMMETRY Symmetries
SPECIFICATION Spec
INVARIANTS
  OneRowEach
  SubscriptionsFollow
  VisibleIsComplete
PROPERTIES
  DropTakesWhatItSaw
CHECK_DEADLOCK FALSE
