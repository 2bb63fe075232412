\* Two clients drop the same consumer while a third one creates it again.
CONSTANTS
  Client = {c1, c2}
  Name = {n1}
  NoName = none
  Serializable = TRUE
  RacingDrops = TRUE
  MaxAttempt = 2
  MaxCreations = 2
  MaxFaults = 0
SYMMETRY Symmetries
SPECIFICATION Spec
PROPERTIES
  DropTakesWhatItSaw
CHECK_DEADLOCK FALSE
