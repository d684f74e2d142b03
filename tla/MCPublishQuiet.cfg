CONSTANTS
  p1 = p1
  p2 = p2
  p3 = p3
  Publishers = {p1, p2, p3}
  Dirs = {d1}
  Blocks = 1
  Absent = Absent
  Foreign = Foreign
  NoDir = NoDir
  Platform <- MixedHosts
  Faults = FALSE
  Hostile = TRUE
  MaxEnv = 1
  MaxCrashes = 0
SPECIFICATION MCQuietSpec
INVARIANTS
  OneWinner
PROPERTIES
  EveryCallReturns
CHECK_DEADLOCK FALSE
