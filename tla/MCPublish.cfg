CONSTANTS
  p1 = p1
  p2 = p2
  p3 = p3
  Publishers = {p1, p2}
  Dirs = {d1, d2}
  Blocks = 1
  Absent = Absent
  Foreign = Foreign
  NoDir = NoDir
  Platform <- TwoHosts
  Faults = TRUE
  Hostile = FALSE
  MaxEnv = 1
  MaxCrashes = 1
SPECIFICATION MCSharedSpec
SYMMETRY DirSymmetry
INVARIANTS
  NeverPartial
  OkSurvives
  RefusalJustified
  ResidueOnlyOnIoError
PROPERTIES
  NeverOverwrites
  ImplementsWriteOnce
  WithdrawsOnlyItsOwn
CHECK_DEADLOCK FALSE
