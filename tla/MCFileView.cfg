CONSTANTS
  Objects = {o1, o2}
  Values = {a, b}
  Modes = {m1, m2}
  MaxChunks = 2
  Limits = {1, 2}
  Capacity = 1
  Absent = Absent
  NotRegular = NotRegular
  NoStat = NoStat
  Faults = TRUE
  MaxMutations = 2
SPECIFICATION Spec
SYMMETRY Symmetry
INVARIANTS
  StableRead
  GenuineView
CHECK_DEADLOCK FALSE
