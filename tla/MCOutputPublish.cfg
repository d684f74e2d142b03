CONSTANTS
  c1 = c1
  c2 = c2
  a1 = a1
  a2 = a2
  x = x
  y = y
  Callers = {c1, c2}
  Artifacts <- MCArtifacts
  Data = {x, y}
  Cases <- EveryCase
  Absent = Absent
  Foreign = Foreign
  NoDir = NoDir
  ViewFaults = FALSE
  MaxDisturb = 1
  MaxCrashes = 1
SPECIFICATION MCSpec
CHECK_DEADLOCK FALSE
INVARIANTS
  VerdictsTrue
  NoKnownPartialSet
PROPERTIES
  RunsEnd
