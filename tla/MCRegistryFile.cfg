CONSTANTS
  Programs = {p, q}
  Absent = Absent
  Special = Special
  Junk = Junk
  MaxCalls = 2
  MaxTotal = 3
  MaxDisturb = 1
  MaxCrashes = 1
  Faults = TRUE
SPECIFICATION Spec
SYMMETRY Symmetric
CHECK_DEADLOCK FALSE
INVARIANTS
  AcknowledgedStays
  ImportsFreshImage
