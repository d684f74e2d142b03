CONSTANTS
  ArgumentLists <- AllLists
  MaxArguments = 2
  MaxBytes = 4
  Timed = {TRUE, FALSE}
  Ignoring = {TRUE, FALSE}
  Codes = {"0", "signal"}
  Descendants = {"d1", "d2"}
  Faults = TRUE
SPECIFICATION FairSpec
CHECK_DEADLOCK FALSE
INVARIANTS
  KillsOnlyOwn
  Contained
  OkIsTheChilds
PROPERTIES
  CallReturns
