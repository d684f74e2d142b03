CONSTANTS
  Names = {1, 2}
  MaxLength = 3
  Directories = {"top", "a", "b", "away", "new"}
  Root = "top"
  Links = {"link"}
  Leads <- MCLeads
  Trees <- MCTrees
  InputLists <- MCInputs
  Options <- MCOptions
  Collections <- MCCollections
  MaxChanges = 2
  Patterns <- MCPatterns
  Subjects <- MCSubjects
  Encodings <- MCEncodings
  PathTexts <- MCPathTexts
  PathPairs <- MCPathPairs
  SizeMax = 31
  FirstCapacity = 4
  Capacities = {0, 1, 3, 12, 20}
  Lengths = {0, 1, 2, 5, 9, 30, 31}
  MaxCalls = 6
  BlockSize = 5
  LengthAt = 3
  MaxMessage = 11
  Subject = {"discovery", "text", "builder", "digest"}
SPECIFICATION CommonSpec
CHECK_DEADLOCK FALSE
INVARIANTS
  ListsWhatWasThere
  TextExact
  BuilderExact
  DigestOfTheWhole
