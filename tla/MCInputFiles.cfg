CONSTANTS
  Graphs <- MCGraphs
  MaxLocator = 8
  AnyClass = 99
  Classes = {1}
  Plans <- MCPlans
  Inputs <- MCInputs
  Blocks <- MCBlocks
  Sizes = {0, 4, 5, 6, 8, 9}
  Alignment = 4
  InfoMinimum = 3
  FinalLiterals = 2
  LastMatchDistance = 5
  InputFiles = {"f", "g"}
  NoFile = "none"
  Given <- MCGiven
  Rewrites <- MCRewrites
  Archives <- MCArchives
  InputFaults = TRUE
  MaxChanges = 2
SPECIFICATION InputSpec
INVARIANTS
  ResolvesExactly
  BundleExact
  SnapshotFaithful
CHECK_DEADLOCK FALSE
