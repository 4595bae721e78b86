SPECIFICATION FairSpec
CONSTANTS
  PRs <- MCPRs
  Branches <- MCBranches
  Paths <- MCPaths
  DirOf <- MCDirOf
  TopLevel = ""
  SnapshotPaths <- MCSnapshotPaths
  Queues <- MCQueues
  OnlyChoices <- MCOnlyChoices
INVARIANTS
  TypeOK
  MergeOrder
  OnlyCyclesUnplaced
  ExecutesInOrder
PROPERTIES
  SpreadsExactly
  PassEnds
CHECK_DEADLOCK FALSE
