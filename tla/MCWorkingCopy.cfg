SPECIFICATION Spec
CONSTANTS
  Origin <- MCOrigin
  FilePaths <- MCFilePaths
  DirPaths <- MCDirPaths
  MaxCommands = 4
  MaxCommits = 2
  MaxMerges = 1
  VerifyDepth = 4
  EveryTarget = FALSE
INVARIANTS
  WorkApplies
  CommitGoesThrough
PROPERTIES
  WayBack
  MergeKeeps
CHECK_DEADLOCK FALSE
