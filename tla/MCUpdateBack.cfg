SPECIFICATION Spec
CONSTANTS
  Origin <- MCOrigin
  FilePaths <- MCFilePaths
  DirPaths <- MCDirPaths
  MaxCommands = 3
  MaxCommits = 1
  MaxMerges = 0
  VerifyDepth = 4
  EveryTarget = TRUE
PROPERTIES
  UpdateArrives
CHECK_DEADLOCK FALSE
