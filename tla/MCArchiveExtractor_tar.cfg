SPECIFICATION FairSpec
CONSTANTS
  N = 4
  Dirs <- MCDirs
  MaxConcurrency = 1
  ChunkSize = 2
  CheckpointEvery = 2
  Sequential = TRUE
  RootPrefix = "root/"
  MaxFaults = 3

PROPERTIES
  EventuallyCompleted
