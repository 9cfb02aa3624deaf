SPECIFICATION Spec
CONSTANTS
  N = 3
  Dirs <- MCDirs
  MaxConcurrency = 2
  ChunkSize = 2
  CheckpointEvery = 2
  Sequential = FALSE
  RootPrefix = "root/"
  MaxFaults = 2

INVARIANTS
  NoFileIsLost
