SPECIFICATION FairSpec
CONSTANTS
  N = 4
  Dirs <- MCDirs
  MaxConcurrency = 2
  ChunkSize = 2
  CheckpointEvery = 2
  Sequential = FALSE
  RootPrefix = "root/"
  MaxFaults = 2

INVARIANTS
  StoredCheckpointResumable
  ManifestAccountsForEveryFile
  IInv
PROPERTIES
  StoredPhaseNeverRegresses
  CompletionIsNotRedone
  OutcomeIsDecidedOnce
