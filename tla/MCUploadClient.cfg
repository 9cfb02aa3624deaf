SPECIFICATION MCSpec
CONSTANTS
  None = None
  p1 = p1
  p2 = p2
  u1 = u1
  u2 = u2
  i1 = i1
  i2 = i2
  i3 = i3
  Clients <- MCClients
  Uploads <- MCUploads
  Ids <- MCIds
  Project = Project
  Blank = Blank
  Commands <- MCCommands
  Deployments <- MCDeployments
  Parts = 3
  GzipParts = 2
  MaxConcurrency = 2
  Retries = 1
  MaxTokens = 3
  MaxFaults = 1
SYMMETRY Symmetric
INVARIANTS
  FinishedUploadIsWhole
  AssetsStayWithTheirOpener
  LoneUploadsAreAccepted
  RefreshTokenIsUsable
CHECK_DEADLOCK FALSE
