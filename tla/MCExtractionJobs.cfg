SPECIFICATION MCSpec
CONSTANTS
  a1 = a1
  v1 = v1
  Jobs <- AssetAndVersion
  Own <- AssetJob
  Asset <- OfAsset
  MaxRetries = 1
  PerTick = 1
  MaxAttempts = 2
  Total = 1
  MaxMessages = 1
  MaxHandlers = 1
  MaxFaults = 1
  MaxRequests = 1
INVARIANTS
  RetryCountEarned
  MirrorsAgree
PROPERTIES
  EventuallySettled
  DriftIsHealed
CHECK_DEADLOCK FALSE
