SPECIFICATION FairSpec
CONSTANTS
  None = None
  p1 = p1
  v1 = v1
  s1 = s1
  s2 = s2
  Assets <- ProjectAsset
  Owned <- ProjectAsset
  Versions <- OneVersion
  Slots <- OneSlot
  Kinds <- AllKinds
  MaxFaults = 1
INVARIANTS
  UsageExactInSequence
  ExtractionKeepsItsArchive
PROPERTIES
  DoomedIsReclaimed
