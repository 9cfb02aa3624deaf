SPECIFICATION Spec
CONSTANTS
  None = None
  p1 = p1
  v1 = v1
  s1 = s1
  s2 = s2
  Assets <- ProjectAsset
  Owned <- ProjectAsset
  Versions <- OneVersion
  Slots <- TwoSlots
  Kinds <- Racing
  MaxFaults = 1
SYMMETRY Symmetric
INVARIANTS
  TypeOK
  DoomedIsQueued
  RetryFindsTheObject
