SPECIFICATION Spec
CONSTANTS
  n1 = n1
  d1 = d1
  a1 = a1
  p1 = p1
  s1 = s1
  s2 = s2
  Names <- MCNames
  Custom <- MCCustom
  Assets <- MCAssets
  Projects <- MCProjects
  ProjectOf <- MCProjectOf
  Quota = 1
  Slots <- MCSlots
  MaxTokens = 2
  MaxFaults = 1

SYMMETRY Symmetry
INVARIANTS
  HostsInv
  VerifiedByOwnProof
  QuotaOvershootBounded
  NothingServedAfterTakedown
PROPERTIES
  CooldownHeld
