SPECIFICATION Spec
CONSTANTS
  None = None
  a1 = a1
  c1 = c1
  c2 = c2
  p1 = p1
  p2 = p2
  k1 = k1
  s1 = s1
  s2 = s2
  Assets <- MCAssets
  Sites <- MCAssets
  Clients <- MCClients
  Ips <- MCClients
  Address <- MCAddress
  Passwords <- MCPasswords
  Secrets <- MCSecrets
  Slots <- MCSlots
  LimitPerIp = 1
  LimitGlobal = 2
  Window = 1
  MemoTTL = 1
  Lifetime = 1
  MaxTime = 2
  MaxWrites = 3
  MaxRequests = 2
SYMMETRY Interchangeable
INVARIANTS
  AdmissionIsJustified
  LimiterChargesFailures
PROPERTIES
  RetiredCookiesStayRetired
CHECK_DEADLOCK FALSE
