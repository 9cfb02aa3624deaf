SPECIFICATION Spec
CONSTANTS
  a1 = a1
  v1 = v1
  v2 = v2
  None = None
  Asset <- a1
  Versions <- MCVersions
  Archive <- MCArchive
  Content <- MCContent
  Single <- MCSingle
  HeadersFile <- MCHeadersFile
  RedirectsFile <- MCRedirectsFile
  Visits <- MCVisits
  Suffix <- MCSuffix
  BaseHost <- MCBaseHost
  RegistrableDomain <- MCDomain
  LoopbackHosts <- MCLoopback
  CredentialedOrigins <- MCOrigins
  ThumbnailSizes = {"xs"}
  ThumbnailFiles <- MCThumbnailFiles
  MaxBody = 1
  NoQuery = None
  Sites <- MCSites
  IdOf <- MCIdOf
  NumberOf <- MCNumberOf
  FileShaped = {"index.html", "404.html"}
  DeniedNow <- MCDeniedNow
  DeniedHeaders <- MCDenied
  MalformedNames = {}
  Placeholders <- MCPlaceholders
  Schemes <- MCSchemes
  Odd <- MCOdd
  MaxHeaderRules = 2
  MaxHeadersPerRule = 3
  MaxRedirectRules = 6
  MaxHostingRules = 8
  MaxWrites = 2
INVARIANTS OnlookersSeeOpenFiles ImmutableMeansImmutable RangesAreExact DeliveryOutranksRules
CHECK_DEADLOCK FALSE
