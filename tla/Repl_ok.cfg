SPECIFICATION Spec
CONSTANTS
  RouteNames = {"pi", "m1"}
  URLs = {"u1"}
  BadURLs = {"ssh:"}
  RouteModels = {"m2"}
  NoRoute = NoRoute
  Removed = Removed
  Unnamed = Unnamed
  NoLine = NoLine
  RouteFiles <- MCRouteFiles
  RouteFaults = {"unwritable", "full"}
  URIs = {"sftp:a", "sftp:e", "http:b", "s3:c", "d"}
  SchemeOf <- MCSchemeOf
  Contents <- MCContents
  ChunkSize = 2
  MaxHTTPResponse = 2
  MaxHops = 1
  Credentials = {"sftp:a"}
  ServerKeys = {"k1", "k2"}
  HostKey = "k1"
  MaxChanges = 1
  Typed <- MCTyped
  Aliases <- MCAliases
  Tags <- MCTags
  Flaky = {"fast", "code"}
  Sees = {"m1"}
  Images = {"http:b"}
  MaxLines = 3
  MaxStarts = 2
INVARIANTS AddressedStays RoutesReadBack StatusIsFirst
PROPERTIES FetchedWhole
CHECK_DEADLOCK FALSE
