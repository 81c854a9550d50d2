SPECIFICATION Spec
CONSTANTS
  Nothing = Nothing None = None Absent = Absent Torn = Torn NoToken = NoToken
  DnsLabel <- MCDnsLabel
  Slug = {"a", "b", "u_"}
  Configs <- MCConfigs
  Hosts <- MCHosts
  Manifest = {"twins", "plain", "wrong"}
  Files <- MCFiles
  Image <- MCImageNames
  Content <- MCContent
  Body = {"x", "y"}
  SizeOf <- MCSizeOf
  Bare = {"html"}
  Exports <- MCExports
  Refs = {"latest", "v2"}
  Found <- MCFound
  MaxExports = 2
  MaxReads = 1
  Keys = {1, 2, 3, 4}
  BlobKeys = {1, 3}
  MaxKeys = 2
  MaxPages = 4
  MaxChanges = 2
  Readiness = 4
  ProbeTimeout = 2
  RetryDelay = 1
  Grace = 2
  ToolTimeout = 1
INVARIANTS PeripheryTypeOK NoHalfDeployment HostReachesOneSite LayoutReadsExactly
  ListingIsComplete ReadyMeansReady FailureLeavesNothing
PROPERTY Settles
CHECK_DEADLOCK FALSE
