SPECIFICATION Spec
CONSTANTS
  d1 = d1 d2 = d2 s1 = s1 p1 = p1 p2 = p2 c1 = c1
  Digest = {d1}
  Site = {s1}
  Publisher = {p1}
  Collector = {c1}
  Needs <- SingleNeeds
  SiteOf <- OneSite
  Kind <- OneHttp
  Pruning = {}
  LeaseTTL = 2
  GrantTTL = 1
  Grace = 1
  MaxTime = 3
INVARIANT CommittedBlobsKept
CHECK_DEADLOCK FALSE
