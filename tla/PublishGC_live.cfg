SPECIFICATION FairSpec
CONSTANTS
  d1 = d1 d2 = d2 s1 = s1 p1 = p1 p2 = p2 c1 = c1
  Digest = {d1, d2}
  Site = {s1}
  Publisher = {p1}
  Collector = {c1}
  Needs <- OneNeeds
  SiteOf <- OneSite
  Kind <- OneHttp
  Pruning = {c1}
  LeaseTTL = 2
  GrantTTL = 1
  Grace = 1
  MaxTime = 3
INVARIANTS ReleasesIntact PlanKept SweepComplete
PROPERTY PublishCompletes
CHECK_DEADLOCK FALSE
