SPECIFICATION Spec
CONSTANTS
  d1 = d1 d2 = d2 s1 = s1 p1 = p1 p2 = p2 c1 = c1
  Digest = {d1}
  Site = {s1}
  Publisher = {p1, p2}
  Collector = {c1}
  Needs <- SharedNeeds
  SiteOf <- SameSite
  Kind <- HttpAndLib
  Pruning = {c1}
  LeaseTTL = 2
  GrantTTL = 1
  Grace = 1
  MaxTime = 2
INVARIANTS TypeOK ReleasesIntact PlanKept LeasesHeld RootsNeverSwept
CHECK_DEADLOCK FALSE
