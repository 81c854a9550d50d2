SPECIFICATION Spec
CONSTANTS
  d1 = d1 d2 = d2 p1 = p1 p2 = p2 blog = blog shop = shop
  Site = {blog, shop}
  Digest = {d1, d2}
  Publisher = {p1, p2}
  Scenarios <- Scenes
  None = None
  GrantTTL = 2
  MaxTime = 3
INVARIANTS TypeOK CommittedIsWhole GrantsInForce BodiesDoNotExtend
  EffectsPermitted ReadyToCommit BlameIsRight
PROPERTIES WholeStaysWhole PlansInForce
CHECK_DEADLOCK FALSE
