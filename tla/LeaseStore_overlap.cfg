SPECIFICATION Spec
CONSTANTS
  d1 = d1 r1 = r1 r2 = r2 g1 = g1
  Digest = {d1}
  Refresher = {r1, r2}
  Reader = {g1}
  Asks <- Overlapping
  TTLs = {2}
  Pruning = {}
  Crashes = FALSE
  MaxTime = 3
PROPERTY NeverShortened
CHECK_DEADLOCK FALSE
