SPECIFICATION Spec
CONSTANTS
  d1 = d1 r1 = r1 r2 = r2 g1 = g1
  Digest = {d1}
  Refresher = {r1, r2}
  Reader = {g1}
  Asks <- Overlapping
  TTLs = {1, 2}
  Pruning = {g1}
  Crashes = TRUE
  MaxTime = 3
INVARIANTS TypeOK ActiveComplete
PROPERTY ShortenedOnlyByRaces
CHECK_DEADLOCK FALSE
