SPECIFICATION Spec
CONSTANTS
  s1 = s1 w0 = w0 w1 = w1 w2 = w2 w3 = w3 w4 = w4
  Absent = Absent Torn = Torn Null = Null Whole = Whole
  Slug = {s1}
  Worker = {w0, w1, w2, w3, w4}
  Kind <- Mixed
  SlugOf <- OneSlug
  Crashes = TRUE
  Scans = TRUE
INVARIANTS TypeOK PointerNeverDangles IndexNeverDangles ScanComplete
  SiteIsStable OnlyAskedForIsActive ServedReleaseIsThere
CHECK_DEADLOCK FALSE
