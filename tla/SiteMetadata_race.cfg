SPECIFICATION Spec
CONSTANTS
  s1 = s1 w0 = w0 w1 = w1 w2 = w2 w3 = w3 w4 = w4
  Absent = Absent Torn = Torn Null = Null Whole = Whole
  Slug = {s1}
  Worker = {w1, w2}
  Kind <- Race
  SlugOf <- OneSlug
  Crashes = FALSE
  Scans = FALSE
INVARIANT FirstPublishStands
CHECK_DEADLOCK FALSE
