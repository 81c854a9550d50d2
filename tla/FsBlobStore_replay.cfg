SPECIFICATION Spec
CONSTANTS
  w1 = w1 w2 = w2 w3 = w3 w4 = w4
  Absent = Absent Old = Old
  Worker = {w1, w2, w3}
  Kind <- Readers
  Chunks = 2
  Crashes = FALSE
INVARIANT ServedIsWhole
CHECK_DEADLOCK FALSE
