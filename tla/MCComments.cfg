SPECIFICATION Spec
CONSTANTS
  Posts = {p1, p2}
  Ids = {n1}
  NegativeIds = {n1}
  Rows = {x1, x2}
  Processes = {s1, s2}
  None = None
  Window = 2
  Threshold = 2
  Retention = 2
  MaxNow = 3
  MaxFaults = 1
SYMMETRY Symmetry
INVARIANTS TypeOK OneRowPerComment AlertOncePerBucket AlertMeansSpike SyncIsComplete
CHECK_DEADLOCK FALSE
