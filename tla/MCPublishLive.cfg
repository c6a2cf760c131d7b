SPECIFICATION FairSpec
CONSTANTS
  Contents = {c1}
  Platforms = {fb}
  Posts = {p1, p2}
  Requests = {r1}
  Workers = {w1, w2}
  None = None
  MaxJobs = 2
  EventKinds = {"stall"}
  MaxEvents = 1
PROPERTIES ClaimSettles IntentSettles
CHECK_DEADLOCK FALSE
