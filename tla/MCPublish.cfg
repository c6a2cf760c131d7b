SPECIFICATION Spec
CONSTANTS
  Contents = {c1}
  Platforms = {fb}
  Posts = {p1, p2}
  Requests = {r1, r2}
  Workers = {w1, w2}
  None = None
  MaxJobs = 2
  EventKinds = {"edit", "abandon", "stall", "throw", "crash", "refused", "lost_ack"}
  MaxEvents = 1
SYMMETRY Symmetry
INVARIANTS TypeOK PublishedOnce RetryIsSafe PostedIsPublished ClaimIsExclusive
PROPERTIES UnconfirmedNeedsAdmin KeepsPromise
CHECK_DEADLOCK FALSE
