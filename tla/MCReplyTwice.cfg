SPECIFICATION ReplySpec
CONSTANTS
  Posts = {p1}
  Ids = {n1}
  NegativeIds = {}
  ReplyableIds = {n1}
  Rows = {x1, x2}
  Processes = {s1}
  Requests = {q1, q2}
  None = None
  Window = 0
  Threshold = 1
  Retention = 0
  MaxNow = 1
  MaxFaults = 1
  MaxTries = 3
INVARIANT NoDoubleReply
CHECK_DEADLOCK FALSE
