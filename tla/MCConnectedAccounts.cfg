SPECIFICATION FairSpec
CONSTANTS
  Accounts = {page, channel}
  Google = {channel}
  Callbacks = {b1}
  Sweeps = {s1, s2}
  None = None
  MaxFaults = 1
INVARIANTS TypeOK ConsentRespected
PROPERTY DueIsSettled
