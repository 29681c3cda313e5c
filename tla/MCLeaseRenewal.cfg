SPECIFICATION RenewSpec
CONSTANTS
  Lease = 12
  Interval = 4
  Timeout = 1
  StartDelay = 3
  CancelDelay = 2
  MaxTime = 30
INVARIANTS FencedBeforeReclaim OneFailureTolerated
CHECK_DEADLOCK FALSE
