CONSTANTS
  n1 = n1
  n2 = n2
  j1 = j1
  x1 = x1
  x2 = x2
  none = none
  None = none
  Nodes <- TwoNodes
  Executors <- TwoExecutors
  Jobs <- OneJob
  MaxAttempts = 2
  MaxClaims = 2
SPECIFICATION Spec
INVARIANT LostExecutorNeverStrands
CHECK_DEADLOCK FALSE
