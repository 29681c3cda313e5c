SPECIFICATION Spec
CONSTANTS
  MaxDeliveries = 3
  MaxOldAnswers = 1
  WaitingCap = 2
VIEW LiveView
CONSTRAINT Released
INVARIANT ClosedTargetReleased
CHECK_DEADLOCK FALSE
