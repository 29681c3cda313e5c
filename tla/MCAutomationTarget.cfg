SPECIFICATION Spec
CONSTANTS
  MaxDeliveries = 3
  MaxOldAnswers = 1
  WaitingCap = 2
VIEW LiveView
CONSTRAINT TargetBound
INVARIANT LiveTurnOwnsSession
INVARIANT EpochNamesItsHead
INVARIANT HeadAlwaysCovered
PROPERTY HeadNeverRegresses
CHECK_DEADLOCK FALSE
