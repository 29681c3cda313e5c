SPECIFICATION MCFairSpec
CONSTANTS
  Modes = {"pre_publish", "draft_first"}
  Requesters = {"agent", "user", "automation"}
  Policies = {"none", "zero", "some"}
  Loops = {"l1", "l2", "l3"}
  MaxTries = 1
  MaxEvents = 2
  None = None
INVARIANTS PendingLoopRuns PassedIsEvidenced CompletedHasPR
PROPERTIES CompletedIsFinal SettlesOrAbandoned
CHECK_DEADLOCK FALSE
