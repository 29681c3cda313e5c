SPECIFICATION Spec
CONSTANTS
  Modes = {"pre_publish"}
  Requesters = {"agent", "user"}
  Policies = {"none"}
  Loops = {"l1", "l2", "l3"}
  MaxTries = 1
  MaxEvents = 2
  None = None
PROPERTY PublishesWhatWasReviewed
CHECK_DEADLOCK FALSE
