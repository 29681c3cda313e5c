CONSTANTS
  n1 = n1
  Nodes = {n1}
SPECIFICATION NodeFairSpec
INVARIANTS IntentClosesAdmission
PROPERTIES DrainedNeverAdvertises DrainReachesQueues
