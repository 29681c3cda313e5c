SPECIFICATION LockFairSpec
CONSTANTS
  r1 = r1
  r2 = r2
  free = free
  Replicas <- TwoReplicas
  PoolSize = 2
  Free = free
INVARIANT LockNeverPooled
PROPERTY LockIsFreed
