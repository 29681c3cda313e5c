CONSTANTS
  j1 = j1  j2 = j2  n1 = n1  n2 = n2  s1 = s1  key = key  None = None
  Jobs = {j1, j2}
  Nodes = {n1}
  Slots = {s1}
  Executors = {}
  SessionJobs = {j2}
  PrepJobs = {j1}
  Pins = {None, n1}
  DedupeKey <- SameKey
  MaxAttempts = 1
  MaxClaims = 2
  OrgCap = 1
SPECIFICATION FairSpec
INVARIANT DedupeHolds
PROPERTY NoPermanentOrphan
