CONSTANTS
  j1 = j1  j2 = j2  n1 = n1  n2 = n2  s1 = s1  key = key  None = None
  Jobs = {j1}
  Nodes = {n1, n2}
  Slots = {s1}
  Executors = {}
  SessionJobs = {}
  PrepJobs = {}
  Pins = {None}
  DedupeKey <- NoKeys
  MaxAttempts = 2
  MaxClaims = 3
  OrgCap = 1
SYMMETRY NodeSymmetry
SPECIFICATION Spec
INVARIANTS TypeOK SingleOwner HooksOnce AttemptAccounting
PROPERTY ImplementsOwnership
