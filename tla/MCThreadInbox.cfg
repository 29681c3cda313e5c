SPECIFICATION InboxSpec
CONSTANTS
  MaxEntries = 3
  MaxRuntimes = 2
  Nodes = {n1, n2}
  NoNode = NoNode
  Poison = {2}
  MaxRetries = 1
CONSTRAINT InboxBound
VIEW LiveView
SYMMETRY NodeSymmetry
CHECK_DEADLOCK FALSE
INVARIANT NoSilentReplay
INVARIANT AppliedWasAccepted
INVARIANT ClaimsHaveOwners
INVARIANT UncertainBlocksLater
