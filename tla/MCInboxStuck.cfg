SPECIFICATION InboxSpec
CONSTANTS
  MaxEntries = 2
  MaxRuntimes = 1
  Nodes = {n1}
  NoNode = NoNode
  Poison = {}
  MaxRetries = 1
CHECK_DEADLOCK FALSE
PROPERTY UnsentIsRetried
