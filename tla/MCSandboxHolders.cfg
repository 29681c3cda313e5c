CONSTANTS
  None = None
  Turns = {t1, t2}
  Nodes = {n1, n2}
  Containers = {c1, c2}
  MaxFaults = 2
  Budget = 3
SPECIFICATION BoxSpec
SYMMETRY BoxSymmetry
CONSTRAINT WithinBudget
INVARIANTS RowNeverDangles PreviewKeepsContainer FencedTurnKeepsContainer
CHECK_DEADLOCK FALSE
