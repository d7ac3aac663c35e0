SPECIFICATION Spec
CONSTANTS
  None = None
  Txn = {t1, t2}
  Library = {l1}
  Node = {root, a, b}
  NodeType = {"folder"}
  Title = {"x"}
  Url = {}
  Operation <- Structure
  BatchSize = 1
  MaxHops = 3
  MaxClock = 4
CHECK_DEADLOCK FALSE
SYMMETRY Symmetry
INVARIANT MoveDoesNotCreateCycles
