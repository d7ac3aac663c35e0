SPECIFICATION Spec
CONSTANTS
  None = None
  Txn = {t1, t2}
  Library = {l1, l2}
  Node = {root, a, b}
  NodeType = {"folder", "bookmark"}
  Title = {"x", "y"}
  Url = {"u"}
  Operation <- AllOps
  BatchSize = 2
  MaxHops = 3
  MaxClock = 4
CHECK_DEADLOCK FALSE
SYMMETRY Symmetry
INVARIANTS TypeOK TreeShape GapFreeClocks RowIsLastRevision ClockInv DraftInv
PROPERTIES NoLateRevision ImplementsRevisionLog
