SPECIFICATION FairSpec
CONSTANTS
  None = None
  Txn = {t1, t2}
  Library = {l1}
  Node = {root, a, b}
  NodeType = {"folder"}
  Title = {"x"}
  Url = {}
  Operation <- Deletion
  BatchSize = 2
  MaxHops = 3
  MaxClock = 4
CHECK_DEADLOCK FALSE
PROPERTY RequestsEnd
