SPECIFICATION SyncSpec
CONSTANTS
  t1 = t1  t2 = t2  l1 = l1  root = root  shared = shared  n1 = n1  n2 = n2
  c1 = c1  c2 = c2  p1 = p1  p2 = p2  e1 = e1  e2 = e2
  None = None
  Txn = {t1, t2}
  Library = {l1}
  SyncLibrary = l1
  Node = {root, shared, n1, n2}
  Root = root
  Shared = shared
  NodeType = {"folder"}
  Title = {"x"}
  Url = {}
  Operation <- AllOps
  BatchSize = 2
  MaxHops = 4
  MaxClock = 4
  Client = {c1}
  Preview = {p1, p2}
  ExternalId = {e1, e2}
  MutationLists <- CreateLists
  DashboardOps = {}
  OpsLimit = 10
CHECK_DEADLOCK FALSE
INVARIANTS AppliedOnce CreatesAreMapped PreviewOpsAreExact
