SPECIFICATION Spec
CONSTANTS
  None = None
  Node = {root, n1, n2}
  Root = root
  MaxExt = 3
  Title = {"x", "y"}
  Run = {r1}
  Start = 1
  FirstCursor = 1
  DashboardOps <- AllButRestore
  MaxClock = 4
  MaxEdits = 2
  OpsLimit = 500
CHECK_DEADLOCK FALSE
SYMMETRY Symmetry
INVARIANTS TypeOK NothingEchoed 
 
