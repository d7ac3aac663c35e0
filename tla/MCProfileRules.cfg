SPECIFICATION Spec
CONSTANTS
  None = None
  Gone = Gone
  Txn = {t1, t2}
  Disabler = {}
  Operation <- Rules
  Device = {}
  Client = {}
  Profile = {p1}
  Rule = {r1, r2}
  Target = {g1}
  Instance = {}
  RuleAction = {"readonly"}
  RuleOrder = {3}
  Matcher <- Matchers
CHECK_DEADLOCK FALSE
SYMMETRY Connections
INVARIANTS MatchersFit
PROPERTIES ColumnsChangeByRequest DeletedStaysDeleted
