SPECIFICATION FairSpec
CONSTANTS
  None = None
  Gone = Gone
  Txn = {t1, t2}
  Disabler = {t1}
  Operation <- Sessions
  Device = {d1}
  Client = {c1, c2}
  Profile = {p1, p2}
  Rule = {r1, r2}
  Target = {}
  Instance = {i1, i2}
  RuleAction = {}
  RuleOrder = {}
  Matcher = {}
CHECK_DEADLOCK FALSE
INVARIANTS TypeOK RegistrationsDoNotCollide
PROPERTIES  DefaultArrivesWithRules TransactionsEnd
