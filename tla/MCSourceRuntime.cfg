SPECIFICATION Spec
CONSTANTS
  Source = {dex, broken}
  Broken = {broken}
  Request = {q1, q2, q3, q4}
  SignIn = {f1, f2}
  None = None
  Failed = Failed
  MaxLives = 2
CHECK_DEADLOCK FALSE
SYMMETRY Symmetry
INVARIANTS  SignInsAreFound
