SPECIFICATION Spec
CONSTANTS
  q1 = q1
  q2 = q2
  q3 = q3
  t1 = t1
  t2 = t2
  Requests = {q1, q2, q3}
  Terms = {t1, t2}
  Local = {t1}
  MaxCalls = 1
  Threads = {1, 2}
SYMMETRY Symmetry
INVARIANTS
  HardBudget
CHECK_DEADLOCK FALSE
