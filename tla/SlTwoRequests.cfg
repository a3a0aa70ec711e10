SPECIFICATION Spec
CONSTANTS
  t1 = t1  t2 = t2  g1 = g1  g2 = g2  r1 = r1  r2 = r2
  Txn = {t1, t2}
  Goal = {g1}
  Request = {r1, r2}
  Amount = {1}
  Entered = {0}
  Shown <- SmallAmounts
  Faults <- NoFaults
INVARIANTS ProgressIsExact
CHECK_DEADLOCK FALSE
