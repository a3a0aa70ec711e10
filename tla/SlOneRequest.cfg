SPECIFICATION Spec
CONSTANTS
  t1 = t1  t2 = t2  g1 = g1  g2 = g2  r1 = r1  r2 = r2
  Txn = {t1, t2}
  Goal = {g1, g2}
  Request = {r1}
  Amount = {3}
  Entered = {0}
  Shown <- SmallAmounts
  Faults <- FaultKind
SYMMETRY Symmetry
INVARIANTS TypeOK SettledIsExact SharesAddUp
CHECK_DEADLOCK FALSE
