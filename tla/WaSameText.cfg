CONSTANTS
  Message = {m1, m2}
  Handler = {h1}
  Worker = {w1}
  NoMessage = NoMessage
  MsgId <- TextHashIds
  Faults = {}
  MaxDeliveries = 1
  MaxRetries = 0
SPECIFICATION Spec
INVARIANT AckedIsKept
CHECK_DEADLOCK FALSE
