CONSTANTS
  Message = {m1}
  Handler = {h1}
  Worker = {w1, w2}
  NoMessage = NoMessage
  MsgId <- OwnIds
  Faults = {}
  MaxDeliveries = 1
  MaxRetries = 0
SPECIFICATION Spec
SYMMETRY Symmetry
INVARIANT RecordedWithinGrants
CHECK_DEADLOCK FALSE
