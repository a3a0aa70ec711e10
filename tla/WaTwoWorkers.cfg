CONSTANTS
  Message = {m1}
  Handler = {h1, h2}
  Worker = {w1, w2}
  NoMessage = NoMessage
  MsgId <- OwnIds
  Faults = {"api crash", "enqueue error", "lost response", "ai crash", "worker db error", "chat error", "send error"}
  MaxDeliveries = 2
  MaxRetries = 1
SPECIFICATION Spec
SYMMETRY Symmetry
INVARIANT DuplicatesBounded
CHECK_DEADLOCK FALSE
