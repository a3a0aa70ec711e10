CONSTANTS
  Message = {m1, m2}
  Handler = {h1}
  Worker = {w1}
  NoMessage = NoMessage
  MsgId <- OwnIds
  Faults = {"enqueue error", "ai crash", "worker db error", "chat error", "send error"}
  MaxDeliveries = 1
  MaxRetries = 1
SPECIFICATION FairSpec
INVARIANT TypeOK
INVARIANT AckedIsKept
INVARIANT SuccessMeansAnswered
INVARIANT RecordedWithinGrants
PROPERTY FinalOnlyRetried
PROPERTY ImplementsJobQueue
PROPERTY PendingIsTaken
CHECK_DEADLOCK FALSE
