SPECIFICATION FairSpec
CONSTANTS
  entity = entity  infected = infected  txn = txn  proof = proof
  w1 = w1  w2 = w2
  File = {entity, infected, proof}
  TxnFile = {}
  ProofFile = {proof}
  Infected = {infected}
  Worker = {w1, w2}
  NoFile = NoFile
  MaxAttempts = 2
  Faults <- NoScanIsLost
INVARIANTS LiveHasObject
PROPERTIES QueuedEnds
CHECK_DEADLOCK FALSE
