SPECIFICATION Spec
CONSTANTS
  entity = entity  infected = infected  txn = txn  proof = proof
  w1 = w1  w2 = w2
  File = {entity, txn}
  TxnFile = {txn}
  ProofFile = {}
  Infected = {txn}
  Worker = {w1, w2}
  NoFile = NoFile
  MaxAttempts = 2
  Faults <- FaultKind
INVARIANTS TypeOK OneScanAtATime OutcomeAgrees ServedWasScanned
PROPERTIES VerdictIsFinal ImplementsJobQueue
CHECK_DEADLOCK FALSE
