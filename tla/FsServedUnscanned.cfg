SPECIFICATION Spec
CONSTANTS
  entity = entity  infected = infected  txn = txn  proof = proof
  w1 = w1  w2 = w2
  File = {txn}
  TxnFile = {txn}
  ProofFile = {}
  Infected = {txn}
  Worker = {w1}
  NoFile = NoFile
  MaxAttempts = 2
  Faults <- NoFaults
INVARIANTS AllServedWereScanned
CHECK_DEADLOCK FALSE
