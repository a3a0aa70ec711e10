SPECIFICATION Spec
CONSTANTS
  entity = entity  infected = infected  txn = txn  proof = proof
  w1 = w1  w2 = w2
  File = {proof}
  TxnFile = {}
  ProofFile = {proof}
  Infected = {}
  Worker = {w1}
  NoFile = NoFile
  MaxAttempts = 2
  Faults <- NoFaults
INVARIANTS EveryUploadIsQueued
CHECK_DEADLOCK FALSE
