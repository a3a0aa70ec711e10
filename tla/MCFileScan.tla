----------------------------- MODULE MCFileScan -----------------------------
(* Small instances of FileScan for TLC. *)
EXTENDS FileScan

CONSTANTS w1, w2, entity, infected, txn, proof

NoFaults == {}

(* Every failure but those that lose a job the worker has claimed, and the *)
(* commit whose answer is lost.                                            *)
NoScanIsLost == {"api crash", "insert error", "storage error"}
=============================================================================
