--------------------------- MODULE MCSavingsLedger ---------------------------
(* Small instances of SavingsLedger for TLC. *)
EXTENDS SavingsLedger, TLC

CONSTANTS t1, t2, g1, g2, r1, r2

NoFaults == {}

SmallAmounts == 0 .. 3

Symmetry == Permutations(Txn) \cup Permutations(Goal)
=============================================================================
