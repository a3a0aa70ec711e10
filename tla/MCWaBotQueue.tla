---------------------------- MODULE MCWaBotQueue ----------------------------
(* Instances of WaBotQueue for TLC. *)
EXTENDS WaBotQueue, TLC

(* WAHA and Meta give every message its own id. *)
OwnIds == [m \in Message |-> m]

(* Fonnte gives none: the id is a hash of sender and text, the same for    *)
(* two messages in which one user writes the same thing twice.             *)
TextHashIds == [m \in Message |-> CHOOSE n \in Message : TRUE]

Symmetry == Permutations(Message) \cup Permutations(Handler) \cup Permutations(Worker)
=============================================================================
