----------------------------- MODULE MCBackend ------------------------------
(* The instance: r1 and r2 are the requests, jobs and handlers of every    *)
(* part, x1 and x2 its rows, or r1 and r2 other rows where a part needs    *)
(* rows of two kinds and no such requests; only the part in focus moves,   *)
(* so that one symmetry serves all.                                        *)
EXTENDS Backend, TLC

CONSTANTS r1, r2, x1, x2, b1, u1, c1, s1, n1, v1

OneUser == b1 :> u1

OneSchema == c1 :> s1

OneDefault == {<<n1, "expense">>}

Kinds == ("food" :> "expense") @@ ("moved" :> "transfer")

(* Budgets that are open, ended and paused on day 2.                       *)
SomeTerms ==
  {[active |-> TRUE, start |-> 2, end |-> NoEnd], [active |-> TRUE, start |-> 1, end |-> 1],
   [active |-> FALSE, start |-> 2, end |-> 3]}

(* Messages that ask for one field each.                                   *)
OneFieldEach ==
  {[type |-> "transfer", category |-> Unsaid, text |-> Unsaid],
   [type |-> Unsaid, category |-> n1, text |-> Unsaid],
   [type |-> Unsaid, category |-> Unsaid, text |-> v1]}

Alike == Permutations({r1, r2}) \cup Permutations({x1, x2})
=============================================================================
