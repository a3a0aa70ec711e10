------------------------ MODULE SavingsLedgerProofs ------------------------
(***************************************************************************)
(* Proofs about transactions, savings goals and their links, for any       *)
(* transactions, goals and amounts, with errors, forms and the chat at any *)
(* moment:                                                                 *)
(*                                                                         *)
(*   - with one request at a time every settled goal shows the sum of its  *)
(*     links unless it is in doubt.  Here no sum is computed: a total only *)
(*     matters as a function of the contributions, so that it is enough to *)
(*     know which of them a step leaves alone;                             *)
(*   - with any number of requests every state is well typed, and the      *)
(*     shares of a transaction add up to its amount.  Here sums are        *)
(*     computed, from what SumFunction does.                               *)
(***************************************************************************)
EXTENDS SavingsLedger, FiniteSetTheorems, TLAPS

(* The total of a goal without a transaction, and its empty shares.        *)
Rest(t, g) == SumOf([u \in Txn |-> IF u = t THEN 0 ELSE Contribution(u, g)])

EmptyAt(u, g) == Counts(u) /\ g \in DOMAIN link[u] /\ link[u][g] = 0
EmptyBut(t, g) == \E u \in Txn : u # t /\ EmptyAt(u, g)

Typed ==
  /\ row \in [Txn -> {"absent", "live", "deleted"}]
  /\ saving \subseteq Txn
  /\ link = [t \in Txn |-> link[t]]
  /\ goal \in [Goal -> {"absent", "live", "deleted"}]
  /\ current = [g \in Goal |-> current[g]]
  /\ pc \in [Request -> {"idle", "row", "links", "adjust", "read", "write"}]
  /\ req = [r \in Request |-> req[r]]
  /\ \A r \in Request : pc[r] # "idle" => req[r].txn \in Txn

(* A goal that a request or a settled state must account for.              *)
Sure(g) == goal[g] = "live" /\ g \notin suspect

IsExact(g) == EmptyShare(g) \/ current[g] = Total(g)

(* Nothing is under way. *)
IdleOK(r) == pc[r] = "idle" => \A g \in Goal : Sure(g) => IsExact(g)

(* Nothing is written yet, and the request knows the links of its row.     *)
RowOK(r) == pc[r] = "row" =>
  /\ \A g \in Goal : Sure(g) => IsExact(g)
  /\ Counts(req[r].txn) => DOMAIN link[req[r].txn] \subseteq Touched(r) \cup suspect

(* Goals the request does not touch are exact but for its own row.         *)
MidOK(r) == pc[r] \in {"links", "adjust", "read", "write"} =>
  \A g \in Goal : Sure(g) /\ g \notin Touched(r) =>
    EmptyBut(req[r].txn, g) \/ current[g] = Rest(req[r].txn, g)

(* After the links are written they are all to goals it touches.           *)
LinksOK(r) == pc[r] \in {"read", "write"} => DOMAIN link[req[r].txn] \subseteq Touched(r)

AdjustOK(r) == pc[r] = "adjust" /\ req[r].op # "delete" =>
  DOMAIN link[req[r].txn] \subseteq Touched(r)

(* What was read still holds for every goal that is not in doubt again.    *)
WriteOK(r) == pc[r] = "write" =>
  \A g \in Touched(r) : g \in Goal /\ Sure(g) =>
    EmptyShare(g) \/ req[r].total[g] = Total(g)

RequestOK(r) == /\ IdleOK(r) /\ RowOK(r) /\ MidOK(r)
                /\ LinksOK(r) /\ AdjustOK(r) /\ WriteOK(r)

IInv == Typed /\ \A r \in Request : RequestOK(r)

-----------------------------------------------------------------------------
(* Lemmas about totals                                                     *)

(* A transaction that says nothing of a goal makes no difference to it.    *)
LEMMA Unlinked ==
  ASSUME NEW t \in Txn, NEW g, ~Counts(t) \/ g \notin DOMAIN link[t]
  PROVE  Rest(t, g) = Total(g) /\ (EmptyBut(t, g) <=> EmptyShare(g))
<1>1. Contribution(t, g) = 0
  BY DEF Contribution, Share
<1>2. [u \in Txn |-> IF u = t THEN 0 ELSE Contribution(u, g)] = [u \in Txn |-> Contribution(u, g)]
  BY <1>1
<1>3. Rest(t, g) = Total(g)
  BY <1>2 DEF Rest, Total
<1>4. EmptyBut(t, g) <=> EmptyShare(g)
  BY DEF EmptyBut, EmptyShare, EmptyAt
<1> QED BY <1>3, <1>4

(* What a step leaves of a transaction as far as one goal sees it.         *)
Kept(u, g) == Contribution(u, g)' = Contribution(u, g) /\ (EmptyAt(u, g)' <=> EmptyAt(u, g))

(* A goal of which nothing has changed has the total it had.               *)
LEMMA TotalKept ==
  ASSUME NEW g, \A u \in Txn : Kept(u, g)
  PROVE  Total(g)' = Total(g) /\ (EmptyShare(g)' <=> EmptyShare(g))
<1>1. [u \in Txn |-> Contribution(u, g)'] = [u \in Txn |-> Contribution(u, g)]
  BY DEF Kept
<1>2. Total(g)' = Total(g)
  BY <1>1 DEF Total
<1>3. EmptyShare(g)' <=> EmptyShare(g)
  BY DEF Kept, EmptyShare, EmptyAt
<1> QED BY <1>2, <1>3

(* So has the rest without one transaction.                                *)
LEMMA RestKept ==
  ASSUME NEW g, NEW t, \A u \in Txn \ {t} : Kept(u, g)
  PROVE  Rest(t, g)' = Rest(t, g) /\ (EmptyBut(t, g)' <=> EmptyBut(t, g))
<1>1. [u \in Txn |-> IF u = t THEN 0 ELSE Contribution(u, g)']
        = [u \in Txn |-> IF u = t THEN 0 ELSE Contribution(u, g)]
  BY DEF Kept
<1>2. Rest(t, g)' = Rest(t, g)
  BY <1>1 DEF Rest
<1>3. EmptyBut(t, g)' <=> EmptyBut(t, g)
  BY DEF Kept, EmptyBut
<1> QED BY <1>2, <1>3

(* A transaction whose row and links are as before is kept.                *)
LEMMA SameKept ==
  ASSUME NEW u, NEW g, row'[u] = row[u], link'[u] = link[u], u \in saving' <=> u \in saving
  PROVE  Kept(u, g)
BY DEF Kept, Contribution, EmptyAt, Counts

(* A transaction that had no link to the goal and has none is kept.        *)
LEMMA NoLinkKept ==
  ASSUME NEW u, NEW g, g \notin DOMAIN link[u], link'[u] = link[u]
  PROVE  Kept(u, g)
BY DEF Kept, Contribution, EmptyAt, Share

-----------------------------------------------------------------------------
(* Steps beside the requests                                               *)

(* What forms and chat have in common: they cast doubt on every goal they  *)
(* change and on every goal whose links they make count or not.            *)
LEMMA BesideStep ==
  ASSUME Typed, NEW r \in Request, RequestOK(r),
         UNCHANGED <<pc, req, link>>,
         suspect \subseteq suspect',
         \A u \in Txn, g \in Goal : g \notin suspect' => Kept(u, g),
         \A g \in Goal : Sure(g)' => Sure(g) /\ current'[g] = current[g],
         \A u \in Txn : Counts(u)' => Counts(u) \/ DOMAIN link[u] \subseteq suspect'
  PROVE  RequestOK(r)'
<1>1. Touched(r)' = Touched(r)
  BY DEF Touched
<1>2. \A g \in Goal : Sure(g)' => Total(g)' = Total(g) /\ (EmptyShare(g)' <=> EmptyShare(g))
  BY TotalKept DEF Sure
<1>3. \A g \in Goal : Sure(g)' =>
        /\ Rest(req[r].txn, g)' = Rest(req[r].txn, g)
        /\ EmptyBut(req[r].txn, g)' <=> EmptyBut(req[r].txn, g)
  <2> SUFFICES ASSUME NEW g \in Goal, Sure(g)'
               PROVE  /\ Rest(req[r].txn, g)' = Rest(req[r].txn, g)
                      /\ EmptyBut(req[r].txn, g)' <=> EmptyBut(req[r].txn, g)
    OBVIOUS
  <2> DEFINE t == req[r].txn
  <2>1. \A u \in Txn \ {t} : Kept(u, g)
    BY DEF Sure
  <2>2. t' = t
    OBVIOUS
  <2>3. [u \in Txn |-> IF u = t THEN 0 ELSE Contribution(u, g)']
          = [u \in Txn |-> IF u = t THEN 0 ELSE Contribution(u, g)]
    BY <2>1 DEF Kept
  <2>4. Rest(t, g)' = Rest(t, g)
    BY <2>2, <2>3 DEF Rest
  <2>5. EmptyBut(t, g)' <=> EmptyBut(t, g)
    BY <2>1, <2>2 DEF Kept, EmptyBut
  <2> QED BY <2>4, <2>5
<1>4. \A g \in Goal : Sure(g)' /\ IsExact(g) => IsExact(g)'
  BY <1>2 DEF IsExact
<1>5. IdleOK(r)'
  BY <1>4 DEF RequestOK, IdleOK
<1>6. RowOK(r)'
  <2> SUFFICES ASSUME pc[r] = "row"
               PROVE  /\ \A g \in Goal : Sure(g)' => IsExact(g)'
                      /\ Counts(req[r].txn)' => DOMAIN link[req[r].txn] \subseteq Touched(r) \cup suspect'
    BY <1>1 DEF RowOK
  <2>1. \A g \in Goal : Sure(g)' => IsExact(g)'
    BY <1>4 DEF RequestOK, RowOK
  <2>2. req[r].txn \in Txn
    BY DEF Typed
  <2>3. Counts(req[r].txn)' => DOMAIN link[req[r].txn] \subseteq Touched(r) \cup suspect'
    BY <2>2 DEF RequestOK, RowOK
  <2> QED BY <2>1, <2>3
<1>7. MidOK(r)'
  BY <1>1, <1>3 DEF RequestOK, MidOK
<1>8. LinksOK(r)' /\ AdjustOK(r)'
  BY <1>1 DEF RequestOK, LinksOK, AdjustOK
<1>9. WriteOK(r)'
  BY <1>1, <1>2 DEF RequestOK, WriteOK
<1> QED BY <1>5, <1>6, <1>7, <1>8, <1>9 DEF RequestOK

(* The forms of the goals.                                                 *)
LEMMA GoalStepOK ==
  ASSUME Typed, NEW r \in Request, RequestOK(r), NEW h \in Goal, GoalStep(h)
  PROVE  Typed' /\ RequestOK(r)'
<1>1. UNCHANGED <<pc, req, ledgerVars>> /\ suspect \subseteq suspect'
  BY DEF GoalStep, CreateGoal, EditGoal, DeleteGoal, doubtVars
<1>2. Typed'
  BY <1>1 DEF Typed, ledgerVars, GoalStep, CreateGoal, EditGoal, DeleteGoal
<1>3. \A u \in Txn, g \in Goal : Kept(u, g)
  BY <1>1, SameKept DEF ledgerVars
<1>4. \A g \in Goal : Sure(g)' => Sure(g) /\ current'[g] = current[g]
  BY DEF Typed, Sure, GoalStep, CreateGoal, EditGoal, DeleteGoal, doubtVars
<1>5. \A u \in Txn : Counts(u)' => Counts(u)
  BY <1>1 DEF ledgerVars, Counts
<1>6. RequestOK(r)'
  BY <1>1, <1>3, <1>4, <1>5, BesideStep DEF ledgerVars
<1> QED BY <1>2, <1>6

(* The chat.                                                               *)
LEMMA ChatStepOK ==
  ASSUME Typed, NEW r \in Request, RequestOK(r), NEW t \in Txn, ChatStep(t)
  PROVE  Typed' /\ RequestOK(r)'
<1>1. /\ UNCHANGED <<pc, req, link, goal, current>>
      /\ suspect' = suspect \cup DOMAIN link[t]
  BY DEF ChatStep, ChatDelete, ChatUpdate, goalVars
<1>2. /\ row' \in [Txn -> {"absent", "live", "deleted"}]
      /\ saving' \subseteq Txn
      /\ \A u \in Txn : u # t => row'[u] = row[u] /\ (u \in saving' <=> u \in saving)
  BY DEF Typed, ChatStep, ChatDelete, ChatUpdate
<1>3. Typed'
  BY <1>1, <1>2 DEF Typed
<1>4. \A u \in Txn, g \in Goal : g \notin suspect' => Kept(u, g)
  <2> SUFFICES ASSUME NEW u \in Txn, NEW g \in Goal, g \notin suspect'
               PROVE  Kept(u, g)
    OBVIOUS
  <2>1. CASE u = t
    BY <2>1, <1>1, NoLinkKept
  <2>2. CASE u # t
    BY <2>2, <1>1, <1>2, SameKept
  <2> QED BY <2>1, <2>2
<1>5. \A g \in Goal : Sure(g)' => Sure(g) /\ current'[g] = current[g]
  BY <1>1 DEF Sure
<1>6. \A u \in Txn : Counts(u)' => Counts(u) \/ DOMAIN link[u] \subseteq suspect'
  BY <1>1, <1>2 DEF Counts
<1>7. suspect \subseteq suspect' /\ UNCHANGED <<pc, req, link>>
  BY <1>1
<1>8. RequestOK(r)'
  BY <1>4, <1>5, <1>6, <1>7, BesideStep
<1> QED BY <1>3, <1>8

-----------------------------------------------------------------------------
(* Steps of the request                                                    *)

(* A request knows the links of its row from the start.                    *)
LEMMA BeginOK ==
  ASSUME Typed, NEW r \in Request, RequestOK(r), NEW t \in Txn,
         NEW op, NEW a, NEW S \in SUBSET Goal, Begin(r, op, t, a, S)
  PROVE  Typed' /\ RequestOK(r)'
<1>1. /\ UNCHANGED <<row, saving, link, goal, current, suspect>>
      /\ pc[r] = "idle" /\ pc'[r] = "row"
      /\ req'[r].txn = t
      /\ Counts(t) => req'[r].old = link[t]
  BY DEF Typed, Begin, ledgerVars, goalVars, doubtVars
<1>2. Typed'
  BY <1>1 DEF Typed, Begin
<1>3. \A g \in Goal : Sure(g)' => IsExact(g)'
  <2> SUFFICES ASSUME NEW g \in Goal, Sure(g)'
               PROVE  IsExact(g)'
    OBVIOUS
  <2>1. IsExact(g)
    BY <1>1 DEF RequestOK, IdleOK, Sure
  <2>2. \A u \in Txn : Kept(u, g)
    BY <1>1, SameKept
  <2> QED BY <1>1, <2>1, <2>2, TotalKept DEF IsExact
<1>4. Counts(t)' => DOMAIN link'[t] \subseteq Touched(r)'
  BY <1>1 DEF Counts, Touched
<1>5. RowOK(r)'
  BY <1>1, <1>3, <1>4 DEF RowOK
<1> QED BY <1>1, <1>2, <1>5 DEF RequestOK, IdleOK, MidOK, LinksOK, AdjustOK, WriteOK

(* The row says nothing of a goal that the request does not touch.         *)
LEMMA WriteRowOK ==
  ASSUME Typed, NEW r \in Request, RequestOK(r), WriteRow(r)
  PROVE  Typed' /\ RequestOK(r)'
<1> DEFINE t == req[r].txn
<1>1. /\ pc[r] = "row" /\ t \in Txn
      /\ UNCHANGED <<link, goal, current, req, suspect>>
      /\ pc' \in [Request -> {"idle", "row", "links", "adjust", "read", "write"}]
      /\ \/ req[r].op = "delete" /\ pc'[r] = "adjust"
         \/ req[r].op # "delete" /\ pc'[r] = "links"
  BY DEF Typed, WriteRow, Moves, goalVars
<1>2. /\ row' \in [Txn -> {"absent", "live", "deleted"}]
      /\ saving' \subseteq Txn
      /\ \A u \in Txn \ {t} : row'[u] = row[u] /\ (u \in saving' <=> u \in saving)
  BY <1>1 DEF Typed, WriteRow
<1>3. \A s \in Request : pc'[s] # "idle" => req[s].txn \in Txn
  BY <1>1 DEF Typed, WriteRow, Moves
<1>4. Typed'
  BY <1>1, <1>2, <1>3 DEF Typed
<1>5. Touched(r)' = Touched(r)
  BY <1>1 DEF Touched
<1>6. MidOK(r)'
  <2> SUFFICES ASSUME NEW g \in Goal, Sure(g), g \notin Touched(r)
               PROVE  EmptyBut(t, g)' \/ current[g] = Rest(t, g)'
    BY <1>1, <1>5 DEF MidOK, Sure, EmptyBut, Rest
  <2>1. IsExact(g) /\ (Counts(t) => g \notin DOMAIN link[t])
    BY <1>1 DEF RequestOK, RowOK, Sure
  <2>2. Rest(t, g) = Total(g) /\ (EmptyBut(t, g) <=> EmptyShare(g))
    BY <1>1, <2>1, Unlinked
  <2>3. \A u \in Txn \ {t} : Kept(u, g)
    BY <1>1, <1>2, SameKept
  <2>4. [u \in Txn |-> IF u = t THEN 0 ELSE Contribution(u, g)']
          = [u \in Txn |-> IF u = t THEN 0 ELSE Contribution(u, g)]
    BY <2>3 DEF Kept
  <2>5. Rest(t, g)' = Rest(t, g) /\ (EmptyBut(t, g)' <=> EmptyBut(t, g))
    BY <1>1, <2>3, <2>4 DEF Rest, EmptyBut, Kept
  <2> QED BY <2>1, <2>2, <2>5 DEF IsExact
<1>7. AdjustOK(r)'
  BY <1>1 DEF AdjustOK
<1> QED BY <1>1, <1>4, <1>6, <1>7 DEF RequestOK, IdleOK, RowOK, LinksOK, WriteOK

(* Every way to divide an amount among goals gives shares to these goals.  *)
LEMMA AllocationDomain ==
  ASSUME NEW a, NEW S, NEW s \in Allocations(a, S)
  PROVE  DOMAIN s = S
<1>1. CASE S = {}
  BY <1>1 DEF Allocations, NoShares
<1>2. CASE S # {}
  BY <1>2 DEF Allocations
<1> QED BY <1>1, <1>2

(* The new links are to the goals it has selected.                         *)
LEMMA ReplaceLinksOK ==
  ASSUME Typed, NEW r \in Request, RequestOK(r), ReplaceLinks(r)
  PROVE  Typed' /\ RequestOK(r)'
<1> DEFINE t == req[r].txn
<1>1. /\ pc[r] = "links" /\ t \in Txn
      /\ UNCHANGED <<row, saving, goal, current, req, suspect>>
      /\ pc' \in [Request -> {"idle", "row", "links", "adjust", "read", "write"}]
      /\ pc'[r] \in {"adjust", "read"}
  BY DEF Typed, ReplaceLinks, Moves, goalVars, doubtVars
<1>2. PICK s \in Allocations(req[r].amount, req[r].goals) : link' = [link EXCEPT ![t] = s]
  BY DEF ReplaceLinks
<1>3. /\ link' = [u \in Txn |-> link'[u]]
      /\ \A u \in Txn \ {t} : link'[u] = link[u]
      /\ link'[t] = s
  BY <1>1, <1>2 DEF Typed
<1>4. \A q \in Request : pc'[q] # "idle" => req[q].txn \in Txn
  BY DEF Typed, ReplaceLinks, Moves
<1>5. Typed'
  BY <1>1, <1>3, <1>4 DEF Typed
<1>6. Touched(r)' = Touched(r) /\ DOMAIN link'[t] \subseteq Touched(r)
  BY <1>1, <1>3, AllocationDomain DEF Touched
<1>7. MidOK(r)'
  <2> SUFFICES ASSUME NEW g \in Goal, Sure(g), g \notin Touched(r)
               PROVE  EmptyBut(t, g)' \/ current[g] = Rest(t, g)'
    BY <1>1, <1>6 DEF MidOK, Sure, EmptyBut, Rest
  <2>1. EmptyBut(t, g) \/ current[g] = Rest(t, g)
    BY <1>1 DEF RequestOK, MidOK
  <2>2. \A u \in Txn \ {t} : Kept(u, g)
    BY <1>1, <1>3, SameKept
  <2>3. [u \in Txn |-> IF u = t THEN 0 ELSE Contribution(u, g)']
          = [u \in Txn |-> IF u = t THEN 0 ELSE Contribution(u, g)]
    BY <2>2 DEF Kept
  <2>4. Rest(t, g)' = Rest(t, g) /\ (EmptyBut(t, g)' <=> EmptyBut(t, g))
    BY <1>1, <2>2, <2>3 DEF Rest, EmptyBut, Kept
  <2> QED BY <2>1, <2>4
<1>8. LinksOK(r)' /\ AdjustOK(r)'
  BY <1>1, <1>6 DEF LinksOK, AdjustOK
<1> QED BY <1>1, <1>5, <1>7, <1>8 DEF RequestOK, IdleOK, RowOK, WriteOK

(* The adjustment changes no other goal.                                   *)
LEMMA AdjustStepOK ==
  ASSUME Typed, NEW r \in Request, RequestOK(r), Adjust(r)
  PROVE  Typed' /\ RequestOK(r)'
<1> DEFINE t == req[r].txn
<1>1. /\ pc[r] = "adjust"
      /\ UNCHANGED <<row, saving, link, goal, req, suspect>>
      /\ pc' \in [Request -> {"idle", "row", "links", "adjust", "read", "write"}]
      /\ \/ req[r].op = "delete" /\ pc'[r] = "links"
         \/ req[r].op # "delete" /\ pc'[r] = "read"
      /\ current' = [g \in Goal |-> current'[g]]
      /\ \A g \in Goal : g \notin Touched(r) => current'[g] = current[g]
  BY DEF Typed, Adjust, Moves, ledgerVars, doubtVars
<1>2. \A q \in Request : pc'[q] # "idle" => req[q].txn \in Txn
  BY DEF Typed, Adjust, Moves
<1>3. Typed'
  BY <1>1, <1>2 DEF Typed
<1>4. Touched(r)' = Touched(r)
  BY <1>1 DEF Touched
<1>5. MidOK(r)'
  BY <1>1, <1>4 DEF RequestOK, MidOK, Sure, EmptyBut, EmptyAt, Rest, Contribution, Counts
<1>6. LinksOK(r)'
  BY <1>1, <1>4 DEF RequestOK, AdjustOK, LinksOK
<1> QED BY <1>1, <1>3, <1>5, <1>6 DEF RequestOK, IdleOK, RowOK, AdjustOK, WriteOK

(* What the reconciliation sees of a transaction is what counts, for every *)
(* goal in its list that has no empty share.                               *)
LEMMA SeenCounts ==
  ASSUME NEW u \in Txn, NEW S, NEW g \in S, ~EmptyAt(u, g), NEW s \in Recovered(u, S)
  PROVE  Share(s, g) = Contribution(u, g)
<1> DEFINE seen == DOMAIN link[u] \cap S
<1>1. CASE ~Counts(u)
  BY <1>1 DEF Recovered, NoShares, Share, Contribution
<1>2. CASE Counts(u) /\ \A h \in seen : link[u][h] = 0
  <2>1. g \notin DOMAIN link[u]
    BY <1>2 DEF EmptyAt
  <2>2. DOMAIN s = seen
    BY <1>2, AllocationDomain DEF Recovered
  <2> QED BY <1>2, <2>1, <2>2 DEF Share, Contribution
<1>3. CASE Counts(u) /\ ~(\A h \in seen : link[u][h] = 0)
  <2>1. s = [h \in seen |-> link[u][h]]
    BY <1>3 DEF Recovered, Restrict
  <2> QED BY <1>3, <2>1 DEF Share, Contribution
<1> QED BY <1>1, <1>2, <1>3

(* What it reads is the total of each goal it touches.                     *)
LEMMA ReadTotalsOK ==
  ASSUME Typed, NEW r \in Request, RequestOK(r), ReadTotals(r)
  PROVE  Typed' /\ RequestOK(r)'
<1> DEFINE t == req[r].txn
<1>1. PICK seen \in [Txn -> UNION {Recovered(u, Touched(r)) : u \in Txn}] :
        /\ \A u \in Txn : seen[u] \in Recovered(u, Touched(r))
        /\ req' = [req EXCEPT ![r].total =
             [g \in Touched(r) |-> SumOf([u \in Txn |-> Share(seen[u], g)])]]
  BY DEF ReadTotals
<1>2. /\ pc[r] = "read" /\ pc'[r] = "write"
      /\ UNCHANGED <<row, saving, link, goal, current>>
      /\ suspect' = suspect \ Touched(r)
      /\ pc' \in [Request -> {"idle", "row", "links", "adjust", "read", "write"}]
  BY DEF Typed, ReadTotals, Moves, ledgerVars, goalVars
<1>3. /\ req' = [q \in Request |-> req'[q]]
      /\ \A q \in Request \ {r} : req'[q] = req[q]
      /\ req'[r] = [req[r] EXCEPT !.total =
             [g \in Touched(r) |-> SumOf([u \in Txn |-> Share(seen[u], g)])]]
  BY <1>1 DEF Typed
<1>4. /\ req'[r].txn = t
      /\ req'[r].goals = req[r].goals /\ req'[r].old = req[r].old
  BY <1>3
<1>5. \A q \in Request : pc'[q] # "idle" => req'[q].txn \in Txn
  BY <1>3, <1>4 DEF Typed, ReadTotals, Moves
<1>6. Typed'
  BY <1>2, <1>3, <1>5 DEF Typed
<1>7. Touched(r)' = Touched(r)
  BY <1>4 DEF Touched
<1>8. MidOK(r)'
  BY <1>2, <1>4, <1>7 DEF RequestOK, MidOK, Sure, EmptyBut, EmptyAt, Rest, Contribution, Counts
<1>9. LinksOK(r)'
  BY <1>2, <1>4, <1>7 DEF RequestOK, LinksOK
<1>10. WriteOK(r)'
  <2> SUFFICES ASSUME NEW g \in Touched(r), ~EmptyShare(g)
               PROVE  req'[r].total[g] = Total(g)'
    BY <1>2, <1>7 DEF WriteOK, EmptyShare, Counts
  <2>1. \A u \in Txn : Share(seen[u], g) = Contribution(u, g)
    BY <1>1, SeenCounts DEF EmptyShare, EmptyAt
  <2>2. [u \in Txn |-> Share(seen[u], g)] = [u \in Txn |-> Contribution(u, g)]
    BY <2>1
  <2>3. SumOf([u \in Txn |-> Share(seen[u], g)]) = Total(g)
    BY <2>2 DEF Total
  <2>4. \A u \in Txn : Kept(u, g)
    BY <1>2, SameKept
  <2>5. Total(g)' = Total(g)
    BY <2>4, TotalKept
  <2>6. req'[r].total = [h \in Touched(r) |-> SumOf([u \in Txn |-> Share(seen[u], h)])]
    BY <1>2, <1>3 DEF Typed
  <2> QED BY <2>3, <2>5, <2>6
<1> QED BY <1>2, <1>6, <1>8, <1>9, <1>10 DEF RequestOK, IdleOK, RowOK, AdjustOK

(* What it writes makes them exact.                                        *)
LEMMA WriteTotalsOK ==
  ASSUME Typed, NEW r \in Request, RequestOK(r), WriteTotals(r)
  PROVE  Typed' /\ RequestOK(r)'
<1> DEFINE t == req[r].txn
<1>1. /\ pc[r] = "write" /\ pc'[r] = "idle" /\ t \in Txn
      /\ UNCHANGED <<row, saving, link, goal, suspect>>
      /\ current' = [g \in Goal |->
           IF g \in Touched(r) /\ goal[g] = "live" THEN req[r].total[g] ELSE current[g]]
  BY DEF Typed, WriteTotals, Moves, ledgerVars, doubtVars
<1>2. Typed'
  BY <1>1 DEF Typed, WriteTotals, Moves
<1>3. IdleOK(r)'
  <2> SUFFICES ASSUME NEW g \in Goal, Sure(g)
               PROVE  IsExact(g)'
    BY <1>1 DEF IdleOK, Sure
  <2>1. Total(g)' = Total(g) /\ (EmptyShare(g)' <=> EmptyShare(g))
    BY <1>1, SameKept, TotalKept
  <2>2. CASE g \in Touched(r)
    <3>1. EmptyShare(g) \/ req[r].total[g] = Total(g)
      BY <1>1, <2>2 DEF RequestOK, WriteOK
    <3> QED BY <1>1, <2>1, <2>2, <3>1 DEF IsExact, Sure
  <2>3. CASE g \notin Touched(r)
    <3>1. EmptyBut(t, g) \/ current[g] = Rest(t, g)
      BY <1>1, <2>3 DEF RequestOK, MidOK
    <3>2. g \notin DOMAIN link[t]
      BY <1>1, <2>3 DEF RequestOK, LinksOK
    <3>3. Rest(t, g) = Total(g) /\ (EmptyBut(t, g) <=> EmptyShare(g))
      BY <1>1, <3>2, Unlinked
    <3> QED BY <1>1, <2>1, <2>3, <3>1, <3>3 DEF IsExact
  <2> QED BY <2>2, <2>3
<1> QED BY <1>1, <1>2, <1>3 DEF RequestOK, RowOK, MidOK, LinksOK, AdjustOK, WriteOK

(* What a failure leaves behind is in doubt.                               *)
LEMMA FailOK ==
  ASSUME Typed, NEW r \in Request, RequestOK(r), Fail(r) \/ RowGone(r)
  PROVE  Typed' /\ RequestOK(r)'
<1> DEFINE t == req[r].txn
<1>1. /\ pc[r] \in {"row", "links", "adjust", "read", "write"} /\ pc'[r] = "idle" /\ t \in Txn
      /\ UNCHANGED <<row, saving, link, goal, current>>
      /\ pc[r] = "row" => suspect' = suspect
      /\ pc[r] # "row" => suspect' = suspect \cup Touched(r) \cup DOMAIN link[t]
  BY DEF Typed, Fail, RowGone, Moves, ledgerVars, goalVars, doubtVars
<1>2. Typed'
  BY <1>1 DEF Typed, Fail, RowGone, Moves
<1>3. IdleOK(r)'
  <2> SUFFICES ASSUME NEW g \in Goal, Sure(g)'
               PROVE  IsExact(g)'
    BY DEF IdleOK
  <2>1. Total(g)' = Total(g) /\ (EmptyShare(g)' <=> EmptyShare(g))
    BY <1>1, SameKept, TotalKept
  <2>2. CASE pc[r] = "row"
    BY <1>1, <2>1, <2>2 DEF RequestOK, RowOK, Sure, IsExact
  <2>3. CASE pc[r] # "row"
    <3>1. Sure(g) /\ g \notin Touched(r) /\ g \notin DOMAIN link[t]
      BY <1>1, <2>3 DEF Sure
    <3>2. EmptyBut(t, g) \/ current[g] = Rest(t, g)
      BY <1>1, <2>3, <3>1 DEF RequestOK, MidOK
    <3>3. Rest(t, g) = Total(g) /\ (EmptyBut(t, g) <=> EmptyShare(g))
      BY <1>1, <3>1, Unlinked
    <3> QED BY <1>1, <2>1, <3>2, <3>3 DEF IsExact
  <2> QED BY <2>2, <2>3
<1> QED BY <1>1, <1>2, <1>3 DEF RequestOK, RowOK, MidOK, LinksOK, AdjustOK, WriteOK

-----------------------------------------------------------------------------
(* The invariant and the theorem                                           *)

(* No goal is live at first.                                               *)
LEMMA InitOK == Init => IInv
<1> SUFFICES ASSUME Init PROVE IInv
  OBVIOUS
<1>1. Typed
  BY DEF Init, Typed
<1>2. \A r \in Request : RequestOK(r)
  BY DEF Init, RequestOK, IdleOK, RowOK, MidOK, LinksOK, AdjustOK, WriteOK, Sure
<1> QED BY <1>1, <1>2 DEF IInv

(* With one request at a time every step keeps the invariant.              *)
LEMMA NextOK ==
  ASSUME \A r, s \in Request : r = s, IInv, [Next]_vars
  PROVE  IInv'
<1> USE DEF IInv
<1>1. ASSUME NEW r \in Request, RequestStep(r)
      PROVE  IInv'
  <2>1. Typed /\ RequestOK(r)
    OBVIOUS
  <2>2. CASE BeginCreate(r)
    <3>1. PICK t \in Txn, a \in Amount, S \in SUBSET Goal : Begin(r, "create", t, a, S)
      BY <2>2 DEF BeginCreate
    <3> QED BY <2>1, <3>1, BeginOK
  <2>3. CASE BeginUpdate(r)
    <3>1. PICK t \in Txn, a \in Amount, S \in SUBSET Goal : Begin(r, "update", t, a, S)
      BY <2>3 DEF BeginUpdate
    <3> QED BY <2>1, <3>1, BeginOK
  <2>4. CASE BeginDelete(r)
    <3>1. PICK t \in Txn : Begin(r, "delete", t, 0, {})
      BY <2>4 DEF BeginDelete
    <3> QED BY <2>1, <3>1, BeginOK
  <2>5. CASE WriteRow(r)
    BY <2>1, <2>5, WriteRowOK
  <2>6. CASE ReplaceLinks(r)
    BY <2>1, <2>6, ReplaceLinksOK
  <2>7. CASE Adjust(r)
    BY <2>1, <2>7, AdjustStepOK
  <2>8. CASE ReadTotals(r)
    BY <2>1, <2>8, ReadTotalsOK
  <2>9. CASE WriteTotals(r)
    BY <2>1, <2>9, WriteTotalsOK
  <2>10. CASE Fail(r) \/ RowGone(r)
    BY <2>1, <2>10, FailOK
  <2> QED BY <1>1, <2>2, <2>3, <2>4, <2>5, <2>6, <2>7, <2>8, <2>9, <2>10 DEF RequestStep
<1>2. ASSUME NEW g \in Goal, GoalStep(g)
      PROVE  IInv'
  <2>1. \A r \in Request : RequestOK(r)'
    BY <1>2, GoalStepOK
  <2>2. Typed'
    BY <1>2 DEF Typed, GoalStep, CreateGoal, EditGoal, DeleteGoal, ledgerVars
  <2> QED BY <2>1, <2>2
<1>3. ASSUME NEW t \in Txn, ChatStep(t)
      PROVE  IInv'
  <2>1. \A r \in Request : RequestOK(r)'
    BY <1>3, ChatStepOK
  <2>2. Typed'
    BY <1>3 DEF Typed, ChatStep, ChatDelete, ChatUpdate, goalVars
  <2> QED BY <2>1, <2>2
<1>4. CASE UNCHANGED vars
  <2>1. UNCHANGED <<row, saving, link, goal, current, pc, req, suspect>>
    BY <1>4 DEF vars, ledgerVars, goalVars, doubtVars
  <2>2. Typed'
    BY <2>1 DEF Typed
  <2>3. \A u \in Txn, g \in Goal : Kept(u, g)
    BY <2>1, SameKept
  <2>4. \A u \in Txn : Counts(u)' => Counts(u)
    BY <2>1 DEF Counts
  <2>5. \A g \in Goal : Sure(g)' => Sure(g)
    BY <2>1 DEF Sure
  <2>6. \A r \in Request : RequestOK(r)'
    BY <2>1, <2>3, <2>4, <2>5, BesideStep
  <2> QED BY <2>2, <2>6
<1> QED BY <1>1, <1>2, <1>3, <1>4 DEF Next

(* With one request at a time, a goal that is not in doubt shows the sum   *)
(* of its links whenever no request is under way.                          *)
THEOREM OneRequestIsExact ==
  ASSUME \A r, s \in Request : r = s, Request # {}
  PROVE  Spec => []SettledIsExact
<1>1. IInv => SettledIsExact
  BY DEF IInv, RequestOK, IdleOK, SettledIsExact, Settled, Sure, IsExact, Exact
<1> QED BY <1>1, InitOK, NextOK, PTL DEF Spec

-----------------------------------------------------------------------------
(***************************************************************************)
(* What a sum is.  SumFunction adds the values of a function one after the *)
(* other; a sum of every subset of its domain that grows with each element *)
(* gives the same, so that sums can be computed by naming such a function. *)
(***************************************************************************)

(* Some subsets of a finite set have a smallest one.                       *)
LEMMA SmallestSet ==
  ASSUME NEW S, IsFiniteSet(S), NEW B, B \subseteq SUBSET S, B # {}
  PROVE  \E d \in B : \A e \in B : e \subseteq d => e = d
<1>1. B \subseteq FiniteSubsetsOf(S)
  BY FS_FiniteSubsetsOfFinite
<1>2. PICK d \in B : \A e \in B : <<e, d>> \notin StrictSubsetOrdering(S)
  BY <1>1, FS_StrictSubsetOrderingWellFounded, WFMin
<1>3. \A e \in B : e \subseteq d => e = d
  BY <1>2 DEF StrictSubsetOrdering
<1> QED
  BY <1>3

(* G sums up f over every subset of its domain.                            *)
Sums(f, G) ==
  /\ G \in [SUBSET DOMAIN f -> Nat]
  /\ G[{}] = 0
  /\ \A s \in SUBSET DOMAIN f : \A x \in s : G[s] = f[x] + G[s \ {x}]

(* The sums that SumFunction computes.                                     *)
Adds(f, H) ==
  H = [s \in SUBSET DOMAIN f |->
         IF s = {} THEN 0 ELSE LET x == CHOOSE x \in s : TRUE IN f[x] + H[s \ {x}]]

(* SumFunction takes the sums that add up its function.                    *)
LEMMA SumUnfolds ==
  ASSUME NEW f
  PROVE  SumOf(f) = (CHOOSE H : Adds(f, H))[DOMAIN f]
BY DEF Adds, SumOf, SumFunction, SumFunctionOnSet, FoldFunctionOnSet, MapThenFoldSet

(* They take one element away at a time.                                   *)
LEMMA AddsStep ==
  ASSUME NEW f, NEW H, Adds(f, H)
  PROVE  /\ H[{}] = 0
         /\ \A s \in SUBSET DOMAIN f : s # {} => \E x \in s : H[s] = f[x] + H[s \ {x}]
<1>1. \A s \in SUBSET DOMAIN f :
        H[s] = IF s = {} THEN 0 ELSE LET x == CHOOSE x \in s : TRUE IN f[x] + H[s \ {x}]
  BY DEF Adds
<1>2. H[{}] = 0
  BY <1>1
<1>3. ASSUME NEW s \in SUBSET DOMAIN f, s # {}
      PROVE  \E x \in s : H[s] = f[x] + H[s \ {x}]
  <2> DEFINE x == CHOOSE x \in s : TRUE
  <2>1. x \in s
    BY <1>3
  <2>2. H[s] = f[x] + H[s \ {x}]
    BY <1>1, <1>3
  <2> QED
    BY <2>1, <2>2
<1> QED
  BY <1>2, <1>3

(* Sums over all subsets are the sum.                                      *)
LEMMA SumIs ==
  ASSUME NEW f, IsFiniteSet(DOMAIN f), NEW G, Sums(f, G)
  PROVE  SumOf(f) = G[DOMAIN f]
<1>1. Adds(f, G)
  <2>1. \A s \in SUBSET DOMAIN f :
          G[s] = IF s = {} THEN 0 ELSE LET x == CHOOSE x \in s : TRUE IN f[x] + G[s \ {x}]
    <3> SUFFICES ASSUME NEW s \in SUBSET DOMAIN f, s # {}
                 PROVE  G[s] = LET x == CHOOSE x \in s : TRUE IN f[x] + G[s \ {x}]
      BY DEF Sums
    <3> DEFINE x == CHOOSE x \in s : TRUE
    <3>1. x \in s
      OBVIOUS
    <3> QED
      BY <3>1 DEF Sums
  <2>2. G = [s \in SUBSET DOMAIN f |-> G[s]]
    BY DEF Sums
  <2> QED
    BY <2>1, <2>2 DEF Adds
<1> DEFINE H == CHOOSE H : Adds(f, H)
           differ == {s \in SUBSET DOMAIN f : H[s] # G[s]}
<1>2. Adds(f, H)
  BY <1>1
<1>3. differ = {}
  <2> SUFFICES ASSUME differ # {} PROVE FALSE
    OBVIOUS
  <2>1. PICK d \in differ : \A e \in differ : e \subseteq d => e = d
    <3>1. differ \subseteq SUBSET DOMAIN f
      OBVIOUS
    <3> HIDE DEF differ
    <3> QED
      BY <3>1, SmallestSet
  <2> HIDE DEF H
  <2>2. d \in SUBSET DOMAIN f /\ H[d] # G[d]
    BY <2>1
  <2>3. d # {}
    BY <1>2, <2>2, AddsStep DEF Sums
  <2>4. PICK x \in d : H[d] = f[x] + H[d \ {x}]
    BY <1>2, <2>2, <2>3, AddsStep
  <2>5. H[d \ {x}] = G[d \ {x}]
    <3>1. d \ {x} \in SUBSET DOMAIN f /\ d \ {x} \subseteq d /\ d \ {x} # d
      BY <2>2
    <3> QED
      BY <2>1, <3>1
  <2>6. G[d] = f[x] + G[d \ {x}]
    BY <2>2 DEF Sums
  <2> QED
    BY <2>2, <2>4, <2>5, <2>6
<1>4. DOMAIN f \in SUBSET DOMAIN f
  OBVIOUS
<1>5. H[DOMAIN f] = G[DOMAIN f]
  <2> HIDE DEF H
  <2> QED
    BY <1>3, <1>4
<1> QED
  BY <1>5, SumUnfolds

(* Every function of numbers over a finite set has sums: an element more   *)
(* adds its number to the subsets that contain it.                         *)
LEMMA SumsExist ==
  ASSUME NEW S, IsFiniteSet(S), NEW f \in [S -> Nat]
  PROVE  \E G : Sums(f, G)
<1> DEFINE Upto(T, G) ==
             /\ G \in [SUBSET T -> Nat]
             /\ G[{}] = 0
             /\ \A s \in SUBSET T : \A x \in s : G[s] = f[x] + G[s \ {x}]
           none == {T \in SUBSET S : ~ \E G : Upto(T, G)}
<1>1. none = {}
  <2> SUFFICES ASSUME none # {} PROVE FALSE
    OBVIOUS
  <2>1. PICK d \in none : \A e \in none : e \subseteq d => e = d
    <3>1. none \subseteq SUBSET S
      OBVIOUS
    <3> HIDE DEF none
    <3> QED
      BY <3>1, SmallestSet
  <2>2. d \in SUBSET S /\ ~ \E G : Upto(d, G)
    BY <2>1
  <2>3. d # {}
    <3> SUFFICES ASSUME d = {} PROVE FALSE
      OBVIOUS
    <3> DEFINE Z == [s \in SUBSET {} |-> 0]
    <3>1. Upto({}, Z)
      OBVIOUS
    <3> HIDE DEF Upto, Z
    <3> QED
      BY <2>2, <3>1
  <2>4. PICK y \in d : TRUE
    BY <2>3
  <2> DEFINE T == d \ {y}
  <2>5. T \in SUBSET S /\ T \subseteq d /\ T # d /\ y \in S
    BY <2>2
  <2>6. PICK G : Upto(T, G)
    <3> HIDE DEF Upto, T
    <3> QED
      BY <2>1, <2>5
  <2> DEFINE K(s) == IF y \in s THEN f[y] ELSE 0
             F == [s \in SUBSET d |-> G[s \ {y}] + K(s)]
  <2>7. \A s \in SUBSET d : s \ {y} \in SUBSET T /\ G[s \ {y}] \in Nat /\ K(s) \in Nat
    BY <2>5, <2>6
  <2>8. F \in [SUBSET d -> Nat] /\ F[{}] = 0
    <3>1. ASSUME NEW s \in SUBSET d PROVE G[s \ {y}] + K(s) \in Nat
      <4>1. G[s \ {y}] \in Nat /\ K(s) \in Nat
        BY <2>7
      <4> HIDE DEF K
      <4> QED
        BY <4>1
    <3>2. {} \in SUBSET d /\ {} \ {y} = {} /\ K({}) = 0 /\ G[{}] = 0
      BY <2>6
    <3> HIDE DEF K, Upto, T
    <3> QED
      BY <3>1, <3>2
  <2>9. ASSUME NEW s \in SUBSET d, NEW x \in s PROVE F[s] = f[x] + F[s \ {x}]
    <3>0. s \ {x} \in SUBSET d /\ x \in S
      BY <2>2
    <3>1. F[s] = G[s \ {y}] + K(s) /\ F[s \ {x}] = G[(s \ {x}) \ {y}] + K(s \ {x})
      BY <3>0
    <3>2. f[x] \in Nat
      BY <3>0
    <3>3. CASE x = y
      <4>1. (s \ {x}) \ {y} = s \ {y} /\ K(s) = f[x] /\ K(s \ {x}) = 0
        BY <3>3
      <4>2. G[s \ {y}] \in Nat
        BY <2>7
      <4>3. F[s] = G[s \ {y}] + f[x] /\ F[s \ {x}] = G[s \ {y}] + 0
        BY <3>1, <4>1
      <4> HIDE DEF F
      <4> QED
        BY <3>2, <4>2, <4>3
    <3>4. CASE x # y
      <4>1. (s \ {x}) \ {y} = (s \ {y}) \ {x} /\ K(s \ {x}) = K(s) /\ x \in s \ {y}
        BY <3>4
      <4>2. G[s \ {y}] = f[x] + G[(s \ {y}) \ {x}]
        BY <2>6, <2>7, <4>1
      <4>3. G[(s \ {y}) \ {x}] \in Nat /\ K(s) \in Nat
        BY <2>7, <3>0, <4>1
      <4>4. F[s] = G[s \ {y}] + K(s) /\ F[s \ {x}] = G[(s \ {y}) \ {x}] + K(s)
        BY <3>1, <4>1
      <4> HIDE DEF K, F
      <4> QED
        BY <3>2, <4>2, <4>3, <4>4
    <3> QED
      BY <3>3, <3>4
  <2>10. Upto(d, F)
    BY <2>8, <2>9
  <2> QED
    <3> HIDE DEF Upto, F
    <3> QED
      BY <2>2, <2>10
<1>2. PICK G : Upto(S, G)
  <2> HIDE DEF Upto
  <2> QED
    BY <1>1
<1> QED
  BY <1>2 DEF Sums

(* The sum of numbers is a number.                                         *)
LEMMA SumNat ==
  ASSUME NEW S, IsFiniteSet(S), NEW f \in [S -> Nat]
  PROVE  SumOf(f) \in Nat
<1>1. PICK G : Sums(f, G)
  BY SumsExist
<1>2. SumOf(f) = G[S]
  BY <1>1, SumIs
<1> QED
  BY <1>1, <1>2 DEF Sums

(* Each way to divide an amount among some goals adds up to the amount:    *)
(* the portions of a set of them are as many portions as it has goals, and *)
(* one more for each that is among the first.                              *)
LEMMA AllocationAddsUp ==
  ASSUME NEW a \in Nat, NEW S \in SUBSET Goal, S # {}, NEW x \in Allocations(a, S)
  PROVE  SumOf(x) = a
<1> DEFINE n == Cardinality(S)
           p == a \div n
<1>1. /\ IsFiniteSet(S)
      /\ \A s \in SUBSET S : IsFiniteSet(s) /\ Cardinality(s) \in Nat
  BY LedgerConstants, FS_Subset, FS_CardinalityType
<1>2. n \in Nat \ {0}
  BY <1>1, FS_EmptySet
<1>3. p \in Nat /\ (a % n) \in Nat /\ a = n * p + (a % n)
  <2> HIDE DEF n
  <2> QED
    BY <1>2
<1>4. PICK F \in SUBSET S :
        /\ Cardinality(F) = a % n
        /\ x = [g \in S |-> IF g \in F THEN p + 1 ELSE p]
  BY DEF Allocations
<1> DEFINE G == [s \in SUBSET S |-> Cardinality(s) * p + Cardinality(s \cap F)]
<1> HIDE DEF p, n
<1>5. Sums(x, G)
  <2>1. G \in [SUBSET S -> Nat]
    <3> SUFFICES ASSUME NEW s \in SUBSET S
                 PROVE  Cardinality(s) * p + Cardinality(s \cap F) \in Nat
      OBVIOUS
    <3>1. s \cap F \in SUBSET S
      OBVIOUS
    <3>2. Cardinality(s) \in Nat /\ Cardinality(s \cap F) \in Nat
      BY <1>1, <3>1
    <3> QED
      BY <1>3, <3>2
  <2>2. G[{}] = 0
    <3>1. {} \cap F = {} /\ {} \in SUBSET S
      OBVIOUS
    <3>2. Cardinality({}) = 0
      BY FS_EmptySet
    <3>3. G[{}] = 0 * p + 0
      BY <3>1, <3>2
    <3> QED
      BY <1>3, <3>3
  <2>3. ASSUME NEW s \in SUBSET S, NEW g \in s PROVE G[s] = x[g] + G[s \ {g}]
    <3>1. s \ {g} \in SUBSET S /\ s \cap F \in SUBSET S /\ (s \ {g}) \cap F \in SUBSET S
      OBVIOUS
    <3>2. Cardinality(s) = Cardinality(s \ {g}) + 1
      <4>1. Cardinality(s \ {g}) = Cardinality(s) - 1
        BY <1>1, FS_RemoveElement
      <4> QED
        BY <1>1, <4>1
    <3>3. Cardinality(s \cap F) = Cardinality((s \ {g}) \cap F) + (IF g \in F THEN 1 ELSE 0)
      <4>1. CASE g \in F
        <5>1. (s \ {g}) \cap F = (s \cap F) \ {g} /\ g \in s \cap F
          BY <4>1
        <5>2. Cardinality((s \cap F) \ {g}) = Cardinality(s \cap F) - 1
          BY <1>1, <3>1, <5>1, FS_RemoveElement
        <5>3. Cardinality((s \ {g}) \cap F) = Cardinality(s \cap F) - 1
          BY <5>1, <5>2
        <5>4. Cardinality(s \cap F) \in Nat /\ Cardinality((s \ {g}) \cap F) \in Nat
          BY <1>1, <3>1
        <5> QED
          BY <4>1, <5>3, <5>4
      <4>2. CASE g \notin F
        <5>1. (s \ {g}) \cap F = s \cap F
          BY <4>2
        <5>2. Cardinality(s \cap F) \in Nat
          BY <1>1, <3>1
        <5>3. Cardinality((s \ {g}) \cap F) = Cardinality(s \cap F)
          BY <5>1
        <5> QED
          BY <4>2, <5>2, <5>3
      <4> QED
        BY <4>1, <4>2
    <3>4. x[g] = p + (IF g \in F THEN 1 ELSE 0)
      BY <1>3, <1>4
    <3>5. /\ G[s] = Cardinality(s) * p + Cardinality(s \cap F)
          /\ G[s \ {g}] = Cardinality(s \ {g}) * p + Cardinality((s \ {g}) \cap F)
      BY <3>1
    <3>6. Cardinality(s \ {g}) \in Nat /\ Cardinality((s \ {g}) \cap F) \in Nat
      BY <1>1, <3>1
    <3>7. (Cardinality(s \ {g}) + 1) * p = Cardinality(s \ {g}) * p + p
      BY <1>3, <3>6
    <3>8. Cardinality(s \ {g}) * p \in Nat
      BY <1>3, <3>6
    <3> QED
      <4> HIDE DEF G
      <4> QED
        BY <1>3, <3>2, <3>3, <3>4, <3>5, <3>6, <3>7, <3>8
  <2>4. DOMAIN x = S
    BY <1>4
  <2> HIDE DEF G
  <2> QED
    BY <2>1, <2>2, <2>3, <2>4 DEF Sums
<1>6. SumOf(x) = G[S]
  <2>1. DOMAIN x = S
    BY <1>4
  <2> HIDE DEF G
  <2> QED
    BY <1>1, <1>5, <2>1, SumIs
<1>7. S \cap F = F /\ S \in SUBSET S
  OBVIOUS
<1>8. G[S] = n * p + (a % n)
  BY <1>4, <1>7 DEF n
<1> QED
  BY <1>3, <1>6, <1>8

(* It gives shares.                                                        *)
AllShares == UNION {[D -> Nat] : D \in SUBSET Goal}

(* They are the shares of the types.                                       *)
LEMMA SharesAre ==
  ASSUME NEW s
  PROVE  s \in AllShares => IsShares(s)
BY DEF AllShares, IsShares

(* What is divided among goals are shares of these goals.                  *)
LEMMA AllocationShares ==
  ASSUME NEW a \in Nat, NEW S \in SUBSET Goal, NEW x \in Allocations(a, S)
  PROVE  x \in AllShares
<1>1. CASE S = {}
  <2>1. x \in [{} -> Nat]
    BY <1>1 DEF Allocations, NoShares
  <2> QED
    BY <2>1 DEF AllShares
<1>2. CASE S # {}
  <2> DEFINE p == a \div Cardinality(S)
  <2>1. Cardinality(S) \in Nat \ {0}
    <3>1. IsFiniteSet(S)
      BY LedgerConstants, FS_Subset
    <3> QED
      BY <1>2, <3>1, FS_CardinalityType, FS_EmptySet
  <2>2. p \in Nat
    BY <2>1
  <2>3. PICK F \in SUBSET S : x = [g \in S |-> IF g \in F THEN p + 1 ELSE p]
    BY <1>2 DEF Allocations
  <2> HIDE DEF p
  <2>4. x \in [S -> Nat]
    BY <2>2, <2>3
  <2> QED
    BY <2>4 DEF AllShares
<1> QED
  BY <1>1, <1>2

-----------------------------------------------------------------------------
(***************************************************************************)
(* Types, and the shares of a transaction, for any number of requests.     *)
(***************************************************************************)

(* What a request holds from its begin to its end; the totals it has read  *)
(* are those of the goals it touches.                                      *)
Held == [op : Op, txn : Txn, amount : Amount \cup {0}, goals : SUBSET Goal,
         old : AllShares, total : AllShares]

TypeInv ==
  /\ row \in [Txn -> {"absent", "live", "deleted"}]
  /\ saving \in SUBSET Txn
  /\ amount \in [Txn -> Amount \cup {0}]
  /\ link \in [Txn -> AllShares]
  /\ goal \in [Goal -> {"absent", "live", "deleted"}]
  /\ current \in [Goal -> Int]
  /\ pc \in [Request -> {"idle", "row", "links", "adjust", "read", "write"}]
  /\ req \in [Request -> Held \cup {NoRequest}]
  /\ \A r \in Request : IF pc[r] = "idle" THEN req[r] = NoRequest ELSE req[r] \in Held
  /\ \A r \in Request : pc[r] = "write" => DOMAIN req[r].total = Touched(r)
  /\ suspect \in SUBSET Goal
  /\ altered \in SUBSET Txn

(* One request at a time on a transaction.                                 *)
Alone == \A r, s \in Request :
  pc[r] # "idle" /\ pc[s] # "idle" /\ req[r].txn = req[s].txn => r = s

(* A deletion has deleted its row before it takes the links away,          *)
GoneOK(r) == pc[r] \in {"adjust", "links"} /\ req[r].op = "delete"
               => row[req[r].txn] = "deleted"

(* and another request has written what it divides among the goals, unless *)
(* the chat has overwritten it.                                            *)
WrittenOK(r) == pc[r] = "links" /\ req[r].op # "delete" =>
  LET t == req[r].txn IN
  \/ t \in altered
  \/ amount[t] = req[r].amount /\ (t \in saving => req[r].goals # {})

(* In between only the links of the row are behind.                        *)
Linking(t) == \E r \in Request : pc[r] = "links" /\ req[r].txn = t
SharesOK(t) == t \in altered \/ ~Counts(t) \/ SumOf(link[t]) = amount[t] \/ Linking(t)

SharesInv ==
  /\ Alone
  /\ \A r \in Request : GoneOK(r) /\ WrittenOK(r)
  /\ \A t \in Txn : SharesOK(t)

(* The types of the proof are those of the runs.                           *)
LEMMA TypeInvIsTypeOK == TypeInv => TypeOK
<1> SUFFICES ASSUME TypeInv PROVE TypeOK
  OBVIOUS
<1>1. DOMAIN link = Txn /\ \A t \in Txn : IsShares(link[t])
  BY SharesAre DEF TypeInv
<1>2. ASSUME NEW r \in Request
      PROVE  IF pc[r] = "idle" THEN req[r] = NoRequest
             ELSE /\ req[r].op \in Op /\ req[r].txn \in Txn /\ req[r].amount \in Amount \cup {0}
                  /\ req[r].goals \in SUBSET Goal
                  /\ IsShares(req[r].old) /\ IsShares(req[r].total)
  <2>1. CASE pc[r] = "idle"
    BY <2>1 DEF TypeInv
  <2>2. CASE pc[r] # "idle"
    <3>1. req[r] \in Held
      BY <2>2 DEF TypeInv
    <3> QED
      BY <2>2, <3>1, SharesAre DEF Held
  <2> QED
    BY <2>1, <2>2
<1> QED
  BY <1>1, <1>2 DEF TypeInv, TypeOK

(* No shares are shares, too.                                              *)
LEMMA NoSharesAre == NoShares \in AllShares
<1>1. NoShares \in [{} -> Nat]
  BY DEF NoShares
<1> QED
  BY <1>1 DEF AllShares

(* A share is a number.                                                    *)
LEMMA ShareNat ==
  ASSUME NEW s \in AllShares, NEW g
  PROVE  Share(s, g) \in Nat
BY DEF AllShares, Share

(* So is the amount of a row or a request.                                 *)
LEMMA AmountNat ==
  ASSUME NEW a \in Amount \cup {0}
  PROVE  a \in Nat
<1>1. Amount \subseteq Nat
  BY LedgerConstants
<1> QED
  BY <1>1

(* A request that keeps to its steps and to what it holds keeps the types. *)
LEMMA HeldKept ==
  ASSUME TypeInv, NEW r \in Request,
         pc' = [pc EXCEPT ![r] = pc'[r]], req' = [req EXCEPT ![r] = req'[r]],
         pc'[r] \in {"idle", "row", "links", "adjust", "read", "write"},
         pc'[r] = "idle" => req'[r] = NoRequest,
         pc'[r] # "idle" => req'[r] \in Held,
         pc'[r] = "write" => DOMAIN req'[r].total = Touched(r)'
  PROVE  /\ pc' \in [Request -> {"idle", "row", "links", "adjust", "read", "write"}]
         /\ req' \in [Request -> Held \cup {NoRequest}]
         /\ \A q \in Request : IF pc'[q] = "idle" THEN req'[q] = NoRequest ELSE req'[q] \in Held
         /\ \A q \in Request : pc'[q] = "write" => DOMAIN req'[q].total = Touched(q)'
<1>1. \A q \in Request \ {r} : pc'[q] = pc[q] /\ req'[q] = req[q]
  BY DEF TypeInv
<1>2. /\ pc' \in [Request -> {"idle", "row", "links", "adjust", "read", "write"}]
      /\ req' \in [Request -> Held \cup {NoRequest}]
  BY DEF TypeInv
<1>3. \A q \in Request : IF pc'[q] = "idle" THEN req'[q] = NoRequest ELSE req'[q] \in Held
  BY <1>1 DEF TypeInv
<1>4. ASSUME NEW q \in Request, pc'[q] = "write"
      PROVE  DOMAIN req'[q].total = Touched(q)'
  <2>1. CASE q = r
    BY <1>4, <2>1
  <2>2. CASE q # r
    <3>1. req'[q] = req[q] /\ pc[q] = "write"
      BY <1>1, <1>4, <2>2
    <3>2. Touched(q)' = Touched(q)
      BY <3>1 DEF Touched
    <3> QED
      BY <3>1, <3>2 DEF TypeInv
  <2> QED
    BY <2>1, <2>2
<1> QED
  BY <1>2, <1>3, <1>4

(* What the reconciliation sees of a transaction are shares.               *)
LEMMA RecoveredShares ==
  ASSUME TypeInv, NEW t \in Txn, NEW S, NEW s \in Recovered(t, S)
  PROVE  s \in AllShares
<1> DEFINE seen == DOMAIN link[t] \cap S
<1>1. PICK D \in SUBSET Goal : link[t] \in [D -> Nat]
  BY DEF TypeInv, AllShares
<1>2. seen \in SUBSET Goal /\ seen \subseteq D
  BY <1>1
<1>3. CASE ~Counts(t)
  BY <1>3, NoSharesAre DEF Recovered
<1>4. CASE Counts(t) /\ \A g \in seen : link[t][g] = 0
  <2>1. s \in Allocations(amount[t], seen)
    BY <1>4 DEF Recovered
  <2>2. amount[t] \in Nat
    <3>1. amount[t] \in Amount \cup {0}
      BY DEF TypeInv
    <3> QED
      BY <3>1, AmountNat
  <2> QED
    BY <1>2, <2>1, <2>2, AllocationShares
<1>5. CASE Counts(t) /\ ~ \A g \in seen : link[t][g] = 0
  <2>1. s = [g \in seen |-> link[t][g]]
    BY <1>5 DEF Recovered, Restrict
  <2>2. s \in [seen -> Nat]
    BY <1>1, <1>2, <2>1
  <2> QED
    BY <1>2, <2>2 DEF AllShares
<1> QED
  BY <1>3, <1>4, <1>5

(* The totals that are read are numbers, one for each goal touched.        *)
LEMMA TypeReadTotals ==
  ASSUME TypeInv, NEW r \in Request, ReadTotals(r)
  PROVE  TypeInv'
<1>1. PICK seen \in [Txn -> UNION {Recovered(u, Touched(r)) : u \in Txn}] :
        /\ \A u \in Txn : seen[u] \in Recovered(u, Touched(r))
        /\ req' = [req EXCEPT ![r].total =
             [g \in Touched(r) |-> SumOf([u \in Txn |-> Share(seen[u], g)])]]
  BY DEF ReadTotals
<1> DEFINE total == [g \in Touched(r) |-> SumOf([u \in Txn |-> Share(seen[u], g)])]
<1>2. /\ pc[r] = "read" /\ pc' = [pc EXCEPT ![r] = "write"]
      /\ UNCHANGED <<ledgerVars, goalVars, altered>> /\ suspect' = suspect \ Touched(r)
  BY DEF ReadTotals, Moves
<1>3. req[r] \in Held
  BY <1>2 DEF TypeInv
<1>4. Touched(r) \in SUBSET Goal
  <2>1. req[r].goals \in SUBSET Goal /\ req[r].old \in AllShares
    BY <1>3 DEF Held
  <2> QED
    BY <2>1 DEF Touched, AllShares
<1>5. \A g \in Touched(r) : SumOf([u \in Txn |-> Share(seen[u], g)]) \in Nat
  <2> SUFFICES ASSUME NEW g \in Touched(r)
               PROVE  SumOf([u \in Txn |-> Share(seen[u], g)]) \in Nat
    OBVIOUS
  <2>1. [u \in Txn |-> Share(seen[u], g)] \in [Txn -> Nat]
    BY <1>1, RecoveredShares, ShareNat
  <2> QED
    BY <2>1, SumNat, LedgerConstants
<1>6. total \in AllShares /\ DOMAIN total = Touched(r)
  <2>1. total \in [Touched(r) -> Nat]
    BY <1>5
  <2> QED
    BY <1>4, <2>1 DEF AllShares
<1>7. req'[r] = [req[r] EXCEPT !.total = total]
  BY <1>1 DEF TypeInv
<1> HIDE DEF total
<1>8. req'[r] \in Held /\ req'[r].total = total /\ Touched(r)' = Touched(r)
  BY <1>3, <1>6, <1>7 DEF Held, Touched
<1>9. req' = [req EXCEPT ![r] = req'[r]] /\ pc' = [pc EXCEPT ![r] = pc'[r]] /\ pc'[r] = "write"
  BY <1>1, <1>2 DEF TypeInv
<1>10. /\ pc' \in [Request -> {"idle", "row", "links", "adjust", "read", "write"}]
       /\ req' \in [Request -> Held \cup {NoRequest}]
       /\ \A q \in Request : IF pc'[q] = "idle" THEN req'[q] = NoRequest ELSE req'[q] \in Held
       /\ \A q \in Request : pc'[q] = "write" => DOMAIN req'[q].total = Touched(q)'
  BY <1>6, <1>8, <1>9, HeldKept
<1> QED
  BY <1>2, <1>10 DEF TypeInv, ledgerVars, goalVars

(* A request begins with an operation on a transaction.                    *)
LEMMA SomeBegin ==
  ASSUME NEW r \in Request, BeginCreate(r) \/ BeginUpdate(r) \/ BeginDelete(r)
  PROVE  \E op \in Op, t \in Txn, a \in Amount \cup {0}, S \in SUBSET Goal :
           Begin(r, op, t, a, S)
<1>1. CASE BeginCreate(r)
  BY <1>1 DEF BeginCreate, Op
<1>2. CASE BeginUpdate(r)
  BY <1>2 DEF BeginUpdate, Op
<1>3. CASE BeginDelete(r)
  BY <1>3 DEF BeginDelete, Op
<1> QED
  BY <1>1, <1>2, <1>3

(* The other steps of a request.                                           *)
LEMMA TypeRequest ==
  ASSUME TypeInv, NEW r \in Request, RequestStep(r)
  PROVE  TypeInv'
<1> DEFINE Kinds == {"idle", "row", "links", "adjust", "read", "write"}
<1>0. pc[r] # "idle" => req[r] \in Held /\ Touched(r) \in SUBSET Goal /\ req[r].txn \in Txn
  <2> SUFFICES ASSUME pc[r] # "idle"
               PROVE  req[r] \in Held /\ Touched(r) \in SUBSET Goal /\ req[r].txn \in Txn
    OBVIOUS
  <2>1. req[r] \in Held
    BY DEF TypeInv
  <2>2. req[r].goals \in SUBSET Goal /\ req[r].old \in AllShares /\ req[r].txn \in Txn
    BY <2>1 DEF Held
  <2> QED
    BY <2>1, <2>2 DEF Touched, AllShares
<1>1. ASSUME NEW op \in Op, NEW t \in Txn, NEW a \in Amount \cup {0}, NEW S \in SUBSET Goal,
             Begin(r, op, t, a, S)
      PROVE  TypeInv'
  <2> DEFINE q == [op |-> op, txn |-> t, amount |-> a, goals |-> S, total |-> NoShares,
                   old |-> IF Counts(t) THEN link[t] ELSE NoShares]
  <2>1. q \in Held
    BY NoSharesAre DEF Held, TypeInv
  <2>2. /\ pc' = [pc EXCEPT ![r] = "row"] /\ req' = [req EXCEPT ![r] = q]
        /\ UNCHANGED <<ledgerVars, goalVars, doubtVars>>
    BY <1>1 DEF Begin
  <2>3. pc'[r] = "row" /\ req'[r] = q
    BY <2>2 DEF TypeInv
  <2> HIDE DEF q
  <2>4. /\ pc' \in [Request -> Kinds] /\ req' \in [Request -> Held \cup {NoRequest}]
        /\ \A s \in Request : IF pc'[s] = "idle" THEN req'[s] = NoRequest ELSE req'[s] \in Held
        /\ \A s \in Request : pc'[s] = "write" => DOMAIN req'[s].total = Touched(s)'
    BY <2>1, <2>2, <2>3, HeldKept
  <2> QED
    BY <2>2, <2>4 DEF TypeInv, ledgerVars, goalVars, doubtVars
<1>2. CASE WriteRow(r)
  <2>1. /\ pc[r] = "row" /\ req' = req
        /\ pc' = [pc EXCEPT ![r] = "adjust"] \/ pc' = [pc EXCEPT ![r] = "links"]
    BY <1>2 DEF WriteRow, Moves
  <2>2. /\ pc' \in [Request -> Kinds] /\ req' \in [Request -> Held \cup {NoRequest}]
        /\ \A s \in Request : IF pc'[s] = "idle" THEN req'[s] = NoRequest ELSE req'[s] \in Held
        /\ \A s \in Request : pc'[s] = "write" => DOMAIN req'[s].total = Touched(s)'
    BY <2>1, HeldKept DEF TypeInv
  <2>3. req[r].txn \in Txn /\ req[r].amount \in Amount \cup {0}
    BY <1>0, <2>1 DEF Held
  <2>4. /\ row' \in [Txn -> {"absent", "live", "deleted"}] /\ saving' \in SUBSET Txn
        /\ amount' \in [Txn -> Amount \cup {0}]
        /\ altered' = altered \ {req[r].txn}
        /\ UNCHANGED <<link, goalVars, suspect>>
    BY <1>2, <2>3 DEF WriteRow, TypeInv
  <2> QED
    BY <2>2, <2>4 DEF TypeInv, goalVars
<1>3. CASE RowGone(r) \/ WriteTotals(r)
  <2>1. /\ pc[r] # "idle" /\ pc' = [pc EXCEPT ![r] = "idle"]
        /\ req' = [req EXCEPT ![r] = NoRequest]
        /\ UNCHANGED <<ledgerVars, goal, doubtVars>>
    BY <1>3 DEF RowGone, WriteTotals, Moves, goalVars
  <2>2. pc'[r] = "idle" /\ req'[r] = NoRequest
    BY <2>1 DEF TypeInv
  <2>3. /\ pc' \in [Request -> Kinds] /\ req' \in [Request -> Held \cup {NoRequest}]
        /\ \A s \in Request : IF pc'[s] = "idle" THEN req'[s] = NoRequest ELSE req'[s] \in Held
        /\ \A s \in Request : pc'[s] = "write" => DOMAIN req'[s].total = Touched(s)'
    BY <2>1, <2>2, HeldKept
  <2>4. current' \in [Goal -> Int]
    <3>1. CASE RowGone(r)
      BY <3>1 DEF RowGone, goalVars, TypeInv
    <3>2. CASE WriteTotals(r)
      <4>1. /\ pc[r] = "write"
            /\ current' = [g \in Goal |->
                 IF g \in Touched(r) /\ goal[g] = "live" THEN req[r].total[g] ELSE current[g]]
        BY <3>2 DEF WriteTotals, Moves
      <4>2. req[r].total \in AllShares /\ DOMAIN req[r].total = Touched(r)
        BY <1>0, <4>1 DEF Held, TypeInv
      <4>3. \A g \in Touched(r) : req[r].total[g] \in Int
        BY <4>2 DEF AllShares
      <4> QED
        BY <4>1, <4>3 DEF TypeInv
    <3> QED
      BY <1>3, <3>1, <3>2
  <2> QED
    BY <2>1, <2>3, <2>4 DEF TypeInv, ledgerVars, doubtVars
<1>4. CASE ReplaceLinks(r)
  <2>1. /\ pc[r] = "links" /\ req' = req
        /\ pc' = [pc EXCEPT ![r] = "adjust"] \/ pc' = [pc EXCEPT ![r] = "read"]
        /\ UNCHANGED <<row, saving, amount, goalVars, doubtVars>>
    BY <1>4 DEF ReplaceLinks, Moves
  <2>2. /\ pc' \in [Request -> Kinds] /\ req' \in [Request -> Held \cup {NoRequest}]
        /\ \A s \in Request : IF pc'[s] = "idle" THEN req'[s] = NoRequest ELSE req'[s] \in Held
        /\ \A s \in Request : pc'[s] = "write" => DOMAIN req'[s].total = Touched(s)'
    BY <2>1, HeldKept DEF TypeInv
  <2>3. PICK s \in Allocations(req[r].amount, req[r].goals) :
          link' = [link EXCEPT ![req[r].txn] = s]
    BY <1>4 DEF ReplaceLinks
  <2>4. req[r].amount \in Nat /\ req[r].goals \in SUBSET Goal
    BY <1>0, <2>1, AmountNat DEF Held
  <2>5. s \in AllShares
    BY <2>4, AllocationShares
  <2>6. link' \in [Txn -> AllShares]
    BY <2>3, <2>5 DEF TypeInv
  <2> QED
    BY <2>1, <2>2, <2>6 DEF TypeInv, goalVars, doubtVars
<1>5. CASE Adjust(r)
  <2>1. /\ pc[r] = "adjust" /\ req' = req
        /\ pc' = [pc EXCEPT ![r] = "links"] \/ pc' = [pc EXCEPT ![r] = "read"]
        /\ UNCHANGED <<ledgerVars, goal, doubtVars>>
        /\ current' \in [Goal -> Shown]
    BY <1>5 DEF Adjust, Moves
  <2>2. /\ pc' \in [Request -> Kinds] /\ req' \in [Request -> Held \cup {NoRequest}]
        /\ \A s \in Request : IF pc'[s] = "idle" THEN req'[s] = NoRequest ELSE req'[s] \in Held
        /\ \A s \in Request : pc'[s] = "write" => DOMAIN req'[s].total = Touched(s)'
    BY <2>1, HeldKept DEF TypeInv
  <2>3. current' \in [Goal -> Int]
    BY <2>1, LedgerConstants
  <2> QED
    BY <2>1, <2>2, <2>3 DEF TypeInv, ledgerVars, doubtVars
<1>6. CASE Fail(r)
  <2>1. /\ pc[r] # "idle" /\ pc' = [pc EXCEPT ![r] = "idle"]
        /\ req' = [req EXCEPT ![r] = NoRequest]
        /\ UNCHANGED <<ledgerVars, goalVars>>
    BY <1>6 DEF Fail
  <2>2. pc'[r] = "idle" /\ req'[r] = NoRequest
    BY <2>1 DEF TypeInv
  <2>3. /\ pc' \in [Request -> Kinds] /\ req' \in [Request -> Held \cup {NoRequest}]
        /\ \A s \in Request : IF pc'[s] = "idle" THEN req'[s] = NoRequest ELSE req'[s] \in Held
        /\ \A s \in Request : pc'[s] = "write" => DOMAIN req'[s].total = Touched(s)'
    BY <2>1, <2>2, HeldKept
  <2>4. suspect' \in SUBSET Goal /\ altered' \in SUBSET Txn
    <3>1. DOMAIN link[req[r].txn] \subseteq Goal
      BY <1>0, <2>1 DEF TypeInv, AllShares
    <3> QED
      BY <1>0, <1>6, <2>1, <3>1 DEF Fail, doubtVars, TypeInv
  <2> QED
    BY <2>1, <2>3, <2>4 DEF TypeInv, ledgerVars, goalVars
<1>7. CASE BeginCreate(r) \/ BeginUpdate(r) \/ BeginDelete(r)
  <2>1. PICK op \in Op, t \in Txn, a \in Amount \cup {0}, S \in SUBSET Goal : Begin(r, op, t, a, S)
    BY <1>7, SomeBegin
  <2> QED
    BY <1>1, <2>1
<1> QED
  BY <1>2, <1>3, <1>4, <1>5, <1>6, <1>7, TypeReadTotals DEF RequestStep

(* Every step keeps the types.                                             *)
LEMMA TypeNext == TypeInv /\ [Next]_vars => TypeInv'
<1> SUFFICES ASSUME TypeInv, [Next]_vars PROVE TypeInv'
  OBVIOUS
<1>1. ASSUME UNCHANGED <<pc, req>>
      PROVE  /\ \A r \in Request : IF pc'[r] = "idle" THEN req'[r] = NoRequest ELSE req'[r] \in Held
             /\ \A r \in Request : pc'[r] = "write" => DOMAIN req'[r].total = Touched(r)'
  BY <1>1 DEF TypeInv, Touched
<1>2. ASSUME NEW g \in Goal, GoalStep(g) PROVE TypeInv'
  <2>1. /\ UNCHANGED <<ledgerVars, pc, req, altered>>
        /\ goal' \in [Goal -> {"absent", "live", "deleted"}]
        /\ current' \in [Goal -> Int] /\ suspect' \in SUBSET Goal
    <3>1. CASE DeleteGoal(g)
      BY <3>1 DEF DeleteGoal, doubtVars, TypeInv
    <3>2. ASSUME NEW a \in Entered, CreateGoal(g, a) \/ EditGoal(g, a)
          PROVE  /\ UNCHANGED <<ledgerVars, pc, req, altered>>
                 /\ goal' \in [Goal -> {"absent", "live", "deleted"}]
                 /\ current' \in [Goal -> Int] /\ suspect' \in SUBSET Goal
      <4>1. a \in Int
        BY LedgerConstants
      <4>2. /\ goal \in [Goal -> {"absent", "live", "deleted"}]
            /\ current \in [Goal -> Int] /\ suspect \in SUBSET Goal
        BY DEF TypeInv
      <4>3. /\ current' = [current EXCEPT ![g] = a] /\ suspect' = suspect \cup {g}
            /\ \/ goal' = goal
               \/ goal' = [goal EXCEPT ![g] = "live"]
            /\ UNCHANGED <<ledgerVars, pc, req, altered>>
        BY <3>2 DEF CreateGoal, EditGoal
      <4> QED
        BY <4>1, <4>2, <4>3
    <3> QED
      BY <1>2, <3>1, <3>2 DEF GoalStep
  <2> QED
    BY <1>1, <2>1 DEF TypeInv, ledgerVars
<1>3. ASSUME NEW t \in Txn, ChatStep(t) PROVE TypeInv'
  <2>1. DOMAIN link[t] \subseteq Goal
    BY DEF TypeInv, AllShares
  <2>2. /\ UNCHANGED <<link, goalVars, pc, req>>
        /\ row' \in [Txn -> {"absent", "live", "deleted"}]
        /\ saving' \in SUBSET Txn /\ amount' \in [Txn -> Amount \cup {0}]
        /\ suspect' \in SUBSET Goal /\ altered' \in SUBSET Txn
    BY <1>3, <2>1 DEF ChatStep, ChatDelete, ChatUpdate, TypeInv
  <2> QED
    BY <1>1, <2>2 DEF TypeInv, goalVars
<1>4. CASE UNCHANGED vars
  BY <1>1, <1>4 DEF TypeInv, vars, ledgerVars, goalVars, doubtVars
<1> QED
  BY <1>2, <1>3, <1>4, TypeRequest DEF Next

(* The first state is well typed.                                          *)
LEMMA TypeInit == Init => TypeInv
<1> SUFFICES ASSUME Init PROVE TypeInv
  OBVIOUS
<1>1. link \in [Txn -> AllShares]
  BY NoSharesAre DEF Init
<1> QED
  BY <1>1 DEF Init, TypeInv

(***************************************************************************)
(* The shares of a transaction.                                            *)
(***************************************************************************)

(* A step that leaves the row and the links of a transaction as they are,  *)
(* and the request that links it, leaves its shares in order.              *)
LEMMA SharesKept ==
  ASSUME NEW t \in Txn, SharesOK(t),
         row'[t] = row[t], t \in saving' <=> t \in saving, amount'[t] = amount[t],
         link'[t] = link[t], t \in altered => t \in altered',
         Linking(t) => Linking(t)'
  PROVE  SharesOK(t)'
BY DEF SharesOK, Counts

(* A step of a request that changes no row and no links.                   *)
LEMMA QuietStep ==
  ASSUME SharesInv, NEW r \in Request, UNCHANGED <<row, saving, amount, link, altered>>,
         \A s \in Request \ {r} : pc'[s] = pc[s] /\ req'[s] = req[s],
         pc[r] # "links",
         pc'[r] # "idle" =>
           /\ pc[r] # "idle"
           /\ req'[r].txn = req[r].txn /\ req'[r].op = req[r].op,
         pc'[r] = "adjust" => pc[r] = "adjust",
         pc'[r] = "links" => pc[r] = "adjust" /\ req[r].op = "delete"
  PROVE  SharesInv'
<1>1. Alone'
  BY DEF SharesInv, Alone
<1>2. ASSUME NEW s \in Request PROVE GoneOK(s)' /\ WrittenOK(s)'
  <2>1. CASE s = r
    BY <2>1 DEF SharesInv, GoneOK, WrittenOK
  <2>2. CASE s # r
    BY <2>2 DEF SharesInv, GoneOK, WrittenOK
  <2> QED
    BY <2>1, <2>2
<1>3. ASSUME NEW t \in Txn PROVE SharesOK(t)'
  <2>1. Linking(t) => Linking(t)'
    BY DEF Linking
  <2> QED
    BY <2>1, SharesKept DEF SharesInv
<1> QED
  BY <1>1, <1>2, <1>3 DEF SharesInv

(* A request that begins is alone with its transaction.                    *)
LEMMA SharesBegin ==
  ASSUME TypeInv, SharesInv, NEW r \in Request,
         NEW op, NEW t \in Txn, NEW a, NEW S, Begin(r, op, t, a, S)
  PROVE  SharesInv'
<1>1. /\ pc[r] = "idle" /\ pc' = [pc EXCEPT ![r] = "row"] /\ ~InUse(t)
      /\ req'[r].txn = t /\ \A s \in Request \ {r} : req'[s] = req[s]
      /\ UNCHANGED <<row, saving, amount, link, altered>>
  BY DEF Begin, ledgerVars, doubtVars, TypeInv
<1>2. pc'[r] = "row" /\ \A s \in Request \ {r} : pc'[s] = pc[s]
  BY <1>1 DEF TypeInv
<1>3. Alone'
  BY <1>1, <1>2 DEF SharesInv, Alone, InUse
<1>4. ASSUME NEW s \in Request PROVE GoneOK(s)' /\ WrittenOK(s)'
  BY <1>1, <1>2 DEF SharesInv, GoneOK, WrittenOK
<1>5. ASSUME NEW u \in Txn PROVE SharesOK(u)'
  <2>1. Linking(u) => Linking(u)'
    BY <1>1, <1>2 DEF Linking
  <2> QED
    BY <1>1, <2>1, SharesKept DEF SharesInv
<1> QED
  BY <1>3, <1>4, <1>5 DEF SharesInv

(* A request that writes its row has it for itself until it has linked it. *)
LEMMA SharesWriteRow ==
  ASSUME TypeInv, SharesInv, NEW r \in Request, WriteRow(r)
  PROVE  SharesInv'
<1> DEFINE t == req[r].txn
<1>1. /\ pc[r] = "row" /\ req' = req /\ link' = link /\ altered' = altered \ {t}
      /\ \A s \in Request \ {r} : pc'[s] = pc[s]
      /\ t \in Txn
  BY DEF WriteRow, Moves, TypeInv, Held
<1>2. \A u \in Txn \ {t} : /\ row'[u] = row[u] /\ amount'[u] = amount[u]
                           /\ u \in saving' <=> u \in saving
                           /\ u \in altered' <=> u \in altered
  BY <1>1 DEF WriteRow, TypeInv
<1>3. \/ req[r].op = "delete" /\ pc'[r] = "adjust" /\ row'[t] = "deleted"
      \/ /\ req[r].op # "delete" /\ pc'[r] = "links" /\ amount'[t] = req[r].amount
         /\ t \in saving' => req[r].goals # {}
  BY <1>1 DEF WriteRow, Moves, TypeInv
<1>4. \A s \in Request \ {r} : pc[s] # "idle" => req[s].txn # t /\ req[s].txn \in Txn
  BY <1>1 DEF SharesInv, Alone, TypeInv, Held
<1>5. Alone'
  BY <1>1 DEF SharesInv, Alone
<1>6. ASSUME NEW s \in Request PROVE GoneOK(s)' /\ WrittenOK(s)'
  <2>1. CASE s = r
    BY <1>1, <1>3, <2>1 DEF GoneOK, WrittenOK
  <2>2. CASE s # r
    BY <1>1, <1>2, <1>4, <2>2 DEF SharesInv, GoneOK, WrittenOK
  <2> QED
    BY <2>1, <2>2
<1>7. ASSUME NEW u \in Txn PROVE SharesOK(u)'
  <2>1. CASE u = t
    BY <1>1, <1>3, <2>1 DEF SharesOK, Counts, Linking
  <2>2. CASE u # t
    <3>1. Linking(u) => Linking(u)'
      BY <1>1 DEF Linking
    <3> QED
      BY <1>1, <1>2, <2>2, <3>1, SharesKept DEF SharesInv
  <2> QED
    BY <2>1, <2>2
<1> QED
  BY <1>5, <1>6, <1>7 DEF SharesInv

(* Its links then share out the amount that it has written.                *)
LEMMA SharesReplaceLinks ==
  ASSUME TypeInv, SharesInv, NEW r \in Request, ReplaceLinks(r)
  PROVE  SharesInv'
<1> DEFINE t == req[r].txn
<1>1. /\ pc[r] = "links" /\ req' = req /\ pc'[r] \in {"read", "adjust"}
      /\ req[r].op = "delete" => pc'[r] = "read"
      /\ \A s \in Request \ {r} : pc'[s] = pc[s]
      /\ UNCHANGED <<row, saving, amount, altered>>
  BY DEF ReplaceLinks, Moves, TypeInv, doubtVars
<1>2. t \in Txn /\ req[r].amount \in Nat /\ req[r].goals \in SUBSET Goal
  <2>1. req[r] \in Held
    BY <1>1 DEF TypeInv
  <2> QED
    BY <2>1, AmountNat DEF Held
<1>3. PICK x \in Allocations(req[r].amount, req[r].goals) : link' = [link EXCEPT ![t] = x]
  BY DEF ReplaceLinks
<1>4. link'[t] = x /\ \A u \in Txn \ {t} : link'[u] = link[u]
  BY <1>2, <1>3 DEF TypeInv
<1>5. Alone'
  BY <1>1 DEF SharesInv, Alone
<1>6. ASSUME NEW s \in Request PROVE GoneOK(s)' /\ WrittenOK(s)'
  <2>1. CASE s = r
    BY <1>1, <2>1 DEF GoneOK, WrittenOK
  <2>2. CASE s # r
    BY <1>1, <2>2 DEF SharesInv, GoneOK, WrittenOK
  <2> QED
    BY <2>1, <2>2
<1>7. SharesOK(t)'
  <2>1. CASE req[r].op = "delete"
    BY <1>1, <2>1 DEF SharesInv, GoneOK, SharesOK, Counts
  <2>2. CASE req[r].op # "delete" /\ t \notin altered /\ t \in saving
    <3>1. amount[t] = req[r].amount /\ req[r].goals # {}
      BY <1>1, <2>2 DEF SharesInv, WrittenOK
    <3>2. SumOf(x) = req[r].amount
      BY <1>2, <1>3, <3>1, AllocationAddsUp
    <3> QED
      BY <1>1, <1>4, <3>1, <3>2 DEF SharesOK
  <2> QED
    BY <1>1, <2>1, <2>2 DEF SharesOK, Counts
<1>8. ASSUME NEW u \in Txn \ {t} PROVE SharesOK(u)'
  <2>1. Linking(u) => Linking(u)'
    BY <1>1, <1>8 DEF Linking
  <2> QED
    BY <1>1, <1>4, <1>8, <2>1, SharesKept DEF SharesInv
<1> QED
  <2>1. t' = t
    BY <1>1
  <2>2. \A u \in Txn : SharesOK(u)'
    BY <1>7, <1>8, <2>1
  <2> QED
    BY <1>5, <1>6, <2>2 DEF SharesInv

(* A request that fails after it has written its row leaves it in doubt.   *)
LEMMA SharesFail ==
  ASSUME TypeInv, SharesInv, NEW r \in Request, Fail(r)
  PROVE  SharesInv'
<1>1. /\ pc[r] # "idle" /\ pc'[r] = "idle"
      /\ \A s \in Request \ {r} : pc'[s] = pc[s] /\ req'[s] = req[s]
      /\ UNCHANGED <<row, saving, amount, link>>
      /\ altered \subseteq altered'
      /\ pc[r] # "row" => req[r].txn \in altered'
  BY DEF Fail, ledgerVars, doubtVars, TypeInv
<1>2. Alone'
  BY <1>1 DEF SharesInv, Alone
<1>3. ASSUME NEW s \in Request PROVE GoneOK(s)' /\ WrittenOK(s)'
  <2>1. CASE s = r
    BY <1>1, <2>1 DEF GoneOK, WrittenOK
  <2>2. CASE s # r
    BY <1>1, <2>2 DEF SharesInv, GoneOK, WrittenOK
  <2> QED
    BY <2>1, <2>2
<1>4. ASSUME NEW u \in Txn PROVE SharesOK(u)'
  <2>1. CASE u \in altered'
    BY <2>1 DEF SharesOK
  <2>2. CASE u \notin altered'
    <3>1. Linking(u) => Linking(u)'
      BY <1>1, <2>2 DEF Linking
    <3> QED
      BY <1>1, <3>1, SharesKept DEF SharesInv
  <2> QED
    BY <2>1, <2>2
<1> QED
  BY <1>2, <1>3, <1>4 DEF SharesInv

(* All steps of a request.                                                 *)
LEMMA SharesRequest ==
  ASSUME TypeInv, SharesInv, NEW r \in Request, RequestStep(r)
  PROVE  SharesInv'
<1>1. CASE BeginCreate(r) \/ BeginUpdate(r) \/ BeginDelete(r)
  <2>1. PICK op \in Op, t \in Txn, a \in Amount \cup {0}, S \in SUBSET Goal : Begin(r, op, t, a, S)
    BY <1>1, SomeBegin
  <2> QED
    BY <2>1, SharesBegin
<1>2. CASE RowGone(r) \/ WriteTotals(r)
  <2>1. /\ pc[r] # "links" /\ pc'[r] = "idle"
        /\ \A s \in Request \ {r} : pc'[s] = pc[s] /\ req'[s] = req[s]
        /\ UNCHANGED <<row, saving, amount, link, altered>>
    BY <1>2 DEF RowGone, WriteTotals, Moves, ledgerVars, doubtVars, TypeInv
  <2> QED
    BY <2>1, QuietStep
<1>3. CASE Adjust(r)
  <2>1. /\ pc[r] = "adjust" /\ req' = req
        /\ \/ req[r].op = "delete" /\ pc'[r] = "links"
           \/ pc'[r] = "read"
        /\ \A s \in Request \ {r} : pc'[s] = pc[s]
        /\ UNCHANGED <<row, saving, amount, link, altered>>
    BY <1>3 DEF Adjust, Moves, ledgerVars, doubtVars, TypeInv
  <2> QED
    BY <2>1, QuietStep
<1>4. CASE ReadTotals(r)
  <2>1. /\ pc[r] = "read" /\ pc'[r] = "write" /\ req[r] \in Held
        /\ \A s \in Request \ {r} : pc'[s] = pc[s]
        /\ UNCHANGED <<row, saving, amount, link, altered>>
    BY <1>4 DEF ReadTotals, Moves, ledgerVars, TypeInv
  <2>2. PICK total : req' = [req EXCEPT ![r].total = total]
    BY <1>4 DEF ReadTotals
  <2>3. /\ req'[r].txn = req[r].txn /\ req'[r].op = req[r].op
        /\ \A s \in Request \ {r} : req'[s] = req[s]
    BY <2>1, <2>2 DEF TypeInv, Held
  <2> QED
    BY <2>1, <2>3, QuietStep
<1> QED
  BY <1>1, <1>2, <1>3, <1>4, SharesWriteRow, SharesReplaceLinks, SharesFail DEF RequestStep

(* Every step keeps the shares in order.                                   *)
LEMMA SharesNext == TypeInv /\ SharesInv /\ [Next]_vars => SharesInv'
<1> SUFFICES ASSUME TypeInv, SharesInv, [Next]_vars PROVE SharesInv'
  OBVIOUS
<1>1. ASSUME UNCHANGED <<pc, req, link>>, altered \subseteq altered',
             \A t \in Txn : \/ t \in altered'
                            \/ row'[t] = row[t] /\ amount'[t] = amount[t]
                               /\ (t \in saving' <=> t \in saving),
             \A t \in Txn : row[t] = "deleted" => row'[t] = "deleted"
      PROVE  SharesInv'
  <2>1. Alone'
    BY <1>1 DEF SharesInv, Alone
  <2>2. ASSUME NEW s \in Request PROVE GoneOK(s)' /\ WrittenOK(s)'
    <3>1. pc[s] # "idle" => req[s].txn \in Txn
      BY DEF TypeInv, Held
    <3> QED
      BY <1>1, <3>1 DEF SharesInv, GoneOK, WrittenOK
  <2>3. ASSUME NEW t \in Txn PROVE SharesOK(t)'
    <3>1. CASE t \in altered'
      BY <3>1 DEF SharesOK
    <3>2. CASE t \notin altered'
      <4>1. Linking(t) => Linking(t)'
        BY <1>1 DEF Linking
      <4> QED
        BY <1>1, <3>2, <4>1, SharesKept DEF SharesInv
    <3> QED
      BY <3>1, <3>2
  <2> QED
    BY <2>1, <2>2, <2>3 DEF SharesInv
<1>2. ASSUME NEW g \in Goal, GoalStep(g) PROVE SharesInv'
  <2>1. UNCHANGED <<row, saving, amount, link, pc, req, altered>>
    BY <1>2 DEF GoalStep, CreateGoal, EditGoal, DeleteGoal, ledgerVars, doubtVars
  <2> QED
    BY <1>1, <2>1
<1>3. ASSUME NEW t \in Txn, ChatStep(t) PROVE SharesInv'
  <2>1. /\ UNCHANGED <<link, pc, req>> /\ altered' = altered \cup {t}
        /\ \A u \in Txn \ {t} : /\ row'[u] = row[u] /\ amount'[u] = amount[u]
                                /\ u \in saving' <=> u \in saving
        /\ row'[t] \in {row[t], "deleted"}
    BY <1>3 DEF ChatStep, ChatDelete, ChatUpdate, TypeInv
  <2> QED
    BY <1>1, <2>1
<1>4. CASE UNCHANGED vars
  BY <1>1, <1>4 DEF vars, ledgerVars, doubtVars
<1> QED
  BY <1>2, <1>3, <1>4, SharesRequest DEF Next

(* Every state is well typed, for any transactions, goals, amounts and     *)
(* requests: the totals that a reconciliation computes are numbers, those  *)
(* of the goals it writes.                                                 *)
THEOREM TypeCorrect == Spec => []TypeOK
<1> QED
  BY TypeInit, TypeNext, TypeInvIsTypeOK, PTL DEF Spec

(* The shares of a savings transaction add up to its amount, for any       *)
(* number of requests at a time and any goals, unless a request is at work *)
(* on it or the chat or a failed request has left it half done.            *)
THEOREM SharesAreComplete == Spec => []SharesAddUp
<1>1. Init => SharesInv
  <2> SUFFICES ASSUME Init PROVE SharesInv
    OBVIOUS
  <2> QED
    BY DEF Init, SharesInv, Alone, GoneOK, WrittenOK, SharesOK, Counts
<1>2. SharesInv => SharesAddUp
  <2> SUFFICES ASSUME SharesInv, NEW t \in Txn
               PROVE  t \in altered \/ InUse(t) \/ ~Counts(t) \/ SumOf(link[t]) = amount[t]
    BY DEF SharesAddUp
  <2> QED
    BY DEF SharesInv, SharesOK, Linking, InUse
<1> QED
  BY <1>1, <1>2, TypeInit, TypeNext, SharesNext, PTL DEF Spec
=============================================================================
