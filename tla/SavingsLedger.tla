--------------------------- MODULE SavingsLedger ---------------------------
(***************************************************************************)
(* Transactions, the savings goals they are linked to, and the current     *)
(* amount each goal shows.  A request that creates, updates or deletes a   *)
(* transaction is a series of database transactions: the row, its links,   *)
(* a relative adjustment of the goals, and a reconciliation that reads all *)
(* links of the goals it touched and writes their totals.  Goals are also  *)
(* edited by hand, and the chat changes transactions and nothing else.     *)
(*                                                                         *)
(* Two requests on one transaction at the same time are left out.          *)
(***************************************************************************)
EXTENDS Integers, FiniteSets, Functions

CONSTANTS
  Txn,      \* transactions, each with a fresh id
  Goal,     \* savings goals
  Request,  \* requests the API process serves at a time
  Amount,   \* bound: amounts of transactions
  Entered,  \* bound: current amounts that people enter for a goal
  Shown,    \* bound: current amounts that adjustments lead to
  Faults    \* what may disturb a request, see FaultKind

FaultKind == {"error", "chat", "hand edit"}

ASSUME LedgerConstants ==
  /\ IsFiniteSet(Txn) /\ IsFiniteSet(Goal)   \* rows of a database
  /\ Amount \subseteq Nat \ {0}   \* ValidateCreateInput
  /\ Entered \subseteq Nat             \* validateInput
  /\ Shown \subseteq Int
  /\ Faults \subseteq FaultKind

VARIABLES
  row,      \* finance_transactions: "absent", "live" or "deleted"
  saving,   \* transactions whose type is savings
  amount,   \* amount_minor
  link,     \* finance_transaction_savings_links: share of each linked goal
  goal,     \* finance_savings: "absent", "live" or "deleted"
  current,  \* current_amount_minor
  pc, req,  \* the step of each request and what it holds
  \* for the properties: what a form, the chat or a failed request may
  \* have put off, until the next complete request on it
  suspect,  \* goals
  altered   \* transactions

ledgerVars == <<row, saving, amount, link>>
goalVars   == <<goal, current>>
doubtVars  == <<suspect, altered>>
vars == <<ledgerVars, goalVars, pc, req, doubtVars>>

IsShares(s) == /\ DOMAIN s \subseteq Goal
               /\ s \in [DOMAIN s -> Nat]
NoShares == [g \in {} |-> 0]

Share(s, g) == IF g \in DOMAIN s THEN s[g] ELSE 0

NoRequest == [op |-> "none"]
Op == {"create", "update", "delete"}

TypeOK ==
  /\ row \in [Txn -> {"absent", "live", "deleted"}]
  /\ saving \in SUBSET Txn
  /\ amount \in [Txn -> Amount \cup {0}]
  /\ DOMAIN link = Txn /\ \A t \in Txn : IsShares(link[t])
  /\ goal \in [Goal -> {"absent", "live", "deleted"}]
  /\ current \in [Goal -> Int]
  /\ pc \in [Request -> {"idle", "row", "links", "adjust", "read", "write"}]
  /\ \A r \in Request :
       IF pc[r] = "idle" THEN req[r] = NoRequest
       ELSE /\ req[r].op \in Op /\ req[r].txn \in Txn /\ req[r].amount \in Amount \cup {0}
            /\ req[r].goals \in SUBSET Goal /\ IsShares(req[r].old) /\ IsShares(req[r].total)
  /\ suspect \in SUBSET Goal
  /\ altered \in SUBSET Txn

Init ==
  /\ row = [t \in Txn |-> "absent"]
  /\ saving = {}
  /\ amount = [t \in Txn |-> 0]
  /\ link = [t \in Txn |-> NoShares]
  /\ goal = [g \in Goal |-> "absent"]
  /\ current = [g \in Goal |-> 0]
  /\ pc = [r \in Request |-> "idle"]
  /\ req = [r \in Request |-> NoRequest]
  /\ suspect = {} /\ altered = {}

-----------------------------------------------------------------------------
(* Shares                                                                  *)

SumOf(f) == SumFunction(f)

(* Mutant: the remainder of the division is dropped. *)
Allocations_NoRemainder(a, S) == {[g \in S |-> a \div Cardinality(S)]}

(* allocateSavingsAmounts: equal portions, and one more for the first      *)
(* goals; which goals come first depends on the caller's list.             *)
Allocations(a, S) ==
  LET portion == a \div Cardinality(S)
      first   == {F \in SUBSET S : Cardinality(F) = a % Cardinality(S)}
  IN IF S = {} THEN {NoShares}
     ELSE {[g \in S |-> IF g \in F THEN portion + 1 ELSE portion] : F \in first}

(* What the links of a transaction say of a goal, as far as they count.    *)
Counts(t) == row[t] = "live" /\ t \in saving
Contribution(t, g) == IF Counts(t) THEN Share(link[t], g) ELSE 0

(* The sum of the live links of a goal. *)
Total(g) == SumOf([t \in Txn |-> Contribution(t, g)])

-----------------------------------------------------------------------------
(* A request on a transaction                                              *)

InUse(t) == \E r \in Request : pc[r] # "idle" /\ req[r].txn = t

(* The goals the request adjusts and reconciles: those it selected and     *)
(* those the transaction was linked to.                                    *)
Touched(r) == req[r].goals \cup DOMAIN req[r].old

Begin(r, op, t, a, S) ==
  /\ pc[r] = "idle"
  /\ ~InUse(t)
  /\ \A g \in S : goal[g] = "live"   \* ValidateSavingsGoals
  /\ pc' = [pc EXCEPT ![r] = "row"]
  /\ req' = [req EXCEPT ![r] =
       [op |-> op, txn |-> t, amount |-> a, goals |-> S, total |-> NoShares,
        old |-> IF Counts(t) THEN link[t] ELSE NoShares]]
  /\ UNCHANGED <<ledgerVars, goalVars, doubtVars>>

(* A transaction of type savings needs a goal, any other has none: S = {}  *)
(* stands for the other types.  Links are read only of a savings row.      *)
BeginCreate(r) == \E t \in Txn, a \in Amount, S \in SUBSET Goal :
                    row[t] = "absent" /\ Begin(r, "create", t, a, S)
BeginUpdate(r) == \E t \in Txn, a \in Amount, S \in SUBSET Goal :
                    row[t] = "live" /\ Begin(r, "update", t, a, S)
BeginDelete(r) == \E t \in Txn : row[t] = "live" /\ Begin(r, "delete", t, 0, {})

Moves(r, from, to) == pc[r] = from /\ pc' = [pc EXCEPT ![r] = to]

(* The row is inserted, overwritten or marked deleted.  An update or       *)
(* delete of a row that the chat has deleted in between ends here.         *)
WriteRow(r) ==
  LET t == req[r].txn IN
  /\ pc[r] = "row"
  /\ req[r].op # "create" => row[t] = "live"
  /\ IF req[r].op = "delete"
     THEN Moves(r, "row", "adjust") /\ row' = [row EXCEPT ![t] = "deleted"]
          /\ UNCHANGED <<saving, amount>>
     ELSE /\ Moves(r, "row", "links")
          /\ row' = [row EXCEPT ![t] = "live"]
          /\ saving' = IF req[r].goals = {} THEN saving \ {t} ELSE saving \cup {t}
          /\ amount' = [amount EXCEPT ![t] = req[r].amount]
  /\ altered' = altered \ {t}
  /\ UNCHANGED <<link, goalVars, req, suspect>>

RowGone(r) ==
  /\ Moves(r, "row", "idle")
  /\ req[r].op # "create" /\ row[req[r].txn] # "live"
  /\ req' = [req EXCEPT ![r] = NoRequest]
  /\ UNCHANGED <<ledgerVars, goalVars, doubtVars>>

(* ReplaceSavingsLinks: the old links go, the new ones get their shares.   *)
ReplaceLinks(r) ==
  LET t == req[r].txn IN
  /\ Moves(r, "links", IF req[r].op = "delete" THEN "read" ELSE "adjust")
  /\ \E s \in Allocations(req[r].amount, req[r].goals) : link' = [link EXCEPT ![t] = s]
  /\ UNCHANGED <<row, saving, amount, goalVars, req, doubtVars>>

(* diffSavingsAllocations, or the reversal of a delete. *)
Delta(r, g) ==
  (IF req[r].op = "delete" THEN 0 ELSE Share(link[req[r].txn], g)) - Share(req[r].old, g)

(* AdjustSavingsCurrentAmounts, also of goals that are deleted. *)
Adjust(r) ==
  /\ Moves(r, "adjust", IF req[r].op = "delete" THEN "links" ELSE "read")
  /\ current' = [g \in Goal |->
       IF g \in Touched(r) THEN current[g] + Delta(r, g) ELSE current[g]]
  /\ current' \in [Goal -> Shown]
  /\ UNCHANGED <<ledgerVars, goal, req, doubtVars>>

(* What ReconcileSavingsCurrentAmounts sees of a transaction when it asks  *)
(* for the links of the goals S: links that are all zero are taken for old *)
(* ones without shares, and the amount is divided among them again.        *)
Recovered(t, S) ==
  LET seen == DOMAIN link[t] \cap S IN
  IF ~Counts(t) THEN {NoShares}
  ELSE IF \A g \in seen : link[t][g] = 0 THEN Allocations(amount[t], seen)
  ELSE {Restrict(link[t], seen)}

(* Mutant: deleted transactions are counted. *)
ReadTotals_Deleted(r) ==
  /\ Moves(r, "read", "write")
  /\ req' = [req EXCEPT ![r].total =
       [g \in Touched(r) |-> SumOf([t \in Txn |-> Share(link[t], g)])]]
  /\ suspect' = suspect \ Touched(r)
  /\ UNCHANGED <<ledgerVars, goalVars, altered>>

(* Its SELECT over the links, which no lock protects until the writes.     *)
ReadTotals(r) ==
  /\ Moves(r, "read", "write")
  /\ \E seen \in [Txn -> UNION {Recovered(t, Touched(r)) : t \in Txn}] :
       /\ \A t \in Txn : seen[t] \in Recovered(t, Touched(r))
       /\ req' = [req EXCEPT ![r].total =
            [g \in Touched(r) |-> SumOf([t \in Txn |-> Share(seen[t], g)])]]
  /\ suspect' = suspect \ Touched(r)
  /\ UNCHANGED <<ledgerVars, goalVars, altered>>

(* Its UPDATEs of the goals that are not deleted; the request is over.     *)
WriteTotals(r) ==
  /\ Moves(r, "write", "idle")
  /\ current' = [g \in Goal |->
       IF g \in Touched(r) /\ goal[g] = "live" THEN req[r].total[g] ELSE current[g]]
  /\ req' = [req EXCEPT ![r] = NoRequest]
  /\ UNCHANGED <<ledgerVars, goal, doubtVars>>

(* A database call fails or the process stops: what is committed stays.    *)
(* (A commit whose answer is lost is a failure of the next step.)          *)
Fail(r) ==
  /\ "error" \in Faults
  /\ pc[r] # "idle"
  /\ pc' = [pc EXCEPT ![r] = "idle"]
  /\ req' = [req EXCEPT ![r] = NoRequest]
  /\ IF pc[r] = "row" THEN UNCHANGED doubtVars
     ELSE /\ suspect' = suspect \cup Touched(r) \cup DOMAIN link[req[r].txn]
          /\ altered' = altered \cup {req[r].txn}
  /\ UNCHANGED <<ledgerVars, goalVars>>

-----------------------------------------------------------------------------
(* What happens beside the requests, each in one database transaction      *)

(* The form of a new goal has a current amount too. *)
CreateGoal(g, a) ==
  /\ goal[g] = "absent"
  /\ goal' = [goal EXCEPT ![g] = "live"]
  /\ current' = [current EXCEPT ![g] = a]
  /\ suspect' = suspect \cup {g}
  /\ UNCHANGED <<ledgerVars, pc, req, altered>>

(* The edit form writes the current amount it shows, or another.           *)
EditGoal(g, a) ==
  /\ "hand edit" \in Faults
  /\ goal[g] = "live"
  /\ current' = [current EXCEPT ![g] = a]
  /\ suspect' = suspect \cup {g}
  /\ UNCHANGED <<ledgerVars, goal, pc, req, altered>>

(* Mutant: the status of the form is written instead of deleted_at. *)
DeleteGoal_Archived(g) ==
  /\ goal[g] = "live"
  /\ goal' = [goal EXCEPT ![g] = "archived"]
  /\ UNCHANGED <<ledgerVars, current, pc, req, doubtVars>>

DeleteGoal(g) ==
  /\ goal[g] = "live"
  /\ goal' = [goal EXCEPT ![g] = "deleted"]
  /\ UNCHANGED <<ledgerVars, current, pc, req, doubtVars>>

(* DeleteChatTransaction and UpdateChatTransaction leave the links and the *)
(* goals as they are.                                                      *)
ChatDelete(t) ==
  /\ "chat" \in Faults
  /\ row[t] = "live"
  /\ row' = [row EXCEPT ![t] = "deleted"]
  /\ suspect' = suspect \cup DOMAIN link[t]
  /\ altered' = altered \cup {t}
  /\ UNCHANGED <<saving, amount, link, goalVars, pc, req>>

ChatUpdate(t, a) ==
  /\ "chat" \in Faults
  /\ row[t] = "live"
  /\ amount' = [amount EXCEPT ![t] = a]
  /\ saving' \in {saving \ {t}, saving \cup {t}}
  /\ suspect' = suspect \cup DOMAIN link[t]
  /\ altered' = altered \cup {t}
  /\ UNCHANGED <<row, link, goalVars, pc, req>>

-----------------------------------------------------------------------------
RequestStep(r) ==
  \/ BeginCreate(r) \/ BeginUpdate(r) \/ BeginDelete(r)
  \/ WriteRow(r) \/ RowGone(r) \/ ReplaceLinks(r) \/ Adjust(r)
  \/ ReadTotals(r) \/ WriteTotals(r) \/ Fail(r)

GoalStep(g) == \/ \E a \in Entered : CreateGoal(g, a) \/ EditGoal(g, a)
               \/ DeleteGoal(g)

ChatStep(t) == ChatDelete(t) \/ \E a \in Amount : ChatUpdate(t, a)

Next ==
  \/ \E r \in Request : RequestStep(r)
  \/ \E g \in Goal : GoalStep(g)
  \/ \E t \in Txn : ChatStep(t)

Spec == Init /\ [][Next]_vars
-----------------------------------------------------------------------------
(* Properties                                                              *)

(* A goal with a link that got nothing because the amount was smaller than *)
(* the number of goals.                                                    *)
EmptyShare(g) ==
  \E t \in Txn : Counts(t) /\ g \in DOMAIN link[t] /\ link[t][g] = 0

Settled == \A r \in Request : pc[r] = "idle"

Exact(g) == goal[g] = "live" => current[g] = Total(g)

(* When no request is under way, every goal shows the sum of its live      *)
(* links, unless somebody put it off since its last reconciliation: the    *)
(* form of the goal, the chat, a request that failed half way.  So a       *)
(* request repairs what others left behind on the goals it touches, and no *)
(* request disturbs a goal it does not reconcile (service.go 147-166,      *)
(* 436-459, 507-524).  Holds for one request at a time.                    *)
SettledIsExact ==
  Settled => \A g \in Goal : g \in suspect \/ EmptyShare(g) \/ Exact(g)

(* "... watch the progress of a savings goal in real time": the amount *)
(* of a goal is the sum of its links also when shares are empty.           *)
ProgressIsExact == Settled => \A g \in Goal : g \in suspect \/ Exact(g)

(* The shares of a savings transaction add up to its amount: nothing of it *)
(* is lost or counted twice when it is divided among goals, and no request *)
(* leaves it without links (repository_pg.go 463-496, 686-702).            *)
SharesAddUp ==
  \A t \in Txn : t \in altered \/ InUse(t) \/ ~Counts(t) \/ SumOf(link[t]) = amount[t]
=============================================================================
