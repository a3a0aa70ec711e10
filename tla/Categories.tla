----------------------------- MODULE Categories -----------------------------
(***************************************************************************)
(* The categories of a workspace and the budgets that name them.  Forms,   *)
(* the chatbot and budgets look a category up by name and insert it when   *)
(* it is missing, lists seed the default ones when there are none, and no  *)
(* index of the workspace's schema keeps names apart.  A budget stores the *)
(* ids as text, and two recursive queries follow the tree: one downwards,  *)
(* for what a budget counts, one upwards, for the budgets of an expense.   *)
(***************************************************************************)
EXTENDS Naturals, FiniteSets

CONSTANTS
  Category, Name, Budget, MasterRequest, NoCategory,
  Defaults,         \* names and types of the seeded categories
  MaxBudgetIds,     \* bound on the categories of one budget
  Term, NoEnd,      \* what a budget's form says of its status and period
  Date, Today       \* dates of expenses, and the day of the query

CategoryType == {"expense", "income"}

Label == Name \X CategoryType

ASSUME CategoryConstants ==
  /\ NoCategory \notin Category /\ IsFiniteSet(Category)
  /\ Name # {}
  /\ Defaults \subseteq Label
  /\ MaxBudgetIds \in Nat
  /\ Term \subseteq [active : BOOLEAN, start : Nat, end : Nat \cup {NoEnd}] /\ Term # {}
  /\ NoEnd \notin Nat /\ Date \subseteq Nat /\ Today \in Nat

VARIABLES
  cats,        \* finance_categories
  budgets,     \* finance_budgets: the ids of a live budget
  mreq,        \* requests between their transactions or statements
  doubled      \* labels that a form gave twice or that two requests were about to
               \* insert, for the properties

categoryVars == <<cats, budgets, mreq, doubled>>

NoCategoryRow == [live |-> FALSE, label |-> CHOOSE l \in Label : TRUE, parent |-> NoCategory]

NoBudgetRow == [live |-> FALSE, ids |-> {}]

MasterIdle == [step |-> "idle", for |-> "row", labels |-> {}, ids |-> {}]

CategoryTypeOK ==
  /\ cats \in [Category -> [live : BOOLEAN, label : Label, parent : Category \cup {NoCategory}]]
  /\ budgets \in [Budget -> [live : BOOLEAN, ids : SUBSET Category]]
  /\ mreq \in [MasterRequest ->
        [step : {"idle", "insert", "write"}, for : {"row", "budget"},
         labels : SUBSET Label, ids : SUBSET Category]]
  /\ doubled \in SUBSET Label

CategoryInit ==
  /\ cats = [c \in Category |-> NoCategoryRow]
  /\ budgets = [b \in Budget |-> NoBudgetRow]
  /\ mreq = [r \in MasterRequest |-> MasterIdle]
  /\ doubled = {}

LiveCats == {c \in Category : cats[c].live}

Labelled(l) == {c \in LiveCats : cats[c].label = l}

(* An id is new: no row, budget or request has it.                         *)
FreshCats ==
  {c \in Category \ LiveCats : /\ \A b \in Budget : c \notin budgets[b].ids
                              /\ \A r \in MasterRequest : c \notin mreq[r].ids}

MasterDone(r) == mreq' = [mreq EXCEPT ![r] = MasterIdle]

(* Labels that somebody is about to insert.                                *)
OnTheWayIn == UNION {mreq[q].labels : q \in MasterRequest}

(* A form gives c a label that another has, or is about to have.           *)
Twice(c, l) == {k \in {l} : Labelled(k) \ {c} # {} \/ k \in OnTheWayIn}

(* A request that is about to insert labels.                               *)
Inserts(r, for, labels) ==
  /\ mreq' = [mreq EXCEPT ![r] = [step |-> "insert", for |-> for, labels |-> labels,
                                  ids |-> {}]]
  /\ doubled' = doubled \cup (labels \cap OnTheWayIn)

-----------------------------------------------------------------------------
(* Master data forms                                                       *)

CreateCategory(c, l, p) ==
  /\ c \in FreshCats
  /\ p \in LiveCats \cup {NoCategory}
  /\ cats' = [cats EXCEPT ![c] = [live |-> TRUE, label |-> l, parent |-> p]]
  /\ doubled' = doubled \cup Twice(c, l)
  /\ UNCHANGED <<budgets, mreq>>

(* Name and type change under budgets and children; the parent never does. *)
UpdateCategory(c, l) ==
  /\ c \in LiveCats
  /\ cats' = [cats EXCEPT ![c].label = l]
  /\ doubled' = doubled \cup Twice(c, l)
  /\ UNCHANGED <<budgets, mreq>>

(* The foreign keys clear the parent of the children; budgets keep the id. *)
DeleteCategory(c) ==
  /\ c \in LiveCats
  /\ cats' = [d \in Category |->
        CASE d = c -> NoCategoryRow
          [] d # c /\ cats[d].parent = c -> [cats[d] EXCEPT !.parent = NoCategory]
          [] OTHER -> cats[d]]
  /\ UNCHANGED <<budgets, mreq, doubled>>

(* Mutant: the list seeds whatever is there. *)
CountDefaults_Always(r) ==
  /\ mreq[r].step = "idle"
  /\ Inserts(r, "row", Defaults)
  /\ UNCHANGED <<cats, budgets>>

(* EnsureDefaultData, at each list of accounts or categories.              *)
CountDefaults(r) ==
  /\ mreq[r].step = "idle"
  /\ LiveCats = {}
  /\ Inserts(r, "row", Defaults)
  /\ UNCHANGED <<cats, budgets>>

-----------------------------------------------------------------------------
(* Resolving by name                                                       *)

(* ResolveCategoryID of expenses and budgets and the chat's own look-up.   *)
(* LIMIT 1 takes any of the categories with that name; the expense that is *)
(* recorded with it is not in this module.  Of a budget's list of names,   *)
(* each looked up and inserted in turn, this is one.                       *)
FindCategory(r, for, l) ==
  /\ mreq[r].step = "idle"
  /\ for = "budget" => l[2] = "expense"
  /\ \/ /\ Labelled(l) = {}
        /\ Inserts(r, for, {l})
     \/ /\ for = "budget"
        /\ \E c \in Labelled(l) :
             mreq' = [mreq EXCEPT ![r] = [step |-> "write", for |-> for, labels |-> {},
                                          ids |-> {c}]]
        /\ UNCHANGED doubled
  /\ UNCHANGED <<cats, budgets>>

(* The insert of the missing categories and the commit.                    *)
InsertMissing(r) ==
  /\ mreq[r].step = "insert"
  /\ \E new \in [mreq[r].labels -> FreshCats] :
       /\ \A l, k \in mreq[r].labels : new[l] = new[k] => l = k
       /\ cats' = [c \in Category |->
             IF \E l \in mreq[r].labels : new[l] = c
             THEN [live |-> TRUE, label |-> CHOOSE l \in mreq[r].labels : new[l] = c,
                   parent |-> NoCategory]
             ELSE cats[c]]
       /\ mreq' = [mreq EXCEPT ![r] =
             IF mreq[r].for = "budget"
             THEN [@ EXCEPT !.step = "write", !.labels = {},
                            !.ids = {new[l] : l \in mreq[r].labels}]
             ELSE MasterIdle]
  /\ UNCHANGED <<budgets, doubled>>

(* A budget by ids: each is an expense category; a list of blanks is none. *)
CheckIds(r, ids) ==
  /\ mreq[r].step = "idle"
  /\ Cardinality(ids) <= MaxBudgetIds
  /\ \A c \in ids : c \in LiveCats /\ cats[c].label[2] = "expense"
  /\ mreq' = [mreq EXCEPT ![r] = [step |-> "write", for |-> "budget", labels |-> {},
                                  ids |-> ids]]
  /\ UNCHANGED <<cats, budgets, doubled>>

(* Budget Create and Update write what was resolved before.  The status    *)
(* and the period come with it from the form and no step looks at them:    *)
(* the queries below are asked for all they may be.                        *)
WriteBudget(r, b) ==
  /\ mreq[r].step = "write"
  /\ budgets' = [budgets EXCEPT ![b] = [live |-> TRUE, ids |-> mreq[r].ids]]
  /\ MasterDone(r)
  /\ UNCHANGED <<cats, doubled>>

(* An error rolls the transaction back.                                    *)
MasterFails(r) ==
  /\ mreq[r].step # "idle"
  /\ MasterDone(r)
  /\ UNCHANGED <<cats, budgets, doubled>>

DeleteBudget(b) ==
  /\ budgets[b].live
  /\ budgets' = [budgets EXCEPT ![b] = NoBudgetRow]
  /\ UNCHANGED <<cats, mreq, doubled>>

CategoryNext ==
  \/ \E c \in Category, l \in Label, p \in Category \cup {NoCategory} : CreateCategory(c, l, p)
  \/ \E c \in Category, l \in Label : UpdateCategory(c, l)
  \/ \E c \in Category : DeleteCategory(c)
  \/ \E r \in MasterRequest, for \in {"row", "budget"}, l \in Label :
       FindCategory(r, for, l)
  \/ \E r \in MasterRequest, ids \in SUBSET Category : CheckIds(r, ids)
  \/ \E r \in MasterRequest, b \in Budget : WriteBudget(r, b)
  \/ \E r \in MasterRequest : CountDefaults(r) \/ InsertMissing(r) \/ MasterFails(r)
  \/ \E b \in Budget : DeleteBudget(b)

CategorySpec == CategoryInit /\ [][CategoryNext]_categoryVars

-----------------------------------------------------------------------------
(* The two queries                                                         *)

(* cat_tree of the budget's sum: the categories below a set, level by      *)
(* level, as often as there are categories.                                *)
Below(ids) ==
  LET level[n \in 0 .. Cardinality(Category)] ==
        IF n = 0 THEN {c \in LiveCats : cats[c].parent \in ids}
        ELSE LET above == level[n - 1]
             IN  above \cup {c \in LiveCats : cats[c].parent \in above}
  IN  level[Cardinality(Category)]

(* An expense of a category, or of none, on a day.                         *)
Expense == [category : LiveCats \cup {NoCategory}, day : Date]

(* The status and the period of each budget.                               *)
Terms == [Budget -> Term]

InPeriod(t, day) == t.start <= day /\ (t.end = NoEnd \/ day <= t.end)

Ended(t) == t.end # NoEnd /\ t.end < Today

(* The expenses in a budget's sum, whatever its status is.                 *)
CountedBy(b, term) ==
  LET ids == budgets[b].ids
  IN  {e \in Expense : /\ InPeriod(term[b], e.day)
                       /\ ids = {} \/ e.category \in ids \/ e.category \in Below(ids)}

(* cat_tree of FindActiveByCategory: the parents, upwards.                 *)
Above(c) ==
  LET level[n \in 0 .. Cardinality(Category)] ==
        IF n = 0 THEN {cats[c].parent}
        ELSE LET below == level[n - 1]
             IN  below \cup {cats[d].parent : d \in below \cap LiveCats}
  IN  level[Cardinality(Category)]

(* Mutant: the query looks one level up only. *)
FindActiveByCategory_OneLevel(c, term) ==
  {b \in Budget : /\ budgets[b].live /\ term[b].active /\ ~Ended(term[b])
                  /\ \/ budgets[b].ids = {} \/ c \in budgets[b].ids
                     \/ cats[c].parent \in budgets[b].ids}

FindActiveByCategory(c, term) ==
  {b \in Budget : /\ budgets[b].live /\ term[b].active /\ ~Ended(term[b])
                  /\ \/ budgets[b].ids = {} \/ c \in budgets[b].ids
                     \/ Above(c) \cap budgets[b].ids # {}}

(* A form that records an expense asks for its category's budgets.         *)
FoundFor(e, term) ==
  IF e.category = NoCategory THEN {} ELSE FindActiveByCategory(e.category, term)

-----------------------------------------------------------------------------
(* Properties                                                              *)

(* Two categories have one name and type only if a form gave it a second   *)
(* time, which no form looks for, or two requests were about to insert it  *)
(* at once: look-up before insert keeps them apart in every other order.   *)
TwinsAreExplained ==
  \A c, d \in LiveCats :
    c # d /\ cats[c].label = cats[d].label => cats[c].label \in doubled

(* The two queries follow the tree alike, whatever was deleted, renamed or *)
(* left dangling: a budget found for a new expense within its period has   *)
(* it in its sum, and a budget that has it and is not found is not active, *)
(* has ended, or the expense is without a category, for which none is      *)
(* looked up.                                                              *)
FoundAsCounted ==
  \A b \in Budget : budgets[b].live => \A e \in Expense, term \in Terms :
    /\ b \in FoundFor(e, term) /\ InPeriod(term[b], e.day) => e \in CountedBy(b, term)
    /\ e \in CountedBy(b, term) /\ b \notin FoundFor(e, term) =>
         ~term[b].active \/ Ended(term[b]) \/ e.category = NoCategory
=============================================================================
