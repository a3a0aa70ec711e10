---------------------------- MODULE LedgerViews -----------------------------
(***************************************************************************)
(* What is read of a workspace while others write it: the lists that are   *)
(* read page by page, each request counting the rows in one statement and  *)
(* fetching a page of them in the next; the dashboard, three requests at   *)
(* once of which one is answered from a cache of five minutes; and the     *)
(* figures the chat's answers are made from, three statements of one       *)
(* transaction.  No statement sees the same rows as the one before it.     *)
(***************************************************************************)
EXTENDS Naturals, Sequences, FiniteSets

CONSTANTS
  Viewer,      \* readers, each of one view at a time
  MaxRow,      \* rows ever made of a list, in this order
  MaxCounted,  \* rows ever made that figures are taken over
  PageSize,    \* rows of a page
  MaxWrites,   \* rows that come and go while one list is read
  Group,       \* categories and types of rows, and
  KindOf,      \* the type of each
  TopLimit,    \* categories of the dashboard
  RecentLimit, \* latest rows the chat is given
  NoFigures    \* not read yet

(* transfer: and savings, which no sum of income or expenses has.          *)
Kind == {"income", "expense", "transfer"}

ASSUME ViewConstants ==
  /\ {MaxRow, MaxCounted, MaxWrites} \subseteq Nat
  /\ {PageSize, TopLimit, RecentLimit} \subseteq Nat \ {0}
  /\ Group # {} /\ KindOf \in [Group -> Kind]

VARIABLES
  view,        \* what the readers of this behaviour look at
  viewRows,    \* the rows
  cached,      \* the dashboard's summary in Redis, and whether it is out of date
  viewer       \* what each reader has read, and what was written meanwhile

viewsVars == <<view, viewRows, cached, viewer>>

ListView == {"transactions", "reminders", "savings", "notifications", "audit", "reports"}

View == ListView \cup {"dashboard", "chat"}

Dated == {"transactions", "reminders", "dashboard", "chat"}

ViewRow == 1..MaxRow

ThisMonth == 2

Day == {1, ThisMonth}

RowKey == [born : ViewRow, day : Day]

Figures == [Kind -> SUBSET ViewRow]

Reading == [step : {"idle", "count", "rows", "totals", "series", "rest", "done"},
            page : Nat, total : Nat, rows : Seq(ViewRow), steady : SUBSET ViewRow,
            came : SUBSET RowKey, went : SUBSET RowKey, late : BOOLEAN, dirty : BOOLEAN,
            put : BOOLEAN, totals : Figures \cup {NoFigures},
            series : Figures \cup {NoFigures}, rest : Figures \cup {NoFigures}]

Idle == [step |-> "idle", page |-> 0, total |-> 0, rows |-> <<>>, steady |-> {},
         came |-> {}, went |-> {}, late |-> FALSE, dirty |-> FALSE, put |-> FALSE,
         totals |-> NoFigures, series |-> NoFigures, rest |-> NoFigures]

ViewsTypeOK ==
  /\ view \in View
  /\ viewRows \in [ViewRow -> [state : {"unborn", "listed", "gone"}, day : Day,
                               group : Group]]
  /\ cached \in {NoFigures} \cup [figures : Figures, dirty : BOOLEAN]
  /\ viewer \in [Viewer -> Reading]

SomeGroup == CHOOSE g \in Group : TRUE

ViewsInit ==
  /\ view \in View
  /\ viewRows = [r \in ViewRow |-> [state |-> "unborn", day |-> ThisMonth,
                                    group |-> SomeGroup]]
  /\ cached = NoFigures
  /\ viewer = [v \in Viewer |-> Idle]

-----------------------------------------------------------------------------
(* The order of each list, over what its key holds; the chat is given the  *)
(* latest rows in that of the transactions                                 *)

TransactionsBefore(j, k) == j.day > k.day \/ (j.day = k.day /\ j.born > k.born)

RemindersBefore(j, k) == j.day < k.day \/ (j.day = k.day /\ j.born > k.born)

SavingsBefore(j, k) == j.born > k.born

NotificationsBefore(j, k) == j.born > k.born

AuditBefore(j, k) == j.born > k.born

ReportsBefore(j, k) == j.born > k.born

Before(j, k) ==
  CASE view \in {"transactions", "chat"} -> TransactionsBefore(j, k)
    [] view = "reminders" -> RemindersBefore(j, k)
    [] view = "savings" -> SavingsBefore(j, k)
    [] view = "notifications" -> NotificationsBefore(j, k)
    [] view = "audit" -> AuditBefore(j, k)
    [] OTHER -> ReportsBefore(j, k)

Key(r) == [born |-> r, day |-> viewRows[r].day]

Shown == {r \in ViewRow : viewRows[r].state = "listed"}

Position(r) == Cardinality({x \in Shown : Before(Key(x), Key(r))}) + 1

(* Mutant: the first page is skipped. *)
PageOf_OneOff(p) ==
  {r \in Shown : Position(r) > p * PageSize /\ Position(r) <= (p + 1) * PageSize}

(* LIMIT and OFFSET                                                        *)
PageOf(p) == {r \in Shown : Position(r) > (p - 1) * PageSize /\ Position(r) <= p * PageSize}

PageInOrder(p) ==
  LET S == PageOf(p)
  IN CHOOSE s \in [1..Cardinality(S) -> S] :
       \A m, n \in DOMAIN s : m < n => Position(s[m]) < Position(s[n])

-----------------------------------------------------------------------------
(* The figures, a sum being the rows it is taken over                      *)

OfKind(S) == [k \in Kind |-> {r \in S : KindOf[viewRows[r].group] = k}]

InMonth == {r \in Shown : viewRows[r].day = ThisMonth}

MonthsOf(kinds) == OfKind({r \in InMonth : KindOf[viewRows[r].group] \in kinds})

GetSummary == MonthsOf(Kind)

(* One point a day.                                                        *)
GetDailySeries == {[day |-> d, point |-> MonthsOf({"income", "expense"})] : d \in {ThisMonth}}

(* The groups with the most rows: LIMIT n, and all of them when they are   *)
(* no more.  Between groups of as many rows their amounts decide, which    *)
(* are not here.                                                           *)
TopGroups ==
  LET groups == {viewRows[r].group : r \in InMonth}
      Count(g) == Cardinality({r \in InMonth : viewRows[r].group = g})
  IN  {G \in SUBSET groups :
         /\ Cardinality(G) <= TopLimit /\ (Cardinality(G) < TopLimit => G = groups)
         /\ \A g \in G, h \in groups \ G : Count(g) >= Count(h)}

(* One total for every category and type among them: the answers there are.*)
GetTopCategories == {OfKind({r \in InMonth : viewRows[r].group \in G}) : G \in TopGroups}

(* The chat's three queries: the current month, the latest rows of all     *)
(* types and the expenses of a budget of this month.                       *)
MonthTotals == MonthsOf({"income", "expense"})

RecentTx == OfKind({r \in Shown : Position(r) <= RecentLimit})

BudgetsSpent == MonthsOf({"expense"})

-----------------------------------------------------------------------------
(* Writers                                                                 *)

(* A reader of a list remembers what came and went, a reader of figures    *)
(* that something did; a cached summary ages.                              *)
Written(new, came, went) ==
  /\ \A v \in Viewer : Cardinality(viewer[v].came) + Cardinality(viewer[v].went) < MaxWrites
  /\ viewRows' = new
  /\ cached' = IF cached = NoFigures THEN cached ELSE [cached EXCEPT !.dirty = TRUE]
  /\ viewer' = [v \in Viewer |->
       IF viewer[v].step = "idle" THEN viewer[v]
       ELSE IF view \notin ListView THEN [viewer[v] EXCEPT !.dirty = TRUE]
       ELSE [viewer[v] EXCEPT !.came = @ \cup came, !.went = @ \cup went, !.dirty = TRUE,
                              !.late = @ \/ (viewer[v].step = "rows" /\ came # {})]]
  /\ UNCHANGED view

Appear(r, day, group) ==
  /\ viewRows[r].state = "unborn"
  /\ \A x \in ViewRow : x < r => viewRows[x].state # "unborn"
  /\ view \notin Dated => day = ThisMonth
  /\ IF view \in ListView THEN group = SomeGroup ELSE r <= MaxCounted
  /\ Written([viewRows EXCEPT ![r] = [state |-> "listed", day |-> day, group |-> group]],
             {[born |-> r, day |-> day]}, {})

(* A row is deleted, or leaves the status that is asked for.               *)
Leaves(r) ==
  /\ viewRows[r].state = "listed"
  /\ Written([viewRows EXCEPT ![r].state = "gone"], {}, {Key(r)})

(* An unread notification is read.                                         *)
MarkRead(r) == view = "notifications" /\ Leaves(r)

(* An entry of the audit log stays.                                        *)
Remove(r) == view \notin {"audit", "notifications"} /\ Leaves(r)

(* A transaction or a reminder gets another date.                          *)
Redate(r, day) ==
  /\ view \in Dated
  /\ viewRows[r].state = "listed" /\ day # viewRows[r].day
  /\ Written([viewRows EXCEPT ![r].day = day], {[born |-> r, day |-> day]}, {Key(r)})

-----------------------------------------------------------------------------
(* A list, read from its first page to its last                            *)

Read(v, w) == viewer' = [viewer EXCEPT ![v] = w] /\ UNCHANGED <<view, viewRows>>

Open(v) ==
  /\ viewer[v].step = "idle"
  /\ IF view \in ListView THEN Read(v, [Idle EXCEPT !.step = "count", !.page = 1, !.steady = Shown])
     ELSE Read(v, [Idle EXCEPT !.step = "totals"])
  /\ UNCHANGED cached

CountRows(v) ==
  /\ viewer[v].step = "count"
  /\ Read(v, [viewer[v] EXCEPT !.step = "rows", !.total = Cardinality(Shown), !.late = FALSE])
  /\ UNCHANGED cached

(* The page shows as many buttons as the count it was given fills.         *)
FetchPage(v) ==
  LET last == viewer[v].page * PageSize >= viewer[v].total
  IN /\ viewer[v].step = "rows"
     /\ Read(v, [viewer[v] EXCEPT !.rows = @ \o PageInOrder(viewer[v].page),
                                  !.step = IF last THEN "done" ELSE "count",
                                  !.page = IF last THEN @ ELSE @ + 1])
     /\ UNCHANGED cached

Close(v) == viewer[v].step = "done" /\ Read(v, Idle) /\ UNCHANGED cached

-----------------------------------------------------------------------------
(* The dashboard: the summary, from the cache or put there, and the rest   *)

Opened(v) == view = "dashboard" /\ viewer[v].step = "totals"

SummaryHit(v) ==
  /\ Opened(v) /\ viewer[v].totals = NoFigures /\ cached # NoFigures
  /\ Read(v, [viewer[v] EXCEPT !.totals = cached.figures, !.dirty = @ \/ cached.dirty])
  /\ UNCHANGED cached

SummaryMiss(v) ==
  /\ Opened(v) /\ viewer[v].totals = NoFigures /\ cached = NoFigures
  /\ Read(v, [viewer[v] EXCEPT !.totals = GetSummary, !.put = TRUE])
  /\ UNCHANGED cached

PutSummary(v) ==
  /\ Opened(v) /\ viewer[v].put
  /\ cached' = [figures |-> viewer[v].totals, dirty |-> viewer[v].dirty]
  /\ Read(v, [viewer[v] EXCEPT !.put = FALSE])

ExpireSummary == cached # NoFigures /\ cached' = NoFigures /\ UNCHANGED <<view, viewRows, viewer>>

ReadSeries(v) ==
  /\ Opened(v) /\ viewer[v].series = NoFigures
  /\ LET points == GetDailySeries
     IN Read(v, [viewer[v] EXCEPT
          !.series = [k \in Kind |-> UNION {p.point[k] : p \in points}]])
  /\ UNCHANGED cached

ReadTopCategories(v) ==
  /\ Opened(v) /\ viewer[v].rest = NoFigures
  /\ \E top \in GetTopCategories : Read(v, [viewer[v] EXCEPT !.rest = top])
  /\ UNCHANGED cached

ShowDashboard(v) ==
  /\ Opened(v) /\ NoFigures \notin {viewer[v].totals, viewer[v].series, viewer[v].rest}
  /\ ~viewer[v].put
  /\ Read(v, [viewer[v] EXCEPT !.step = "done"])
  /\ UNCHANGED cached

(* The chat's figures, in this order.                                      *)
GetFinancialContext(v) ==
  /\ view = "chat"
  /\ \/ /\ viewer[v].step = "totals"
        /\ Read(v, [viewer[v] EXCEPT !.totals = MonthTotals, !.step = "series"])
     \/ /\ viewer[v].step = "series"
        /\ Read(v, [viewer[v] EXCEPT !.series = RecentTx, !.step = "rest"])
     \/ /\ viewer[v].step = "rest"
        /\ Read(v, [viewer[v] EXCEPT !.rest = BudgetsSpent, !.step = "done"])
  /\ UNCHANGED cached

ViewerStep(v) ==
  \/ Open(v) \/ CountRows(v) \/ FetchPage(v) \/ Close(v)
  \/ SummaryHit(v) \/ SummaryMiss(v) \/ PutSummary(v)
  \/ ReadSeries(v) \/ ReadTopCategories(v) \/ ShowDashboard(v)
  \/ GetFinancialContext(v)

ViewsNext ==
  \/ \E r \in ViewRow, day \in Day, group \in Group : Appear(r, day, group)
  \/ \E r \in ViewRow : MarkRead(r) \/ Remove(r)
  \/ \E r \in ViewRow, day \in Day : Redate(r, day)
  \/ ExpireSummary
  \/ \E v \in Viewer : ViewerStep(v)

ViewsSpec == ViewsInit /\ [][ViewsNext]_viewsVars

-----------------------------------------------------------------------------
(* Properties                                                              *)

Times(r, s) == Cardinality({n \in DOMAIN s : s[n] = r})

(* A reader of all pages of a list misses a row that was there all along   *)
(* only if one before it left meanwhile, or if one came between the last   *)
(* count and its page; and is shown it twice only if one came before it.   *)
(* Without a write the pages together are the list.                        *)
PagesAreExplained ==
  \A v \in Viewer : viewer[v].step = "done" /\ view \in ListView =>
    LET w == viewer[v]
        kept == {r \in w.steady : \A k \in w.went : k.born # r}
    IN /\ \A r \in kept : Times(r, w.rows) = 0 =>
            w.late \/ \E k \in w.went : Before(k, Key(r))
       /\ \A r \in kept : Times(r, w.rows) > 1 => \E k \in w.came : Before(k, Key(r))
       /\ ~w.dirty => Len(w.rows) = w.total /\ \A r \in w.steady : Times(r, w.rows) = 1

RowsOfFigures(f) == UNION {f[k] : k \in Kind}

(* Of the month, the top categories leave out only groups that are beyond  *)
(* as many as were asked for, none of them with more rows.                 *)
TopFallsShort(totals, top) ==
  LET month == RowsOfFigures(totals)
      shown == RowsOfFigures(top)
      Alike(r) == {x \in month : viewRows[x].group = viewRows[r].group}
  IN  /\ \A k \in Kind : top[k] \subseteq totals[k]
      /\ \A r \in month \ shown :
           /\ Alike(r) \cap shown = {}
           /\ Cardinality({viewRows[x].group : x \in shown}) = TopLimit
           /\ \A x \in shown : Cardinality(Alike(x)) >= Cardinality(Alike(r))

(* The chat is given a row of the month unless as many as it is given come *)
(* before it.                                                              *)
RecentFallsShort(totals, recent) ==
  \A r \in RowsOfFigures(totals) \ RowsOfFigures(recent) :
    /\ Cardinality(RowsOfFigures(recent)) >= RecentLimit
    /\ \A x \in RowsOfFigures(recent) : Before(Key(x), Key(r))

(* The figures of one dashboard and of one answer of the chat are of the   *)
(* same rows, but for the limits of two queries, unless something was      *)
(* written since the first of them was read, the cached ones having been   *)
(* read when they were put into the cache.                                 *)
FiguresAgree ==
  \A v \in Viewer : viewer[v].step = "done" /\ ~viewer[v].dirty =>
    LET w == viewer[v]
    IN /\ view = "dashboard" =>
            /\ \A k \in {"income", "expense"} : w.totals[k] = w.series[k]
            /\ TopFallsShort(w.totals, w.rest)
       /\ view = "chat" =>
            /\ w.rest["expense"] = w.totals["expense"]
            /\ RecentFallsShort(w.totals, w.series)

ViewsAreExplained == PagesAreExplained /\ FiguresAgree
=============================================================================
