-------------------------- MODULE ReminderPayments --------------------------
(***************************************************************************)
(* Payments of reminders.  Recording a payment also writes an expense into *)
(* the ledger; nothing links the two rows.  Deleting the payment looks for *)
(* the expense by amount, day and description, and the description holds   *)
(* the payment's number, which is counted when it is written and counted   *)
(* again when it is looked for.                                            *)
(*                                                                         *)
(* A request is a goroutine with one transaction under READ COMMITTED: its *)
(* steps are what it reads and its commit.                                 *)
(***************************************************************************)
EXTENDS Naturals, FiniteSets

CONSTANTS
  Reminder, Title, Payment,
  PaidValue,    \* an amount together with the day it was paid
  PayRequest,
  NoPayment,
  MaxEdits      \* bound: edits of reminders, payments and expenses by people

ASSUME PaymentConstants ==
  /\ NoPayment \notin Payment /\ IsFiniteSet(Payment)
  /\ {} \notin {Reminder, Title, PaidValue}
  /\ MaxEdits \in Nat

VARIABLES
  reminders,   \* rows of finance_reminders
  payments,    \* rows of finance_reminder_payments; at orders created_at
  entries,     \* the expense that each payment wrote into the ledger
  edits,       \* how many edits there were
  preq,        \* the request: what it is about and what it has read
  shifted      \* payments whose entry a deletion may miss, for the properties

payVars == <<reminders, payments, entries, edits, preq, shifted>>

(* total_tenor: none given, at most one, or several.                       *)
Tenor == {"none", "single", "many"}

(* The number in a description, if it has one.                             *)
TenorNumber == {<<>>} \cup {<<n>> : n \in 0 .. Cardinality(Payment)}

Description == [title : Title, number : TenorNumber]

PayIdle == [step |-> "idle", payment |-> NoPayment,
            text |-> [title |-> CHOOSE t \in Title : TRUE, number |-> <<>>],
            value |-> CHOOSE v \in PaidValue : TRUE]

PayTypeOK ==
  /\ reminders \in [Reminder -> [title : Title, tenor : Tenor, live : BOOLEAN]]
  /\ payments \in [Payment -> [state : {"none", "open", "there", "gone"}, of : Reminder,
                               value : PaidValue, at : 0 .. Cardinality(Payment)]]
  /\ entries \in [Payment -> [state : {"none", "visible", "deleted"}, value : PaidValue,
                              text : Description, by : Payment \cup {NoPayment}]]
  /\ preq \in [PayRequest -> [step : {"idle", "begun", "logged", "matched", "edit", "stored"},
                              payment : Payment \cup {NoPayment},
                              text : Description, value : PaidValue]]
  /\ edits \in 0 .. MaxEdits
  /\ shifted \in SUBSET Payment

PayInit ==
  /\ reminders \in [Reminder -> [title : {CHOOSE t \in Title : TRUE}, tenor : Tenor, live : {TRUE}]]
  /\ payments = [p \in Payment |-> [state |-> "none", of |-> CHOOSE m \in Reminder : TRUE,
                                    value |-> PayIdle.value, at |-> 0]]
  /\ entries = [p \in Payment |-> [state |-> "none", value |-> PayIdle.value,
                                   text |-> PayIdle.text, by |-> NoPayment]]
  /\ preq = [r \in PayRequest |-> PayIdle]
  /\ edits = 0
  /\ shifted = {}

-----------------------------------------------------------------------------
PaymentsIn(m, states) == {p \in Payment : payments[p].of = m /\ payments[p].state \in states}

Begun == {p \in Payment : payments[p].state # "none"}

(* AddPayment takes created_at before the proof image is stored and the    *)
(* transaction begins.                                                     *)
BeginPayment(r, p, m, v) ==
  LET open == PaymentsIn(m, {"open"}) IN
  /\ preq[r].step = "idle" /\ payments[p].state = "none"
  /\ payments' = [payments EXCEPT ![p] = [state |-> "open", of |-> m, value |-> v,
                                          at |-> Cardinality(Begun) + 1]]
  /\ preq' = [preq EXCEPT ![r] = [PayIdle EXCEPT !.step = "begun", !.payment = p, !.value = v]]
  /\ shifted' = IF open = {} THEN shifted ELSE shifted \cup open \cup {p}
  /\ UNCHANGED <<reminders, entries, edits>>

(* CreatePayment describes the expense: the count sees the committed       *)
(* payments and its own.                                                   *)
DescribeNew(m) ==
  [title |-> reminders[m].title,
   number |-> CASE reminders[m].tenor = "many"   -> <<Cardinality(PaymentsIn(m, {"there"})) + 1>>
                [] reminders[m].tenor = "single" -> <<0>>
                [] reminders[m].tenor = "none"   -> <<>>]

(* Without a reminder the transaction fails, and the payment with it.      *)
LogEntry(r) ==
  LET p == preq[r].payment
      m == payments[p].of IN
  /\ preq[r].step = "begun"
  /\ IF reminders[m].live
     THEN /\ preq' = [preq EXCEPT ![r].step = "logged", ![r].text = DescribeNew(m)]
          /\ shifted' = IF reminders[m].tenor = "single" THEN shifted \cup {p} ELSE shifted
          /\ UNCHANGED payments
     ELSE /\ preq' = [preq EXCEPT ![r] = PayIdle]
          /\ payments' = [payments EXCEPT ![p].state = "gone"]
          /\ UNCHANGED shifted
  /\ UNCHANGED <<reminders, entries, edits>>

CommitPayment(r) ==
  LET p == preq[r].payment IN
  /\ preq[r].step = "logged"
  /\ payments' = [payments EXCEPT ![p].state = "there"]
  /\ entries' = [entries EXCEPT ![p] = [state |-> "visible", value |-> preq[r].value,
                                        text |-> preq[r].text, by |-> NoPayment]]
  /\ preq' = [preq EXCEPT ![r] = PayIdle]
  /\ UNCHANGED <<reminders, shifted, edits>>

-----------------------------------------------------------------------------
(* DeletePayment describes the expense by the payments created up to it.   *)
DescribeOld(p) ==
  LET m == payments[p].of
      upTo == {q \in PaymentsIn(m, {"there"}) : payments[q].at <= payments[p].at} IN
  [title |-> reminders[m].title,
   number |-> IF reminders[m].tenor = "many" THEN <<Cardinality(upTo)>> ELSE <<>>]

BeginDeletion(r, p) ==
  /\ preq[r].step = "idle" /\ payments[p].state = "there"
  /\ reminders[payments[p].of].live
  /\ preq' = [preq EXCEPT ![r] = [step |-> "matched", payment |-> p, text |-> DescribeOld(p),
                                  value |-> payments[p].value]]
  /\ UNCHANGED <<reminders, payments, entries, shifted, edits>>

(* Mutant: the expense is looked for by its description alone. *)
Matching_TextOnly(r) ==
  {q \in Payment : entries[q].state = "visible" /\ entries[q].text = preq[r].text}

Matching(r) ==
  {q \in Payment : /\ entries[q].state = "visible"
                   /\ entries[q].text = preq[r].text
                   /\ entries[q].value = preq[r].value}

(* The numbers of the payments after p move up by one.                     *)
After(p) ==
  {q \in PaymentsIn(payments[p].of, {"open", "there"}) : payments[q].at > payments[p].at}

(* If the payment has been deleted meanwhile, the transaction is undone.   *)
CommitDeletion(r) ==
  LET p == preq[r].payment IN
  /\ preq[r].step = "matched"
  /\ IF payments[p].state = "there"
     THEN /\ entries' = [q \in Payment |->
                IF q \in Matching(r) THEN [entries[q] EXCEPT !.state = "deleted", !.by = p]
                ELSE entries[q]]
          /\ payments' = [payments EXCEPT ![p].state = "gone"]
          /\ shifted' = shifted \cup After(p)
     ELSE UNCHANGED <<entries, payments, shifted>>
  /\ preq' = [preq EXCEPT ![r] = PayIdle]
  /\ UNCHANGED <<reminders, edits>>

-----------------------------------------------------------------------------
(* The other operations: each ends in one statement.                       *)
Edit == edits < MaxEdits /\ edits' = edits + 1

BeginUpdate(r, p, v) ==
  /\ Edit /\ preq[r].step = "idle" /\ payments[p].state = "there" /\ v # payments[p].value
  /\ preq' = [preq EXCEPT ![r] = [PayIdle EXCEPT !.step = "edit", !.payment = p, !.value = v]]
  /\ UNCHANGED <<reminders, payments, entries, shifted>>

(* The proof, if the form has one, is stored before the transaction.       *)
StoreProof(r) ==
  /\ preq[r].step = "edit"
  /\ preq' = [preq EXCEPT ![r].step = "stored"]
  /\ UNCHANGED <<reminders, payments, entries, shifted, edits>>

(* UpdatePayment finds the payment or fails; it leaves the expense alone.  *)
UpdatePayment(r) ==
  LET p == preq[r].payment IN
  /\ preq[r].step = "stored"
  /\ IF payments[p].state = "there"
     THEN /\ payments' = [payments EXCEPT ![p].value = preq[r].value]
          /\ shifted' = shifted \cup {p}
     ELSE UNCHANGED <<payments, shifted>>
  /\ preq' = [preq EXCEPT ![r] = PayIdle]
  /\ UNCHANGED <<reminders, entries, edits>>

(* Update writes every field of the reminder from the form.                *)
UpdateReminder(m, t, tenor) ==
  /\ Edit /\ reminders[m].live
  /\ reminders' = [reminders EXCEPT ![m].title = t, ![m].tenor = tenor]
  /\ reminders' # reminders
  /\ shifted' = shifted \cup PaymentsIn(m, {"open", "there"})
  /\ UNCHANGED <<payments, entries, preq>>

DeleteReminder(m) ==
  /\ Edit /\ reminders[m].live
  /\ reminders' = [reminders EXCEPT ![m].live = FALSE]
  /\ UNCHANGED <<payments, entries, preq, shifted>>

(* The pages of the ledger know nothing of payments.                       *)
EditEntry(p, v) ==
  /\ Edit /\ entries[p].state = "visible" /\ v # entries[p].value
  /\ entries' = [entries EXCEPT ![p].value = v]
  /\ shifted' = shifted \cup {p}
  /\ UNCHANGED <<reminders, payments, preq>>

RemoveEntry(p) ==
  /\ Edit /\ entries[p].state = "visible"
  /\ entries' = [entries EXCEPT ![p].state = "deleted"]
  /\ UNCHANGED <<reminders, payments, preq, shifted>>

(* An error or the end of the process: the transaction is rolled back.     *)
PaymentRollback(r) ==
  /\ preq[r].step # "idle"
  /\ payments' = [p \in Payment |->
        IF p = preq[r].payment /\ payments[p].state = "open"
        THEN [payments[p] EXCEPT !.state = "gone"] ELSE payments[p]]
  /\ preq' = [preq EXCEPT ![r] = PayIdle]
  /\ UNCHANGED <<reminders, entries, edits, shifted>>

PayNext ==
  \/ \E r \in PayRequest, p \in Payment, m \in Reminder, v \in PaidValue : BeginPayment(r, p, m, v)
  \/ \E r \in PayRequest, p \in Payment : BeginDeletion(r, p)
  \/ \E r \in PayRequest : LogEntry(r) \/ CommitPayment(r) \/ CommitDeletion(r) \/ PaymentRollback(r)
                           \/ StoreProof(r) \/ UpdatePayment(r)
  \/ \E r \in PayRequest, p \in Payment, v \in PaidValue : BeginUpdate(r, p, v)
  \/ \E p \in Payment, v \in PaidValue : EditEntry(p, v)
  \/ \E p \in Payment : RemoveEntry(p)
  \/ \E m \in Reminder, t \in Title, tenor \in Tenor : UpdateReminder(m, t, tenor)
  \/ \E m \in Reminder : DeleteReminder(m)

PaySpec == PayInit /\ [][PayNext]_payVars

-----------------------------------------------------------------------------
(* Properties                                                              *)

(* An expense outlives its payment only for the causes the code has: the   *)
(* payment or the expense was edited, the reminder was renamed or its      *)
(* tenor changed, an earlier payment was deleted, two payments were being  *)
(* recorded at once, or the reminder has a tenor of one.  Without them the *)
(* number counted at deletion is the one that was written.                 *)
StrayEntryIsExplained ==
  \A p \in Payment :
    payments[p].state = "gone" /\ entries[p].state = "visible" => p \in shifted

(* The same search never takes more than it should: a deletion without     *)
(* those causes removes, besides its own expense, only its equals, with    *)
(* the same amount, day and description.                                   *)
OnlyTwinsAreLost ==
  \A p, q \in Payment :
    entries[p].by = q /\ q \notin shifted
      => entries[q].text = entries[p].text /\ entries[q].value = entries[p].value

(* What a deletion leaves and takes of the ledger, both.                   *)
EntriesAccounted == StrayEntryIsExplained /\ OnlyTwinsAreLost
=============================================================================
