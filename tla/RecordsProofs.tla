--------------------------- MODULE RecordsProofs ----------------------------
(***************************************************************************)
(* Proofs about what a workspace keeps: generated documents, the           *)
(* categories and the budgets over them, the payments of reminders and     *)
(* their expenses, and the pages and figures over the ledger, for any      *)
(* number of requests, rows, categories, payments, readers and writes.     *)
(***************************************************************************)
EXTENDS Documents, Categories, ReminderPayments, LedgerViews, FiniteSetTheorems,
        SequenceTheorems, TLAPS

-----------------------------------------------------------------------------
(***************************************************************************)
(* Generated documents: a row and its object.                              *)
(***************************************************************************)
(* r makes d: it has inserted the row and not written how it ended.        *)
Making(r, d) == docreq[r].doc = d /\ docreq[r].step \in {"work", "put", "finish", "fail"}

(* A request past its start has a document, nobody else makes it, and only *)
(* reports are dropped with their object, after their making.              *)
HoldersSound ==
  /\ \A r \in DocRequest : docreq[r].step # "idle" => docreq[r].doc \in Document
  /\ \A d \in Document : \A r, q \in DocRequest : Making(r, d) /\ Making(q, d) => r = q
  /\ \A d \in Document : \A r \in DocRequest :
       Making(r, d) => docs[d].state \in {"none", "open"} /\ d \notin halfDeleted
  /\ \A d \in Document : \A r \in DocRequest :
       docreq[r].doc = d /\ docreq[r].step \in {"dropObject", "dropRow"}
         => docs[d].kind = "report"
  /\ \A d \in Document : \A r, q \in DocRequest :
       docreq[r].doc = d /\ docreq[r].step = "dropObject" => ~Making(q, d)

(* Where the object of a report is.                                        *)
ObjectsSound ==
  /\ halfDeleted \cap docObjects = {}
  /\ \A d \in Document : \A r \in DocRequest :
       docs[d].kind = "report" /\ docreq[r].doc = d /\ docreq[r].step = "finish"
         => d \in docObjects
  /\ \A d \in Document :
       docs[d].kind = "report" /\ docs[d].state # "done" /\ d \in docObjects
         => d \in unnamed \/ \E r \in DocRequest : docreq[r].doc = d /\ docreq[r].step = "finish"
  /\ \A d \in Document :
       docs[d].kind = "report" /\ ~HasRow(d) /\ InTheMaking(d) => d \in unnamed

DocumentsInv == DocumentTypeOK /\ HoldersSound /\ ObjectsSound /\ DocumentsAccounted

(* At first there is no document.                                          *)
LEMMA DocumentInitInv == DocumentInit => DocumentsInv
BY DEF DocumentInit, DocumentsInv, DocumentTypeOK, HoldersSound, ObjectsSound,
       DocumentsAccounted, Making, InTheMaking, HasRow, DocIdle, NoDocumentRow

(* Every action keeps the types.                                           *)
LEMMA DocumentTypeStep ==
  DocumentTypeOK /\ HoldersSound /\ [DocumentNext]_documentVars => DocumentTypeOK'
<1> SUFFICES ASSUME DocumentTypeOK, HoldersSound, [DocumentNext]_documentVars
             PROVE  DocumentTypeOK'
  OBVIOUS
<1>held. \A r \in DocRequest : docreq[r].step # "idle" => docreq[r].doc \in Document
  BY DEF HoldersSound
<1> USE DEF DocumentTypeOK, DocIdle, NoDocumentRow, DocStep, DocEnds
<1>1. ASSUME NEW r \in DocRequest, NEW d \in Document, NEW kind \in {"report", "receipt"},
             CreateDocument(r, d, kind)
      PROVE  DocumentTypeOK'
  BY <1>1 DEF CreateDocument
<1>2. ASSUME NEW r \in DocRequest, DoWork(r) PROVE DocumentTypeOK'
  BY <1>2 DEF DoWork
<1>3. ASSUME NEW r \in DocRequest, PutDocument(r) PROVE DocumentTypeOK'
  BY <1>3, <1>held DEF PutDocument
<1>4. ASSUME NEW r \in DocRequest, FinishDocument(r) PROVE DocumentTypeOK'
  BY <1>4, <1>held DEF FinishDocument
<1>5. ASSUME NEW r \in DocRequest, DocRequestDies(r) PROVE DocumentTypeOK'
  BY <1>5, <1>held DEF DocRequestDies
<1>6. ASSUME NEW r \in DocRequest, NEW d \in Document, ReadReport(r, d) PROVE DocumentTypeOK'
  BY <1>6 DEF ReadReport
<1>7. ASSUME NEW r \in DocRequest, DropObject(r) PROVE DocumentTypeOK'
  BY <1>7, <1>held DEF DropObject
<1>8. ASSUME NEW r \in DocRequest, DropRow(r) PROVE DocumentTypeOK'
  BY <1>8, <1>held DEF DropRow
<1>9. ASSUME NEW some \in SUBSET Document, DeleteScans(some) PROVE DocumentTypeOK'
  BY <1>9 DEF DeleteScans
<1>10. CASE UNCHANGED documentVars
  BY <1>10 DEF documentVars
<1> QED
  BY <1>1, <1>2, <1>3, <1>4, <1>5, <1>6, <1>7, <1>8, <1>9, <1>10 DEF DocumentNext

(* Every action keeps the documents accounted for.                         *)
LEMMA DocumentsStep == DocumentsInv /\ [DocumentNext]_documentVars => (HoldersSound /\ ObjectsSound /\ DocumentsAccounted)'
<1> SUFFICES ASSUME DocumentsInv, [DocumentNext]_documentVars
             PROVE  (HoldersSound /\ ObjectsSound /\ DocumentsAccounted)'
  OBVIOUS
<1>type. DocumentTypeOK'
  BY DocumentTypeStep DEF DocumentsInv
<1> USE <1>type DEF DocumentsInv, DocumentTypeOK, HoldersSound, ObjectsSound, DocumentsAccounted, Making, HasRow, InTheMaking, DocIdle, NoDocumentRow, DocStep, DocEnds
<1> DEFINE Sound == HoldersSound /\ ObjectsSound /\ DocumentsAccounted
<1>1. ASSUME NEW r \in DocRequest, NEW d \in Document, NEW kind \in {"report", "receipt"},
             CreateDocument(r, d, kind)
      PROVE  Sound'
  BY <1>1 DEF CreateDocument
<1>2. ASSUME NEW r \in DocRequest, DoWork(r) PROVE Sound'
  <2>1. docreq[r].step = "work" /\ UNCHANGED <<docs, docObjects, halfDeleted, unnamed>>
    BY <1>2 DEF DoWork
  <2>2. CASE docs[docreq[r].doc].kind = "report" /\ DocStep(r, "put")
    BY <2>1, <2>2
  <2>3. CASE docs[docreq[r].doc].kind # "report" /\ DocStep(r, "finish")
    BY <2>1, <2>3
  <2>4. CASE DocStep(r, "fail")
    BY <2>1, <2>4
  <2> QED
    BY <1>2, <2>2, <2>3, <2>4 DEF DoWork
<1>3. ASSUME NEW r \in DocRequest, PutDocument(r) PROVE Sound'
  <2> DEFINE d == docreq[r].doc
  <2>1. /\ docreq[r].step = "put" /\ UNCHANGED <<docs, halfDeleted>>
        /\ docObjects' = docObjects \cup {d} \/ UNCHANGED docObjects
        /\ unnamed' = unnamed \cup {d} \/ UNCHANGED unnamed
    BY <1>3 DEF PutDocument
  <2>2. CASE docs[d].kind = "report" /\ docObjects' = docObjects \cup {d} /\ DocStep(r, "finish")
    BY <2>1, <2>2
  <2>3. CASE docs[d].kind = "report" /\ UNCHANGED docObjects /\ DocStep(r, "fail")
    BY <2>1, <2>3
  <2>5. CASE docs[d].kind = "report" /\ docObjects' = docObjects \cup {d}
             /\ unnamed' = unnamed \cup {d} /\ DocStep(r, "fail")
    BY <2>1, <2>5
  <2>4. CASE docs[d].kind # "report" /\ DocStep(r, "work")
    BY <2>1, <2>4
  <2> QED
    BY <1>3, <2>2, <2>3, <2>4, <2>5 DEF PutDocument
<1>4. ASSUME NEW r \in DocRequest, FinishDocument(r) PROVE Sound'
  BY <1>4 DEF FinishDocument
<1>5. ASSUME NEW r \in DocRequest, DocRequestDies(r) PROVE Sound'
  BY <1>5 DEF DocRequestDies
<1>6. ASSUME NEW r \in DocRequest, NEW d \in Document, ReadReport(r, d) PROVE Sound'
  BY <1>6 DEF ReadReport
<1>7. ASSUME NEW r \in DocRequest, DropObject(r) PROVE Sound'
  BY <1>7 DEF DropObject
<1>8. ASSUME NEW r \in DocRequest, DropRow(r) PROVE Sound'
  BY <1>8 DEF DropRow
<1>9. ASSUME NEW some \in SUBSET Document, DeleteScans(some) PROVE Sound'
  BY <1>9 DEF DeleteScans
<1>10. CASE UNCHANGED documentVars
  BY <1>10 DEF documentVars
<1> QED
  BY <1>1, <1>2, <1>3, <1>4, <1>5, <1>6, <1>7, <1>8, <1>9, <1>10 DEF DocumentNext

(* For any requests and documents, cut off anywhere: a report that can be  *)
(* downloaded has its object unless its deletion got no further than the   *)
(* object, and an object without a row is an image, or was left in the put *)
(* or between it and the last transaction.                                 *)
THEOREM DocumentsAreAccounted == DocumentSpec => []DocumentsAccounted
<1>1. DocumentInit => DocumentsInv
  BY DocumentInitInv
<1>2. DocumentsInv /\ [DocumentNext]_documentVars => DocumentsInv'
  BY DocumentTypeStep, DocumentsStep DEF DocumentsInv
<1>3. DocumentsInv => DocumentsAccounted
  BY DEF DocumentsInv
<1> QED
  BY <1>1, <1>2, <1>3, PTL DEF DocumentSpec

-----------------------------------------------------------------------------
(***************************************************************************)
(* Payments of reminders: the number that is counted when a payment is     *)
(* deleted is the one that was counted when its expense was written.       *)
(***************************************************************************)
(* A part of a finite set is counted, and has fewer members unless it is   *)
(* all.                                                                    *)
LEMMA SmallerSet ==
  ASSUME NEW S, NEW T, IsFiniteSet(T), S \subseteq T
  PROVE  /\ IsFiniteSet(S) /\ Cardinality(S) \in Nat /\ Cardinality(T) \in Nat
         /\ Cardinality(S) <= Cardinality(T)
         /\ S # T => Cardinality(S) < Cardinality(T)
<1>1. IsFiniteSet(S) /\ Cardinality(S) <= Cardinality(T) /\ (Cardinality(T) = Cardinality(S) => T = S)
  BY FS_Subset
<1>2. Cardinality(S) \in Nat /\ Cardinality(T) \in Nat
  BY <1>1, FS_CardinalityType
<1> QED
  BY <1>1, <1>2

(***************************************************************************)
(* Payments of reminders                                                   *)
(***************************************************************************)
Owns(r) == preq[r].step \in {"begun", "logged"}

PayRequestsInv ==
  \A r \in PayRequest :
    /\ preq[r].step # "idle" => preq[r].payment \in Payment
    /\ Owns(r) => /\ payments[preq[r].payment].state = "open"
                  /\ preq[r].value = payments[preq[r].payment].value
    /\ preq[r].step \in {"matched", "edit", "stored"} =>
         payments[preq[r].payment].state \in {"there", "gone"}
    /\ \A q \in PayRequest :
         q # r /\ Owns(r) /\ Owns(q) => preq[r].payment # preq[q].payment

InLedger == {"open", "there"}

(* created_at orders the payments, and one that is still being recorded    *)
(* when a later one begins is shifted, as is that one.                     *)
PayOrderInv ==
  /\ \A p \in Begun : payments[p].at \in 1 .. Cardinality(Begun)
  /\ \A p, q \in Begun : p # q => payments[p].at # payments[q].at
  /\ \A p, q \in Payment :
       /\ payments[p].state = "open" /\ payments[q].state \in InLedger
       /\ payments[p].of = payments[q].of /\ payments[p].at < payments[q].at
       => {p, q} \subseteq shifted

EntriesInv ==
  \A p \in Payment :
    /\ entries[p].state # "none" => payments[p].state \in {"there", "gone"}
    /\ entries[p].by # NoPayment => entries[p].state = "deleted"
    /\ \A q \in Payment : entries[p].by = q => payments[q].state = "gone"

(* The number that a payment is about to be written with.                  *)
NextText(m) ==
  [title |-> reminders[m].title,
   number |-> IF reminders[m].tenor = "many"
              THEN <<Cardinality(PaymentsIn(m, {"there"})) + 1>> ELSE <<>>]

TextsInv ==
  /\ \A p \in Payment \ shifted : payments[p].state = "there" =>
       entries[p].text = DescribeOld(p) /\ entries[p].value = payments[p].value
  /\ \A r \in PayRequest :
       preq[r].step = "logged" /\ preq[r].payment \notin shifted =>
         preq[r].text = NextText(payments[preq[r].payment].of)
  /\ \A r \in PayRequest :
       LET p == preq[r].payment IN
       preq[r].step = "matched" /\ payments[p].state = "there" /\ p \notin shifted =>
         preq[r].text = entries[p].text /\ preq[r].value = entries[p].value

PayInv ==
  /\ PayTypeOK /\ PayRequestsInv /\ PayOrderInv /\ EntriesInv /\ TextsInv
  /\ EntriesAccounted

-----------------------------------------------------------------------------
UpTo(p) ==
  {q \in PaymentsIn(payments[p].of, {"there"}) : payments[q].at <= payments[p].at}

(* The text of a payment that is deleted, by the payments up to it.        *)
LEMMA OldTextIs ==
  ASSUME NEW p
  PROVE  DescribeOld(p) =
           [title |-> reminders[payments[p].of].title,
            number |-> IF reminders[payments[p].of].tenor = "many"
                       THEN <<Cardinality(UpTo(p))>> ELSE <<>>]
BY DEF DescribeOld, UpTo

(* Payments are counted up to all of them, and one more is one more.       *)
LEMMA CountsAreBounded ==
  ASSUME NEW S, S \subseteq Payment
  PROVE  /\ IsFiniteSet(S) /\ Cardinality(S) \in 0 .. Cardinality(Payment)
         /\ \A p \in Payment \ S : /\ Cardinality(S) + 1 \in 0 .. Cardinality(Payment)
                                   /\ Cardinality(S \cup {p}) = Cardinality(S) + 1
<1>1. /\ IsFiniteSet(S) /\ Cardinality(S) \in Nat /\ Cardinality(Payment) \in Nat
      /\ Cardinality(S) <= Cardinality(Payment)
      /\ S # Payment => Cardinality(S) < Cardinality(Payment)
  BY PaymentConstants, SmallerSet
<1>2. \A p \in Payment \ S : Cardinality(S \cup {p}) = Cardinality(S) + 1
  BY <1>1, FS_AddElement
<1> QED
  BY <1>1, <1>2

(* The texts that are written and looked for are descriptions.             *)
LEMMA TextsAreTexts ==
  ASSUME PayTypeOK
  PROVE  /\ \A p \in Payment : DescribeOld(p) \in Description
         /\ \A m \in Reminder, p \in Payment :
              payments[p].state # "there" => DescribeNew(m) \in Description
<1>1. \A n \in 0 .. Cardinality(Payment) : <<n>> \in TenorNumber
  BY DEF TenorNumber
<1>2. <<>> \in TenorNumber
  BY DEF TenorNumber
<1>3. ASSUME NEW p \in Payment PROVE DescribeOld(p) \in Description
  <2>1. UpTo(p) \subseteq Payment
    BY DEF UpTo, PaymentsIn
  <2>2. Cardinality(UpTo(p)) \in 0 .. Cardinality(Payment)
    BY <2>1, CountsAreBounded
  <2>3. reminders[payments[p].of].title \in Title
    BY DEF PayTypeOK
  <2> QED
    BY <1>1, <1>2, <2>2, <2>3, OldTextIs DEF Description
<1>4. ASSUME NEW m \in Reminder, NEW p \in Payment, payments[p].state # "there"
      PROVE  DescribeNew(m) \in Description
  <2> DEFINE S == PaymentsIn(m, {"there"})
  <2>1. S \subseteq Payment /\ p \notin S
    BY <1>4 DEF PaymentsIn
  <2>2. Cardinality(S) + 1 \in 0 .. Cardinality(Payment)
    BY <2>1, CountsAreBounded
  <2>3. reminders[m].title \in Title /\ reminders[m].tenor \in {"none", "single", "many"}
    BY DEF PayTypeOK, Tenor
  <2>4. 0 \in 0 .. Cardinality(Payment)
    BY <2>1, CountsAreBounded
  <2>5. <<Cardinality(S) + 1>> \in TenorNumber /\ <<0>> \in TenorNumber
    BY <1>1, <2>2, <2>4
  <2> HIDE DEF S
  <2> QED
    BY <1>2, <2>3, <2>5 DEF DescribeNew, Description, S
<1> QED
  BY <1>3, <1>4

(* A request that does nothing is one of the requests.                     *)
LEMMA PayIdleIsTyped ==
  PayIdle \in [step : {"idle", "begun", "logged", "matched", "edit", "stored"},
               payment : Payment \cup {NoPayment}, text : Description, value : PaidValue]
<1>1. (CHOOSE t \in Title : TRUE) \in Title /\ (CHOOSE v \in PaidValue : TRUE) \in PaidValue
  BY PaymentConstants
<1> QED
  BY <1>1 DEF PayIdle, Description, TenorNumber

(* At first no payment was made and the ledger is empty.                   *)
LEMMA PayInitInv == PayInit => PayInv
<1> SUFFICES ASSUME PayInit PROVE PayInv
  OBVIOUS
<1>1. /\ (CHOOSE t \in Title : TRUE) \in Title /\ (CHOOSE v \in PaidValue : TRUE) \in PaidValue
      /\ (CHOOSE m \in Reminder : TRUE) \in Reminder
  BY PaymentConstants
<1>2. PayIdle.value \in PaidValue /\ PayIdle.text \in Description /\ PayIdle.step = "idle"
  BY PayIdleIsTyped DEF PayIdle
<1>3. 0 \in 0 .. Cardinality(Payment)
  BY CountsAreBounded
<1>4. PayTypeOK
  <2> HIDE DEF PayIdle
  <2>1. reminders \in [Reminder -> [title : Title, tenor : Tenor, live : BOOLEAN]]
    BY <1>1 DEF PayInit
  <2>2. payments \in [Payment -> [state : {"none", "open", "there", "gone"}, of : Reminder,
                                  value : PaidValue, at : 0 .. Cardinality(Payment)]]
    BY <1>1, <1>2, <1>3 DEF PayInit
  <2>3. entries \in [Payment -> [state : {"none", "visible", "deleted"}, value : PaidValue,
                                 text : Description, by : Payment \cup {NoPayment}]]
    BY <1>2 DEF PayInit
  <2>4. preq \in [PayRequest -> [step : {"idle", "begun", "logged", "matched", "edit", "stored"},
                                 payment : Payment \cup {NoPayment},
                                 text : Description, value : PaidValue]]
    BY PayIdleIsTyped DEF PayInit
  <2>5. edits \in 0 .. MaxEdits /\ shifted \in SUBSET Payment
    BY PaymentConstants DEF PayInit
  <2> QED
    BY <2>1, <2>2, <2>3, <2>4, <2>5 DEF PayTypeOK
<1>5. /\ \A p \in Payment : /\ payments[p].state = "none" /\ entries[p].state = "none"
                            /\ entries[p].by = NoPayment
      /\ \A r \in PayRequest : preq[r].step = "idle"
      /\ Begun = {}
  BY <1>2 DEF PayInit, Begun
<1> QED
  BY <1>4, <1>5, PaymentConstants
     DEF PayInv, PayRequestsInv, PayOrderInv, EntriesInv, TextsInv, EntriesAccounted, Owns,
         StrayEntryIsExplained, OnlyTwinsAreLost

-----------------------------------------------------------------------------
(* A step that neither adds a payment to the ledger nor takes one out of   *)
(* it leaves every number as it is counted.                                *)
SameLedger ==
  /\ reminders' = reminders
  /\ \A q \in Payment :
       /\ payments'[q].state = "there" <=> payments[q].state = "there"
       /\ payments[q].state # "none" =>
            payments'[q].of = payments[q].of /\ payments'[q].at = payments[q].at

(* Such a step keeps the text of each payment, and the next one of each    *)
(* reminder.                                                               *)
LEMMA NumbersAreKept ==
  ASSUME SameLedger
  PROVE  /\ \A q \in Payment : payments[q].state # "none" => DescribeOld(q)' = DescribeOld(q)
         /\ \A m \in Reminder : NextText(m)' = NextText(m)
<1>1. \A m \in Reminder : PaymentsIn(m, {"there"})' = PaymentsIn(m, {"there"})
  BY DEF PaymentsIn, SameLedger
<1>2. ASSUME NEW q \in Payment, payments[q].state # "none"
      PROVE  DescribeOld(q)' = DescribeOld(q)
  <2>1. /\ payments'[q].of = payments[q].of /\ payments'[q].at = payments[q].at
        /\ reminders' = reminders
    BY <1>2 DEF SameLedger
  <2>2. {s \in PaymentsIn(payments[q].of, {"there"}) : payments[s].at <= payments[q].at}'
          = {s \in PaymentsIn(payments[q].of, {"there"}) : payments[s].at <= payments[q].at}
    BY <2>1 DEF PaymentsIn, SameLedger
  <2> QED
    BY <2>1, <2>2 DEF DescribeOld
<1>3. \A m \in Reminder : NextText(m)' = NextText(m)
  BY <1>1 DEF NextText, SameLedger
<1> QED
  BY <1>2, <1>3

(* What a request that moves no entry keeps of the texts.                  *)
LEMMA TextsAreKept ==
  ASSUME PayTypeOK, PayRequestsInv, TextsInv, SameLedger, entries' = entries,
         shifted \subseteq shifted',
         \A q \in Payment \ shifted' :
           payments[q].state = "there" => payments'[q].value = payments[q].value,
         \A s \in PayRequest : preq'[s] = preq[s] \/ preq'[s].step \notin {"logged", "matched"}
  PROVE  TextsInv'
<1>1. \A q \in Payment \ shifted' : payments'[q].state = "there" =>
        entries'[q].text = DescribeOld(q)' /\ entries'[q].value = payments'[q].value
  <2> SUFFICES ASSUME NEW q \in Payment, q \notin shifted', payments'[q].state = "there"
               PROVE  entries'[q].text = DescribeOld(q)' /\ entries'[q].value = payments'[q].value
    OBVIOUS
  <2>1. payments[q].state = "there"
    BY DEF SameLedger
  <2>2. DescribeOld(q)' = DescribeOld(q)
    BY <2>1, NumbersAreKept
  <2> QED
    BY <2>1, <2>2 DEF TextsInv
<1>2. ASSUME NEW s \in PayRequest, preq'[s].step = "logged", preq'[s].payment \notin shifted'
      PROVE  preq'[s].text = NextText(payments[preq[s].payment].of)'
  <2>1. preq'[s] = preq[s]
    BY <1>2
  <2>2. preq[s].payment \in Payment /\ payments[preq[s].payment].state = "open"
    BY <1>2, <2>1 DEF PayRequestsInv, Owns
  <2>3. payments'[preq[s].payment].of = payments[preq[s].payment].of
        /\ payments[preq[s].payment].of \in Reminder
    BY <2>2 DEF SameLedger, PayTypeOK
  <2>4. preq[s].text = NextText(payments[preq[s].payment].of)
    BY <1>2, <2>1 DEF TextsInv
  <2> DEFINE m == payments[preq[s].payment].of
  <2>5. NextText(m)' = NextText(m)
    <3>1. \A x \in Reminder : NextText(x)' = NextText(x)
      BY NumbersAreKept
    <3>2. PaymentsIn(m, {"there"})' = PaymentsIn(m, {"there"}) /\ m' = m
      BY <2>1, <2>3 DEF PaymentsIn, SameLedger
    <3> QED
      BY <3>2 DEF NextText, SameLedger
  <2> QED
    BY <2>1, <2>4, <2>5
<1>3. ASSUME NEW s \in PayRequest, preq'[s].step = "matched",
             payments'[preq'[s].payment].state = "there", preq'[s].payment \notin shifted'
      PROVE  /\ preq'[s].text = entries'[preq'[s].payment].text
             /\ preq'[s].value = entries'[preq'[s].payment].value
  <2>1. preq'[s] = preq[s]
    BY <1>3
  <2>2. preq[s].payment \in Payment
    BY <1>3, <2>1 DEF PayRequestsInv
  <2>3. payments[preq[s].payment].state = "there"
    BY <1>3, <2>1, <2>2 DEF SameLedger
  <2> QED
    BY <1>3, <2>1, <2>3 DEF TextsInv
<1> QED
  <2>1. \A s \in PayRequest :
          preq'[s].step = "logged" /\ preq'[s].payment \notin shifted' =>
            preq'[s].text = NextText(payments[preq[s].payment].of)'
    BY <1>2
  <2>2. \A s \in PayRequest :
          preq'[s].step = "logged" /\ preq'[s].payment \notin shifted' =>
            preq[s].payment = preq'[s].payment
    <3> SUFFICES ASSUME NEW s \in PayRequest, preq'[s].step = "logged"
                 PROVE  preq[s].payment = preq'[s].payment
      OBVIOUS
    <3> QED
      OBVIOUS
  <2> QED
    BY <1>1, <1>3, <2>1, <2>2 DEF TextsInv

(* A payment that is given up, whose request may be any.                   *)
LEMMA AbandonInv ==
  ASSUME PayInv, NEW r \in PayRequest, NEW p \in Payment,
         payments[p].state = "open",
         \A q \in PayRequest : q # r /\ Owns(q) => preq[q].payment # p,
         preq' = [preq EXCEPT ![r] = PayIdle],
         payments' = [payments EXCEPT ![p].state = "gone"],
         shifted' = shifted, reminders' = reminders, entries' = entries, edits' = edits
  PROVE  PayInv'
<1> USE DEF PayInv
<1>1. /\ payments'[p].state = "gone" /\ payments'[p].at = payments[p].at
      /\ payments'[p].of = payments[p].of /\ payments'[p].value = payments[p].value
      /\ \A q \in Payment : q # p => payments'[q] = payments[q]
  BY DEF PayTypeOK
<1>2. PayIdle.step = "idle"
  BY DEF PayIdle
<1> HIDE DEF PayIdle
<1>3. preq'[r].step = "idle" /\ \A s \in PayRequest : s # r => preq'[s] = preq[s]
  BY <1>2 DEF PayTypeOK
<1>4. PayTypeOK'
  BY PayIdleIsTyped DEF PayTypeOK
<1>5. PayRequestsInv'
  BY <1>1, <1>3 DEF PayRequestsInv, Owns
<1>6. PayOrderInv'
  <2>1. Begun' = Begun /\ Begun \subseteq Payment
    BY <1>1 DEF Begun
  <2>2. \A q \in Payment : /\ payments'[q].at = payments[q].at /\ payments'[q].of = payments[q].of
                           /\ payments'[q].state = "open" => payments[q].state = "open"
                           /\ payments'[q].state \in InLedger => payments[q].state \in InLedger
    BY <1>1 DEF InLedger
  <2> QED
    BY <2>1, <2>2 DEF PayOrderInv
<1>7. entries[p].state = "none" /\ entries[p].by = NoPayment
  BY DEF EntriesInv, PayTypeOK
<1>8. EntriesInv'
  BY <1>1, <1>7 DEF EntriesInv
<1>9. TextsInv'
  <2>1. SameLedger
    BY <1>1 DEF SameLedger
  <2>2. \A q \in Payment \ shifted' :
           payments[q].state = "there" => payments'[q].value = payments[q].value
    BY <1>1
  <2>3. \A s \in PayRequest : preq'[s] = preq[s] \/ preq'[s].step \notin {"logged", "matched"}
    BY <1>3
  <2> QED
    BY <2>1, <2>2, <2>3, TextsAreKept
<1>10. EntriesAccounted'
  BY <1>1, <1>7 DEF EntriesAccounted, StrayEntryIsExplained, OnlyTwinsAreLost
<1> QED
  BY <1>4, <1>5, <1>6, <1>8, <1>9, <1>10

(* A payment is inserted, and seen by its own transaction only;            *)
LEMMA BeginPaymentInv ==
  ASSUME PayInv, NEW r \in PayRequest, NEW p \in Payment, NEW m \in Reminder, NEW v \in PaidValue,
         BeginPayment(r, p, m, v)
  PROVE  PayInv'
<1> USE DEF PayInv
<1> DEFINE C == Cardinality(Begun)
<1> DEFINE open == PaymentsIn(m, {"open"})
<1>1. /\ Begun \subseteq Payment /\ p \notin Begun /\ IsFiniteSet(Begun)
      /\ C \in Nat /\ C + 1 \in 0 .. Cardinality(Payment) /\ Cardinality(Begun \cup {p}) = C + 1
  <2>1. Begun \subseteq Payment /\ p \notin Begun
    BY DEF Begun, BeginPayment
  <2> QED
    BY <2>1, CountsAreBounded
<1>2. /\ preq[r].step = "idle" /\ payments[p].state = "none"
      /\ payments' = [payments EXCEPT ![p] = [state |-> "open", of |-> m, value |-> v, at |-> C + 1]]
      /\ preq' = [preq EXCEPT ![r] = [PayIdle EXCEPT !.step = "begun", !.payment = p, !.value = v]]
      /\ shifted' = IF open = {} THEN shifted ELSE shifted \cup open \cup {p}
      /\ reminders' = reminders /\ entries' = entries /\ edits' = edits
  BY DEF BeginPayment
<1> HIDE DEF C, open
<1>3. /\ payments'[p] = [state |-> "open", of |-> m, value |-> v, at |-> C + 1]
      /\ \A q \in Payment : q # p => payments'[q] = payments[q]
  BY <1>2 DEF PayTypeOK
<1>4. /\ preq'[r].step = "begun" /\ preq'[r].payment = p /\ preq'[r].value = v
      /\ \A s \in PayRequest : s # r => preq'[s] = preq[s]
  BY <1>2 DEF PayTypeOK, PayIdle
<1>5. open \subseteq Payment /\ shifted \subseteq shifted'
  BY <1>2 DEF open, PaymentsIn
<1>6. Begun' = Begun \cup {p}
  BY <1>2, <1>3 DEF Begun
<1>7. PayTypeOK'
  <2>1. [PayIdle EXCEPT !.step = "begun", !.payment = p, !.value = v]
          \in [step : {"idle", "begun", "logged", "matched", "edit", "stored"},
               payment : Payment \cup {NoPayment}, text : Description, value : PaidValue]
    BY PayIdleIsTyped
  <2>2. preq' \in [PayRequest -> [step : {"idle", "begun", "logged", "matched", "edit", "stored"},
                                  payment : Payment \cup {NoPayment},
                                  text : Description, value : PaidValue]]
    BY <1>2, <2>1 DEF PayTypeOK
  <2>3. payments' \in [Payment -> [state : {"none", "open", "there", "gone"}, of : Reminder,
                                   value : PaidValue, at : 0 .. Cardinality(Payment)]]
    BY <1>1, <1>2 DEF PayTypeOK, C
  <2> QED
    BY <1>2, <1>5, <2>2, <2>3 DEF PayTypeOK
<1>8. PayRequestsInv'
  BY <1>2, <1>3, <1>4 DEF PayRequestsInv, Owns
<1>9. PayOrderInv'
  <2>1. \A q \in Begun : payments[q].at \in 1 .. C
    BY DEF PayOrderInv, C
  <2>2. \A q \in Begun' : payments'[q].at \in 1 .. Cardinality(Begun)'
    <3>1. Cardinality(Begun') = C + 1
      BY <1>1, <1>6
    <3>2. \A q \in Begun : q \in Payment /\ q # p
      BY <1>1
    <3> QED
      BY <1>1, <1>3, <1>6, <2>1, <3>1, <3>2
  <2>3. \A q, s \in Begun' : q # s => payments'[q].at # payments'[s].at
    <3>1. \A q \in Begun : payments'[q].at = payments[q].at /\ payments[q].at < C + 1
      BY <1>1, <1>3, <2>1
    <3>2. \A q, s \in Begun : q # s => payments[q].at # payments[s].at
      BY DEF PayOrderInv
    <3> QED
      BY <1>1, <1>3, <1>6, <3>1, <3>2
  <2>4. ASSUME NEW a \in Payment, NEW b \in Payment,
               payments'[a].state = "open", payments'[b].state \in InLedger,
               payments'[a].of = payments'[b].of, payments'[a].at < payments'[b].at
        PROVE  {a, b} \subseteq shifted'
    <3>1. CASE a = p
      <4>1. b # p
        BY <1>1, <1>3, <2>4, <3>1
      <4>2. payments[b].state \in InLedger /\ payments'[b].at = payments[b].at
        BY <1>3, <2>4, <4>1
      <4>3. b \in Begun
        BY <4>2 DEF Begun, InLedger
      <4>4. payments[b].at \in 1 .. C /\ payments'[a].at = C + 1
        BY <1>3, <2>1, <3>1, <4>3
      <4> QED
        BY <1>1, <2>4, <4>2, <4>4
    <3>2. CASE a # p /\ b = p
      <4>1. a \in open
        BY <1>3, <2>4, <3>2 DEF open, PaymentsIn
      <4> QED
        BY <1>2, <3>2, <4>1
    <3>3. CASE a # p /\ b # p
      BY <1>3, <1>5, <2>4, <3>3 DEF PayOrderInv
    <3> QED
      BY <3>1, <3>2, <3>3
  <2> QED
    BY <2>2, <2>3, <2>4 DEF PayOrderInv, InLedger
<1>10. EntriesInv'
  BY <1>2, <1>3 DEF EntriesInv
<1>11. TextsInv'
  <2>1. SameLedger
    BY <1>2, <1>3 DEF SameLedger
  <2> QED
    BY <1>2, <1>3, <1>4, <1>5, <2>1, TextsAreKept
<1>12. EntriesAccounted'
  <2>1. \A q \in Payment : payments'[q].state = "gone" <=> payments[q].state = "gone"
    BY <1>2, <1>3
  <2> QED
    BY <1>2, <1>5, <2>1 DEF EntriesAccounted, StrayEntryIsExplained, OnlyTwinsAreLost
<1> QED
  BY <1>7, <1>8, <1>9, <1>10, <1>11, <1>12

(* its expense is described by the number that this transaction counts.    *)
LEMMA LogEntryInv ==
  ASSUME PayInv, NEW r \in PayRequest, LogEntry(r)
  PROVE  PayInv'
<1> USE DEF PayInv
<1> DEFINE p == preq[r].payment
<1> DEFINE m == payments[p].of
<1>1. /\ preq[r].step = "begun" /\ reminders' = reminders /\ entries' = entries /\ edits' = edits
      /\ p \in Payment /\ payments[p].state = "open" /\ m \in Reminder
      /\ \A q \in PayRequest : q # r /\ Owns(q) => preq[q].payment # p
  BY DEF LogEntry, PayRequestsInv, Owns, PayTypeOK
<1>2. CASE reminders[m].live
  <2>1. /\ preq' = [preq EXCEPT ![r].step = "logged", ![r].text = DescribeNew(m)]
        /\ shifted' = IF reminders[m].tenor = "single" THEN shifted \cup {p} ELSE shifted
        /\ payments' = payments
    BY <1>2 DEF LogEntry
  <2>2. DescribeNew(m) \in Description
    BY <1>1, TextsAreTexts
  <2> HIDE DEF p, m
  <2>3. /\ preq'[r] = [preq[r] EXCEPT !.step = "logged", !.text = DescribeNew(m)]
        /\ \A s \in PayRequest : s # r => preq'[s] = preq[s]
    BY <2>1 DEF PayTypeOK
  <2>4. shifted \subseteq shifted' /\ shifted' \subseteq Payment
    BY <1>1, <2>1 DEF PayTypeOK
  <2>5. PayTypeOK'
    <3>1. preq' \in [PayRequest -> [step : {"idle", "begun", "logged", "matched", "edit", "stored"},
                                    payment : Payment \cup {NoPayment},
                                    text : Description, value : PaidValue]]
      <4>1. preq[r] \in [step : {"idle", "begun", "logged", "matched", "edit", "stored"},
                          payment : Payment \cup {NoPayment}, text : Description, value : PaidValue]
        BY DEF PayTypeOK
      <4>2. preq'[r] \in [step : {"idle", "begun", "logged", "matched", "edit", "stored"},
                           payment : Payment \cup {NoPayment}, text : Description, value : PaidValue]
        BY <2>2, <2>3, <4>1
      <4>3. preq' = [preq EXCEPT ![r] = preq'[r]]
        BY <2>1 DEF PayTypeOK
      <4> QED
        BY <4>2, <4>3 DEF PayTypeOK
    <3> QED
      BY <1>1, <2>1, <2>4, <3>1 DEF PayTypeOK
  <2>6. preq'[r].step = "logged" /\ preq'[r].payment = p /\ preq'[r].value = preq[r].value
        /\ preq'[r].text = DescribeNew(m)
    BY <2>3 DEF PayTypeOK, p
  <2>7. PayRequestsInv'
    <3>1. \A s \in PayRequest : /\ preq'[s].payment = preq[s].payment
                                /\ preq'[s].value = preq[s].value
                                /\ preq'[s].step = preq[s].step \/ s = r
      BY <1>1, <2>3, <2>6 DEF Owns, p
    <3>2. \A s \in PayRequest : preq'[s].step # "idle" => preq[s].step # "idle"
      BY <1>1, <2>3
    <3>3. \A s \in PayRequest : preq'[s].step \in {"matched", "edit", "stored"} =>
                                preq[s].step \in {"matched", "edit", "stored"}
      BY <2>6, <3>1
    <3> QED
      <4>1. \A s \in PayRequest : preq'[s].step \in {"begun", "logged"} =>
                                  preq[s].step \in {"begun", "logged"}
        BY <1>1, <2>3
      <4>2. \A s \in PayRequest : preq'[s].payment = preq[s].payment /\ preq'[s].value = preq[s].value
        BY <3>1
      <4>3. \A s \in PayRequest : preq'[s].step # "idle" => preq'[s].payment \in Payment
        BY <3>2, <4>2 DEF PayRequestsInv
      <4>4. \A s \in PayRequest : preq'[s].step \in {"begun", "logged"} =>
              /\ payments'[preq'[s].payment].state = "open"
              /\ preq'[s].value = payments'[preq'[s].payment].value
        BY <2>1, <4>1, <4>2 DEF PayRequestsInv, Owns
      <4>5. \A s \in PayRequest : preq'[s].step \in {"matched", "edit", "stored"} =>
              payments'[preq'[s].payment].state \in {"there", "gone"}
        BY <2>1, <3>3, <4>2 DEF PayRequestsInv
      <4>6. \A s, q \in PayRequest :
              q # s /\ preq'[s].step \in {"begun", "logged"} /\ preq'[q].step \in {"begun", "logged"}
                => preq'[s].payment # preq'[q].payment
        BY <4>1, <4>2 DEF PayRequestsInv, Owns
      <4> QED
        BY <4>3, <4>4, <4>5, <4>6 DEF PayRequestsInv, Owns
  <2>8. PayOrderInv'
    BY <2>1, <2>4 DEF PayOrderInv, Begun
  <2>9. EntriesInv'
    BY <1>1, <2>1 DEF EntriesInv
  <2>10. TextsInv'
    <3>1. \A q \in Payment : DescribeOld(q)' = DescribeOld(q)
      BY <1>1, <2>1 DEF DescribeOld, PaymentsIn
    <3>2. NextText(m) = [title |-> reminders[m].title,
                         number |-> IF reminders[m].tenor = "many"
                                    THEN <<Cardinality(PaymentsIn(m, {"there"})) + 1>> ELSE <<>>]
      BY DEF NextText
    <3>3. p \notin shifted' => DescribeNew(m) = NextText(m)
      <4>1. reminders[m].tenor \in {"none", "single", "many"}
        BY <1>1 DEF PayTypeOK, Tenor
      <4> QED
        BY <2>1, <3>2, <4>1 DEF DescribeNew
    <3>4. \A q \in Payment \ shifted' : payments'[q].state = "there" =>
            entries'[q].text = DescribeOld(q)' /\ entries'[q].value = payments'[q].value
      BY <1>1, <2>1, <2>4, <3>1 DEF TextsInv
    <3>5. ASSUME NEW s \in PayRequest, preq'[s].step = "logged", preq'[s].payment \notin shifted'
          PROVE  preq'[s].text = NextText(payments[preq[s].payment].of)'
      <4>1. NextText(payments[preq[s].payment].of)' = NextText(payments[preq'[s].payment].of)
        BY <1>1, <2>1 DEF NextText, PaymentsIn
      <4>2. CASE s = r
        BY <2>6, <3>3, <3>5, <4>1, <4>2 DEF m
      <4>3. CASE s # r
        BY <2>3, <2>4, <3>5, <4>1, <4>3 DEF TextsInv
      <4> QED
        BY <4>2, <4>3
    <3>6. \A s \in PayRequest :
            preq'[s].step = "matched" /\ payments'[preq'[s].payment].state = "there"
              /\ preq'[s].payment \notin shifted'
            => /\ preq'[s].text = entries'[preq'[s].payment].text
               /\ preq'[s].value = entries'[preq'[s].payment].value
      <4> SUFFICES ASSUME NEW s \in PayRequest, preq'[s].step = "matched",
                          payments'[preq'[s].payment].state = "there",
                          preq'[s].payment \notin shifted'
                   PROVE  /\ preq'[s].text = entries'[preq'[s].payment].text
                          /\ preq'[s].value = entries'[preq'[s].payment].value
        OBVIOUS
      <4>1. preq'[s] = preq[s]
        BY <2>3, <2>6
      <4> QED
        BY <1>1, <2>1, <2>4, <4>1 DEF TextsInv
    <3> QED
      BY <3>4, <3>5, <3>6 DEF TextsInv
  <2>11. EntriesAccounted'
    BY <1>1, <2>1, <2>4 DEF EntriesAccounted, StrayEntryIsExplained, OnlyTwinsAreLost
  <2> QED
    BY <2>5, <2>7, <2>8, <2>9, <2>10, <2>11
<1>3. CASE ~ reminders[m].live
  <2>1. /\ preq' = [preq EXCEPT ![r] = PayIdle]
        /\ payments' = [payments EXCEPT ![p].state = "gone"]
        /\ shifted' = shifted
    BY <1>3 DEF LogEntry
  <2> QED
    BY <1>1, <2>1, AbandonInv
<1> QED
  BY <1>2, <1>3

(* The counts of an unshifted payment do not see that p is committed or    *)
(* goes.                                                                   *)
LEMMA CommitPaymentInv ==
  ASSUME PayInv, NEW r \in PayRequest, CommitPayment(r)
  PROVE  PayInv'
<1> USE DEF PayInv
<1>0. PICK p \in Payment : p = preq[r].payment
  BY DEF CommitPayment, PayRequestsInv
<1>1. /\ preq[r].step = "logged" /\ p = preq[r].payment /\ p \in Payment /\ payments[p].state = "open"
      /\ preq[r].value = payments[p].value /\ payments[p].of \in Reminder
      /\ p \notin shifted => preq[r].text = NextText(payments[p].of)
  BY <1>0 DEF CommitPayment, PayRequestsInv, Owns, TextsInv, PayTypeOK
<1>2. /\ payments' = [payments EXCEPT ![p].state = "there"]
      /\ entries' = [entries EXCEPT ![p] = [state |-> "visible", value |-> preq[r].value,
                                            text |-> preq[r].text, by |-> NoPayment]]
      /\ preq' = [preq EXCEPT ![r] = PayIdle]
      /\ reminders' = reminders /\ shifted' = shifted /\ edits' = edits
  BY <1>0 DEF CommitPayment
<1>3. /\ payments'[p].state = "there" /\ payments'[p].of = payments[p].of
      /\ payments'[p].at = payments[p].at /\ payments'[p].value = payments[p].value
      /\ \A q \in Payment : q # p => payments'[q] = payments[q]
  BY <1>1, <1>2 DEF PayTypeOK
<1>4. /\ entries'[p].state = "visible" /\ entries'[p].value = preq[r].value
      /\ entries'[p].text = preq[r].text /\ entries'[p].by = NoPayment
      /\ \A q \in Payment : q # p => entries'[q] = entries[q]
  BY <1>1, <1>2 DEF PayTypeOK
<1>5. preq'[r].step = "idle" /\ \A s \in PayRequest : s # r => preq'[s] = preq[s]
  BY <1>2 DEF PayTypeOK, PayIdle
<1>6. \A q \in Payment : payments'[q].of = payments[q].of /\ payments'[q].at = payments[q].at
  BY <1>3
<1>7. p \in Begun /\ Begun \subseteq Payment /\ Begun' = Begun
  BY <1>1, <1>3 DEF Begun
<1>8. \A q \in Begun : q = p \/ payments[q].at # payments[p].at
  BY <1>7 DEF PayOrderInv
<1>9. \A q \in Payment : payments[q].at \in Nat
  BY CountsAreBounded DEF PayTypeOK
<1>10. PayTypeOK'
  <2>1. preq[r].text \in Description /\ preq[r].value \in PaidValue
    BY DEF PayTypeOK
  <2>2. entries' \in [Payment -> [state : {"none", "visible", "deleted"}, value : PaidValue,
                                  text : Description, by : Payment \cup {NoPayment}]]
    BY <1>2, <2>1 DEF PayTypeOK
  <2>3. payments' \in [Payment -> [state : {"none", "open", "there", "gone"}, of : Reminder,
                                   value : PaidValue, at : 0 .. Cardinality(Payment)]]
    BY <1>1, <1>2 DEF PayTypeOK
  <2>4. preq' \in [PayRequest -> [step : {"idle", "begun", "logged", "matched", "edit", "stored"},
                                  payment : Payment \cup {NoPayment},
                                  text : Description, value : PaidValue]]
    BY <1>2, PayIdleIsTyped DEF PayTypeOK
  <2> QED
    BY <1>2, <2>2, <2>3, <2>4 DEF PayTypeOK
<1>11. PayRequestsInv'
  <2>1. \A s \in PayRequest : s # r /\ Owns(s) => preq[s].payment # p
    BY <1>1 DEF PayRequestsInv, Owns
  <2> QED
    BY <1>1, <1>3, <1>5, <2>1 DEF PayRequestsInv, Owns
<1>12. PayOrderInv'
  <2>1. \A q \in Payment : /\ payments'[q].state = "open" => payments[q].state = "open"
                           /\ payments'[q].state \in InLedger => payments[q].state \in InLedger
    BY <1>1, <1>3 DEF InLedger
  <2> QED
    BY <1>2, <1>6, <1>7, <2>1 DEF PayOrderInv
<1>13. EntriesInv'
  <2>1. \A q \in Payment : payments[q].state = "gone" => payments'[q].state = "gone"
    BY <1>1, <1>3
  <2>2. \A x, q \in Payment : entries'[x].by = q => payments'[q].state = "gone"
    BY <1>4, <2>1, PaymentConstants DEF EntriesInv
  <2>3. \A x \in Payment : entries'[x].by # NoPayment => entries'[x].state = "deleted"
    BY <1>4 DEF EntriesInv
  <2>4. \A x \in Payment : entries'[x].state # "none" => payments'[x].state \in {"there", "gone"}
    BY <1>3, <1>4 DEF EntriesInv
  <2> QED
    BY <2>2, <2>3, <2>4 DEF EntriesInv
<1>14. ASSUME p \notin shifted PROVE entries'[p].text = DescribeOld(p)'
  <2> DEFINE m == payments[p].of
  <2> DEFINE S == PaymentsIn(m, {"there"})
  <2> DEFINE upTo == {q \in PaymentsIn(m, {"there"}) : payments[q].at <= payments[p].at}
  <2>1. \A q \in S : payments[q].at <= payments[p].at
    <3> SUFFICES ASSUME NEW q \in S, payments[p].at < payments[q].at PROVE FALSE
      BY <1>1, <1>9 DEF PaymentsIn
    <3>1. q \in Payment /\ payments[q].of = payments[p].of /\ payments[q].state \in InLedger
      BY DEF PaymentsIn, InLedger
    <3> QED
      BY <1>1, <1>14, <3>1 DEF PayOrderInv
  <2>0. m' = m
    BY <1>3
  <2>2. upTo' = S \cup {p}
    <3>1. \A q \in Payment : q \in PaymentsIn(m, {"there"})' <=> q \in S \cup {p}
      BY <1>1, <1>3, <2>0 DEF PaymentsIn
    <3>2. PaymentsIn(m, {"there"})' \subseteq Payment /\ S \subseteq Payment
      BY DEF PaymentsIn
    <3>3. \A q \in S \cup {p} : payments'[q].at <= payments'[p].at
      BY <1>1, <1>6, <1>9, <2>1, <3>2
    <3> QED
      BY <1>1, <3>1, <3>2, <3>3
  <2>3. Cardinality(S \cup {p}) = Cardinality(S) + 1
    <3>1. S \subseteq Payment /\ p \notin S
      BY <1>1 DEF PaymentsIn
    <3> QED
      BY <1>1, <3>1, CountsAreBounded
  <2>4. DescribeOld(p)' = [title |-> reminders[m].title,
                           number |-> IF reminders[m].tenor = "many"
                                      THEN <<Cardinality(upTo')>> ELSE <<>>]
    <3>1. reminders' = reminders
      BY <1>2
    <3> HIDE DEF upTo
    <3> QED
      BY <2>0, <3>1 DEF DescribeOld, upTo
  <2> QED
    BY <1>1, <1>4, <1>14, <2>2, <2>3, <2>4 DEF NextText
<1>15. ASSUME NEW q \in Payment, q # p, q \notin shifted, payments[q].state = "there"
       PROVE  DescribeOld(q)' = DescribeOld(q)
  <2>1. q \in Begun
    BY <1>15 DEF Begun
  <2>2. ~ (payments[p].of = payments[q].of /\ payments[p].at <= payments[q].at)
    <3> SUFFICES ASSUME payments[p].of = payments[q].of, payments[p].at <= payments[q].at PROVE FALSE
      OBVIOUS
    <3>1. payments[p].at < payments[q].at
      BY <1>1, <1>8, <1>9, <1>15, <2>1
    <3> QED
      BY <1>1, <1>15, <3>1 DEF PayOrderInv, InLedger
  <2>3. {s \in PaymentsIn(payments[q].of, {"there"}) : payments[s].at <= payments[q].at}'
          = {s \in PaymentsIn(payments[q].of, {"there"}) : payments[s].at <= payments[q].at}
    BY <1>1, <1>3, <1>6, <2>2 DEF PaymentsIn
  <2>4. reminders' = reminders /\ payments'[q].of = payments[q].of
    BY <1>2, <1>6
  <2> QED
    BY <2>3, <2>4 DEF DescribeOld
<1>16. ASSUME NEW s \in PayRequest, s # r, preq[s].step = "logged", preq[s].payment \notin shifted
       PROVE  preq[s].text = NextText(payments[preq[s].payment].of)'
  <2> DEFINE q == preq[s].payment
  <2>1. q \in Payment /\ payments[q].state = "open" /\ q # p
    BY <1>1, <1>16 DEF PayRequestsInv, Owns
  <2>2. q \in Begun /\ preq'[s] = preq[s]
    BY <1>5, <1>16, <2>1 DEF Begun
  <2> HIDE DEF q
  <2>3. payments[p].of # payments[q].of
    <3> SUFFICES ASSUME payments[p].of = payments[q].of PROVE FALSE
      OBVIOUS
    <3>1. payments[p].at < payments[q].at \/ payments[q].at < payments[p].at
      BY <1>1, <1>8, <1>9, <2>1, <2>2
    <3>2. q \notin shifted
      BY <1>16 DEF q
    <3> QED
      BY <1>1, <2>1, <3>1, <3>2 DEF PayOrderInv, InLedger
  <2>4. PaymentsIn(payments[q].of, {"there"})' = PaymentsIn(payments[q].of, {"there"})
    BY <1>1, <1>3, <2>1, <2>2, <2>3 DEF PaymentsIn, q
  <2>5. preq[s].text = NextText(payments[q].of)
    BY <1>16 DEF TextsInv, q
  <2>6. payments'[q'].of = payments[q].of
    BY <1>6, <2>1, <2>2 DEF q
  <2>7. NextText(payments[q].of)' = NextText(payments[q].of)
    BY <1>2, <2>4, <2>6 DEF NextText
  <2> QED
    BY <2>5, <2>7 DEF q
<1>17. TextsInv'
  <2>1. \A q \in Payment \ shifted' : payments'[q].state = "there" =>
          entries'[q].text = DescribeOld(q)' /\ entries'[q].value = payments'[q].value
    <3> SUFFICES ASSUME NEW q \in Payment, q \notin shifted, payments'[q].state = "there"
                 PROVE  entries'[q].text = DescribeOld(q)' /\ entries'[q].value = payments'[q].value
      BY <1>2
    <3>1. CASE q = p
      <4>1. entries'[p].text = DescribeOld(p)'
        BY <1>14, <3>1
      <4> QED
        BY <1>1, <1>3, <1>4, <3>1, <4>1
    <3>2. CASE q # p
      BY <1>3, <1>4, <1>15, <3>2 DEF TextsInv
    <3> QED
      BY <3>1, <3>2
  <2>2. \A s \in PayRequest : preq'[s].step = "logged" /\ preq'[s].payment \notin shifted' =>
          preq'[s].text = NextText(payments[preq[s].payment].of)'
    <3> SUFFICES ASSUME NEW s \in PayRequest, preq'[s].step = "logged", preq'[s].payment \notin shifted'
                 PROVE  preq'[s].text = NextText(payments[preq[s].payment].of)'
      OBVIOUS
    <3>1. s # r /\ preq'[s] = preq[s] /\ shifted' = shifted
      BY <1>2, <1>5
    <3> QED
      BY <1>16, <3>1
  <2>3. ASSUME NEW s \in PayRequest, preq'[s].step = "matched",
               payments'[preq'[s].payment].state = "there", preq'[s].payment \notin shifted'
        PROVE  /\ preq'[s].text = entries'[preq'[s].payment].text
               /\ preq'[s].value = entries'[preq'[s].payment].value
    <3>1. s # r /\ preq'[s] = preq[s]
      BY <1>5, <2>3
    <3>2. preq[s].payment \in Payment /\ preq[s].payment # p
      BY <1>1, <2>3, <3>1 DEF PayRequestsInv
    <3> QED
      BY <1>2, <1>3, <1>4, <2>3, <3>1, <3>2 DEF TextsInv
  <2> QED
    BY <2>1, <2>2, <2>3 DEF TextsInv
<1>18. EntriesAccounted'
  <2>1. \A q \in Payment : payments'[q].state = "gone" => q # p /\ payments[q].state = "gone"
    BY <1>3
  <2>2. StrayEntryIsExplained'
    BY <1>2, <1>4, <2>1 DEF EntriesAccounted, StrayEntryIsExplained
  <2>3. ASSUME NEW x \in Payment, NEW q \in Payment, entries'[x].by = q, q \notin shifted
        PROVE  entries'[q].text = entries'[x].text /\ entries'[q].value = entries'[x].value
    <3>1. x # p /\ entries[x].by = q
      BY <1>4, <2>3, PaymentConstants
    <3>2. q # p
      BY <1>1, <3>1 DEF EntriesInv
    <3> QED
      BY <1>4, <2>3, <3>1, <3>2 DEF EntriesAccounted, OnlyTwinsAreLost
  <2> QED
    BY <1>2, <2>2, <2>3 DEF EntriesAccounted, OnlyTwinsAreLost
<1> QED
  BY <1>10, <1>11, <1>12, <1>13, <1>17, <1>18

(* A step of one request that writes none of the tables.                   *)
LEMMA RequestOnlyInv ==
  ASSUME PayInv, NEW r \in PayRequest, PayTypeOK',
         reminders' = reminders, payments' = payments, entries' = entries, shifted' = shifted,
         preq' = [preq EXCEPT ![r] = preq'[r]],
         preq'[r].step \notin {"begun", "logged"},
         preq'[r].step # "idle" =>
           preq'[r].payment \in Payment /\ payments[preq'[r].payment].state \in {"there", "gone"},
         preq'[r].step = "matched" =>
           LET p == preq'[r].payment IN
           p \notin shifted =>
             preq'[r].text = entries[p].text /\ preq'[r].value = entries[p].value
  PROVE  PayInv'
<1> USE DEF PayInv
<1>1. \A s \in PayRequest : s # r => preq'[s] = preq[s]
  BY DEF PayTypeOK
<1>2. PayRequestsInv'
  BY <1>1 DEF PayRequestsInv, Owns
<1>3. PayOrderInv' /\ EntriesInv' /\ EntriesAccounted'
  BY DEF PayOrderInv, Begun, EntriesInv, EntriesAccounted, StrayEntryIsExplained, OnlyTwinsAreLost
<1>4. TextsInv'
  <2>1. \A q \in Payment : DescribeOld(q)' = DescribeOld(q)
    BY DEF DescribeOld, PaymentsIn
  <2>2. \A q \in Payment \ shifted' : payments'[q].state = "there" =>
          entries'[q].text = DescribeOld(q)' /\ entries'[q].value = payments'[q].value
    BY <2>1 DEF TextsInv
  <2>3. ASSUME NEW s \in PayRequest, preq'[s].step = "logged", preq'[s].payment \notin shifted'
        PROVE  preq'[s].text = NextText(payments[preq[s].payment].of)'
    <3>1. s # r /\ preq'[s] = preq[s]
      BY <1>1, <2>3
    <3>2. NextText(payments[preq[s].payment].of)' = NextText(payments[preq[s].payment].of)
      BY <3>1 DEF NextText, PaymentsIn
    <3> QED
      BY <2>3, <3>1, <3>2 DEF TextsInv
  <2>4. ASSUME NEW s \in PayRequest, preq'[s].step = "matched",
               payments'[preq'[s].payment].state = "there", preq'[s].payment \notin shifted'
        PROVE  /\ preq'[s].text = entries'[preq'[s].payment].text
               /\ preq'[s].value = entries'[preq'[s].payment].value
    <3>1. CASE s = r
      BY <2>4, <3>1
    <3>2. CASE s # r
      BY <1>1, <2>4, <3>2 DEF TextsInv
    <3> QED
      BY <3>1, <3>2
  <2> QED
    BY <2>2, <2>3, <2>4 DEF TextsInv
<1> QED
  BY <1>2, <1>3, <1>4

PayRequestRecord ==
  [step : {"idle", "begun", "logged", "matched", "edit", "stored"},
   payment : Payment \cup {NoPayment}, text : Description, value : PaidValue]

(* A step that replaces one request leaves the others as they are.         *)
LEMMA OneRequestTyped ==
  ASSUME PayTypeOK, NEW r \in PayRequest, NEW x \in PayRequestRecord,
         preq' = [preq EXCEPT ![r] = x]
  PROVE  /\ preq' \in [PayRequest -> PayRequestRecord]
         /\ preq'[r] = x
         /\ \A s \in PayRequest : s # r => preq'[s] = preq[s]
BY DEF PayTypeOK, PayRequestRecord

(* A deletion describes the expense again, by the number it counts.        *)
LEMMA BeginDeletionInv ==
  ASSUME PayInv, NEW r \in PayRequest, NEW p \in Payment, BeginDeletion(r, p)
  PROVE  PayInv'
<1> USE DEF PayInv
<1> DEFINE x == [step |-> "matched", payment |-> p, text |-> DescribeOld(p),
                 value |-> payments[p].value]
<1>1. /\ preq' = [preq EXCEPT ![r] = x] /\ payments[p].state = "there"
      /\ reminders' = reminders /\ payments' = payments /\ entries' = entries
      /\ shifted' = shifted /\ edits' = edits
  BY DEF BeginDeletion
<1>2. x \in PayRequestRecord
  BY TextsAreTexts DEF PayTypeOK, PayRequestRecord
<1>3. preq' \in [PayRequest -> PayRequestRecord] /\ preq'[r] = x
  BY <1>1, <1>2, OneRequestTyped
<1>4. PayTypeOK'
  BY <1>1, <1>3 DEF PayTypeOK, PayRequestRecord
<1>5. p \notin shifted => entries[p].text = x.text /\ entries[p].value = x.value
  BY <1>1 DEF TextsInv
<1>6. x.step = "matched" /\ x.payment = p
  OBVIOUS
<1> HIDE DEF x
<1> QED
  BY <1>1, <1>3, <1>4, <1>5, <1>6, RequestOnlyInv

(* A change of the value begins with nothing but the form,                 *)
LEMMA BeginUpdateInv ==
  ASSUME PayInv, NEW r \in PayRequest, NEW p \in Payment, NEW v \in PaidValue, BeginUpdate(r, p, v)
  PROVE  PayInv'
<1> USE DEF PayInv
<1> DEFINE x == [PayIdle EXCEPT !.step = "edit", !.payment = p, !.value = v]
<1>1. /\ preq' = [preq EXCEPT ![r] = x] /\ payments[p].state = "there"
      /\ reminders' = reminders /\ payments' = payments /\ entries' = entries
      /\ shifted' = shifted /\ edits < MaxEdits /\ edits' = edits + 1
  BY DEF BeginUpdate, Edit
<1>2. x \in PayRequestRecord /\ x.step = "edit" /\ x.payment = p
  BY PayIdleIsTyped DEF PayRequestRecord, PayIdle
<1> HIDE DEF x
<1>3. preq' \in [PayRequest -> PayRequestRecord] /\ preq'[r] = x
  BY <1>1, <1>2, OneRequestTyped
<1>4. PayTypeOK'
  BY <1>1, <1>3, PaymentConstants DEF PayTypeOK, PayRequestRecord
<1> QED
  BY <1>1, <1>2, <1>3, <1>4, RequestOnlyInv

(* stores the proof,                                                       *)
LEMMA StoreProofInv ==
  ASSUME PayInv, NEW r \in PayRequest, StoreProof(r)
  PROVE  PayInv'
<1> USE DEF PayInv
<1> DEFINE x == [preq[r] EXCEPT !.step = "stored"]
<1>1. /\ preq' = [preq EXCEPT ![r] = x] /\ preq[r].step = "edit"
      /\ reminders' = reminders /\ payments' = payments /\ entries' = entries
      /\ shifted' = shifted /\ edits' = edits
  BY DEF StoreProof
<1>2. x \in PayRequestRecord /\ x.step = "stored" /\ x.payment = preq[r].payment
  BY DEF PayRequestRecord, PayTypeOK
<1> HIDE DEF x
<1>3. preq' \in [PayRequest -> PayRequestRecord] /\ preq'[r] = x
  BY <1>1, <1>2, OneRequestTyped
<1>4. PayTypeOK'
  BY <1>1, <1>3 DEF PayTypeOK, PayRequestRecord
<1>5. preq[r].payment \in Payment /\ payments[preq[r].payment].state \in {"there", "gone"}
  BY <1>1 DEF PayRequestsInv
<1> QED
  BY <1>1, <1>2, <1>3, <1>4, <1>5, RequestOnlyInv

(* A deletion takes the rows that match, and moves the later numbers.      *)
LEMMA CommitDeletionInv ==
  ASSUME PayInv, NEW r \in PayRequest, CommitDeletion(r)
  PROVE  PayInv'
<1> USE DEF PayInv
<1>0. PICK p \in Payment : p = preq[r].payment
  BY DEF CommitDeletion, PayRequestsInv
<1>1. /\ preq[r].step = "matched" /\ p = preq[r].payment /\ p \in Payment
      /\ preq' = [preq EXCEPT ![r] = PayIdle]
      /\ reminders' = reminders /\ edits' = edits
      /\ payments[p].state = "there" /\ p \notin shifted =>
           preq[r].text = entries[p].text /\ preq[r].value = entries[p].value
  BY <1>0 DEF CommitDeletion, TextsInv
<1>2. PayIdle.step = "idle" /\ PayIdle \in PayRequestRecord
  BY PayIdleIsTyped DEF PayIdle, PayRequestRecord
<1>3. /\ preq' \in [PayRequest -> PayRequestRecord] /\ preq'[r] = PayIdle
      /\ \A s \in PayRequest : s # r => preq'[s] = preq[s]
  BY <1>1, <1>2, OneRequestTyped
<1>4. CASE payments[p].state # "there"
  <2>1. UNCHANGED <<entries, payments, shifted>>
    BY <1>1, <1>4 DEF CommitDeletion
  <2>2. PayTypeOK'
    BY <1>1, <1>3, <2>1 DEF PayTypeOK, PayRequestRecord
  <2> QED
    BY <1>1, <1>2, <1>3, <2>1, <2>2, RequestOnlyInv
<1>5. CASE payments[p].state = "there"
  <2>1. /\ entries' = [q \in Payment |->
              IF q \in Matching(r) THEN [entries[q] EXCEPT !.state = "deleted", !.by = p]
              ELSE entries[q]]
        /\ payments' = [payments EXCEPT ![p].state = "gone"]
        /\ shifted' = shifted \cup After(p)
    BY <1>1, <1>5 DEF CommitDeletion
  <2>2. /\ payments'[p].state = "gone"
        /\ \A q \in Payment : q # p => payments'[q] = payments[q]
        /\ \A q \in Payment : /\ payments'[q].of = payments[q].of
                              /\ payments'[q].at = payments[q].at
                              /\ payments'[q].value = payments[q].value
    <3>1. p \in Payment /\ payments' = [payments EXCEPT ![p].state = "gone"]
      BY <1>1, <2>1
    <3> QED
      BY <3>1 DEF PayTypeOK
  <2>3. \A q \in Payment :
          /\ entries'[q].text = entries[q].text /\ entries'[q].value = entries[q].value
          /\ q \in Matching(r) => entries'[q].state = "deleted" /\ entries'[q].by = p
          /\ q \notin Matching(r) => entries'[q] = entries[q]
    BY <2>1 DEF PayTypeOK
  <2>4. After(p) \subseteq Payment /\ shifted \subseteq shifted'
    BY <2>1 DEF After, PaymentsIn
  <2>5. /\ p \in Begun /\ Begun \subseteq Payment /\ Begun' = Begun
        /\ \A q \in Payment : payments[q].at \in Nat
        /\ \A q \in Begun : q # p => payments[q].at # payments[p].at
    <3>1. p \in Begun /\ Begun \subseteq Payment /\ Begun' = Begun
      BY <1>5, <2>2 DEF Begun
    <3>2. \A q \in Payment : payments[q].at \in Nat
      BY CountsAreBounded DEF PayTypeOK
    <3> QED
      BY <3>1, <3>2 DEF PayOrderInv
  <2>6. PayTypeOK'
    <3>1. entries' \in [Payment -> [state : {"none", "visible", "deleted"}, value : PaidValue,
                                    text : Description, by : Payment \cup {NoPayment}]]
      <4> DEFINE E == [state : {"none", "visible", "deleted"}, value : PaidValue,
                       text : Description, by : Payment \cup {NoPayment}]
      <4> DEFINE F(q) == IF q \in Matching(r)
                         THEN [entries[q] EXCEPT !.state = "deleted", !.by = p] ELSE entries[q]
      <4>1. ASSUME NEW q \in Payment PROVE F(q) \in E
        <5>1. entries[q] \in E /\ p \in Payment
          BY <1>1 DEF PayTypeOK
        <5>2. [entries[q] EXCEPT !.state = "deleted", !.by = p] \in E
          BY <5>1
        <5> QED
          BY <5>1, <5>2
      <4>2. entries' = [q \in Payment |-> F(q)]
        BY <2>1
      <4> HIDE DEF E, F
      <4>3. entries' \in [Payment -> E]
        BY <4>1, <4>2
      <4> QED
        BY <4>3 DEF E
    <3>2. payments' \in [Payment -> [state : {"none", "open", "there", "gone"}, of : Reminder,
                                     value : PaidValue, at : 0 .. Cardinality(Payment)]]
      <4>1. p \in Payment /\ payments' = [payments EXCEPT ![p].state = "gone"]
        BY <1>1, <2>1
      <4> QED
        BY <4>1 DEF PayTypeOK
    <3> QED
      BY <1>1, <1>3, <2>1, <2>4, <3>1, <3>2 DEF PayTypeOK, PayRequestRecord
  <2>7. PayRequestsInv'
    <3>1. \A s \in PayRequest : Owns(s) => preq[s].payment # p
      BY <1>5 DEF PayRequestsInv
    <3> QED
      BY <1>2, <1>3, <1>5, <2>2, <3>1 DEF PayRequestsInv, Owns
  <2>8. PayOrderInv'
    <3>1. \A q \in Payment : /\ payments'[q].state = "open" => payments[q].state = "open"
                             /\ payments'[q].state \in InLedger => payments[q].state \in InLedger
      BY <2>2 DEF InLedger
    <3> QED
      BY <2>2, <2>4, <2>5, <3>1 DEF PayOrderInv
  <2>9. EntriesInv'
    <3>1. \A q \in Payment : payments[q].state \in {"there", "gone"} =>
                             payments'[q].state \in {"there", "gone"}
      BY <2>2
    <3>2. \A q \in Payment : entries'[q].state # "none" => entries[q].state # "none"
      BY <2>3 DEF Matching
    <3>3. \A q \in Payment : entries'[q].by # NoPayment => entries'[q].state = "deleted"
      BY <2>3 DEF EntriesInv
    <3>4. \A x, q \in Payment : entries'[x].by = q => payments'[q].state = "gone"
      BY <2>2, <2>3 DEF EntriesInv
    <3> QED
      BY <3>1, <3>2, <3>3, <3>4 DEF EntriesInv
  <2>10. ASSUME NEW q \in Payment, q # p, q \notin shifted', payments[q].state = "there"
         PROVE  DescribeOld(q)' = DescribeOld(q)
    <3>1. q \in Begun
      BY <2>10 DEF Begun
    <3>2. ~ (payments[p].of = payments[q].of /\ payments[p].at <= payments[q].at)
      <4> SUFFICES ASSUME payments[p].of = payments[q].of, payments[p].at <= payments[q].at PROVE FALSE
        OBVIOUS
      <4>1. payments[p].at < payments[q].at
        BY <2>5, <2>10, <3>1
      <4> QED
        BY <2>1, <2>10, <4>1 DEF After, PaymentsIn
    <3>3. {s \in PaymentsIn(payments[q].of, {"there"}) : payments[s].at <= payments[q].at}'
            = {s \in PaymentsIn(payments[q].of, {"there"}) : payments[s].at <= payments[q].at}
      BY <2>2, <3>2 DEF PaymentsIn
    <3>4. reminders' = reminders /\ payments'[q].of = payments[q].of
      BY <1>1, <2>2
    <3> QED
      BY <3>3, <3>4 DEF DescribeOld
  <2>11. ASSUME NEW s \in PayRequest, s # r, preq[s].step = "logged", preq[s].payment \notin shifted'
         PROVE  preq[s].text = NextText(payments[preq[s].payment].of)'
    <3>1. PICK q \in Payment : q = preq[s].payment
      BY <2>11 DEF PayRequestsInv
    <3>2. payments[q].state = "open" /\ q # p /\ q \in Begun /\ preq'[s] = preq[s]
      BY <1>3, <1>5, <2>11, <3>1 DEF PayRequestsInv, Owns, Begun
    <3>3. payments[p].of # payments[q].of
      <4> SUFFICES ASSUME payments[p].of = payments[q].of PROVE FALSE
        OBVIOUS
      <4>1. payments[p].at < payments[q].at \/ payments[q].at < payments[p].at
        BY <2>5, <3>2
      <4>2. q \notin shifted /\ q \notin After(p)
        BY <2>1, <2>11, <3>1
      <4>3. ~ (payments[q].at < payments[p].at)
        BY <1>5, <3>2, <4>2 DEF PayOrderInv, InLedger
      <4>4. ~ (payments[p].at < payments[q].at)
        BY <3>2, <4>2, <2>5 DEF After, PaymentsIn
      <4> QED
        BY <4>1, <4>3, <4>4
    <3>4. PaymentsIn(payments[q].of, {"there"})' = PaymentsIn(payments[q].of, {"there"})
      BY <2>2, <3>3 DEF PaymentsIn
    <3>5. preq[s].text = NextText(payments[q].of)
      BY <2>4, <2>11, <3>1 DEF TextsInv
    <3>6. payments'[q].of = payments[q].of
      BY <2>2
    <3>7. NextText(payments[q].of)' = NextText(payments[q].of)
      BY <1>1, <3>4, <3>6 DEF NextText
    <3> QED
      BY <3>1, <3>2, <3>5, <3>7
  <2>12. TextsInv'
    <3>1. \A q \in Payment \ shifted' : payments'[q].state = "there" =>
            entries'[q].text = DescribeOld(q)' /\ entries'[q].value = payments'[q].value
      BY <2>2, <2>3, <2>4, <2>10 DEF TextsInv
    <3>2. \A s \in PayRequest : preq'[s].step = "logged" /\ preq'[s].payment \notin shifted' =>
            preq'[s].text = NextText(payments[preq[s].payment].of)'
      <4> SUFFICES ASSUME NEW s \in PayRequest, preq'[s].step = "logged",
                          preq'[s].payment \notin shifted'
                   PROVE  preq'[s].text = NextText(payments[preq[s].payment].of)'
        OBVIOUS
      <4>1. s # r /\ preq'[s] = preq[s]
        BY <1>2, <1>3
      <4> QED
        BY <2>11, <4>1
    <3>3. ASSUME NEW s \in PayRequest, preq'[s].step = "matched",
                 payments'[preq'[s].payment].state = "there", preq'[s].payment \notin shifted'
          PROVE  /\ preq'[s].text = entries'[preq'[s].payment].text
                 /\ preq'[s].value = entries'[preq'[s].payment].value
      <4>1. s # r /\ preq'[s] = preq[s]
        BY <1>2, <1>3, <3>3
      <4>2. preq[s].payment \in Payment /\ preq[s].payment # p
        BY <2>2, <3>3, <4>1 DEF PayRequestsInv
      <4> QED
        BY <2>2, <2>3, <2>4, <3>3, <4>1, <4>2 DEF TextsInv
    <3> QED
      BY <3>1, <3>2, <3>3 DEF TextsInv
  <2>13. EntriesAccounted'
    <3>1. ASSUME NEW q \in Payment, payments'[q].state = "gone", entries'[q].state = "visible",
                 q \notin shifted'
          PROVE  FALSE
      <4>1. q \notin Matching(r) /\ entries'[q] = entries[q] /\ q \notin shifted
        BY <2>3, <2>4, <3>1
      <4>2. CASE q = p
        BY <1>1, <1>5, <3>1, <4>1, <4>2 DEF Matching
      <4>3. CASE q # p
        BY <2>2, <3>1, <4>1, <4>3 DEF EntriesAccounted, StrayEntryIsExplained
      <4> QED
        BY <4>2, <4>3
    <3>2. ASSUME NEW x \in Payment, NEW q \in Payment, entries'[x].by = q, q \notin shifted'
          PROVE  entries'[q].text = entries'[x].text /\ entries'[q].value = entries'[x].value
      <4>1. CASE x \in Matching(r)
        <5>1. q = p /\ p \notin shifted
          BY <2>3, <2>4, <3>2, <4>1
        <5>2. entries[x].text = preq[r].text /\ entries[x].value = preq[r].value
          BY <4>1 DEF Matching
        <5> QED
          BY <1>1, <1>5, <2>3, <5>1, <5>2
      <4>2. CASE x \notin Matching(r)
        <5>1. entries[x].by = q /\ q \notin shifted
          BY <2>3, <2>4, <3>2, <4>2
        <5> QED
          BY <2>3, <5>1 DEF EntriesAccounted, OnlyTwinsAreLost
      <4> QED
        BY <4>1, <4>2
    <3> QED
      BY <3>1, <3>2 DEF EntriesAccounted, StrayEntryIsExplained, OnlyTwinsAreLost
  <2> QED
    BY <2>6, <2>7, <2>8, <2>9, <2>12, <2>13
<1> QED
  BY <1>4, <1>5

(* and writes the payment, never its expense.                              *)
LEMMA UpdatePaymentInv ==
  ASSUME PayInv, NEW r \in PayRequest, UpdatePayment(r)
  PROVE  PayInv'
<1> USE DEF PayInv
<1>0. PICK p \in Payment : p = preq[r].payment
  BY DEF UpdatePayment, PayRequestsInv
<1>1. /\ p \in Payment /\ p = preq[r].payment /\ preq' = [preq EXCEPT ![r] = PayIdle]
      /\ reminders' = reminders /\ entries' = entries /\ edits' = edits
  BY <1>0 DEF UpdatePayment
<1>2. PayIdle.step = "idle" /\ PayIdle \in PayRequestRecord
  BY PayIdleIsTyped DEF PayIdle, PayRequestRecord
<1>3. /\ preq' \in [PayRequest -> PayRequestRecord] /\ preq'[r] = PayIdle
      /\ \A s \in PayRequest : s # r => preq'[s] = preq[s]
  BY <1>1, <1>2, OneRequestTyped
<1>4. CASE payments[p].state # "there"
  <2>1. UNCHANGED <<payments, shifted>>
    BY <1>1, <1>4 DEF UpdatePayment
  <2>2. PayTypeOK'
    BY <1>1, <1>3, <2>1 DEF PayTypeOK, PayRequestRecord
  <2> QED
    BY <1>1, <1>2, <1>3, <2>1, <2>2, RequestOnlyInv
<1>5. CASE payments[p].state = "there"
  <2>1. /\ payments' = [payments EXCEPT ![p].value = preq[r].value]
        /\ shifted' = shifted \cup {p}
    BY <1>1, <1>5 DEF UpdatePayment
  <2>2. /\ \A q \in Payment : q # p => payments'[q] = payments[q]
        /\ \A q \in Payment : /\ payments'[q].of = payments[q].of
                              /\ payments'[q].at = payments[q].at
                              /\ payments'[q].state = payments[q].state
    BY <2>1 DEF PayTypeOK
  <2>3. PayTypeOK'
    <3>1. preq[r].value \in PaidValue
      BY DEF PayTypeOK
    <3>2. payments' \in [Payment -> [state : {"none", "open", "there", "gone"}, of : Reminder,
                                     value : PaidValue, at : 0 .. Cardinality(Payment)]]
      BY <1>1, <2>1, <3>1 DEF PayTypeOK
    <3> QED
      BY <1>1, <1>3, <2>1, <3>2 DEF PayTypeOK, PayRequestRecord
  <2>4. PayRequestsInv'
    <3>1. \A s \in PayRequest : Owns(s) => preq[s].payment # p
      BY <1>5 DEF PayRequestsInv
    <3> QED
      BY <1>2, <1>3, <2>2, <3>1 DEF PayRequestsInv, Owns
  <2>5. PayOrderInv'
    BY <2>1, <2>2 DEF PayOrderInv, Begun
  <2>6. EntriesInv'
    BY <1>1, <2>2 DEF EntriesInv
  <2>7. TextsInv'
    <3>1. SameLedger
      BY <1>1, <2>2 DEF SameLedger
    <3>2. \A q \in Payment \ shifted' :
             payments[q].state = "there" => payments'[q].value = payments[q].value
      BY <2>1, <2>2
    <3>3. \A s \in PayRequest : preq'[s] = preq[s] \/ preq'[s].step \notin {"logged", "matched"}
      BY <1>2, <1>3
    <3> QED
      BY <1>1, <2>1, <3>1, <3>2, <3>3, TextsAreKept
  <2>8. EntriesAccounted'
    BY <1>1, <2>1, <2>2 DEF EntriesAccounted, StrayEntryIsExplained, OnlyTwinsAreLost
  <2> QED
    BY <2>3, <2>4, <2>5, <2>6, <2>7, <2>8
<1> QED
  BY <1>4, <1>5

(* A rollback leaves the ledger and every counted payment as they are.     *)
LEMMA PaymentRollbackInv ==
  ASSUME PayInv, NEW r \in PayRequest, PaymentRollback(r)
  PROVE  PayInv'
<1> USE DEF PayInv
<1>0. PICK p \in Payment : p = preq[r].payment
  BY DEF PaymentRollback, PayRequestsInv
<1>1. /\ p \in Payment /\ p = preq[r].payment /\ preq[r].step # "idle"
      /\ preq' = [preq EXCEPT ![r] = PayIdle]
      /\ payments' = [q \in Payment |-> IF q = p /\ payments[q].state = "open"
                                        THEN [payments[q] EXCEPT !.state = "gone"] ELSE payments[q]]
      /\ reminders' = reminders /\ entries' = entries /\ edits' = edits /\ shifted' = shifted
  BY <1>0 DEF PaymentRollback
<1>2. PayIdle.step = "idle" /\ PayIdle \in PayRequestRecord
  BY PayIdleIsTyped DEF PayIdle, PayRequestRecord
<1>3. preq' \in [PayRequest -> PayRequestRecord] /\ preq'[r] = PayIdle
  BY <1>1, <1>2, OneRequestTyped
<1>4. CASE Owns(r)
  <2>1. payments[p].state = "open"
        /\ \A q \in PayRequest : q # r /\ Owns(q) => preq[q].payment # p
    BY <1>1, <1>4 DEF PayRequestsInv
  <2>2. payments' = [payments EXCEPT ![p].state = "gone"]
    BY <1>1, <2>1 DEF PayTypeOK
  <2>3. /\ p \in Payment /\ preq' = [preq EXCEPT ![r] = PayIdle]
        /\ reminders' = reminders /\ entries' = entries /\ edits' = edits /\ shifted' = shifted
    BY <1>1
  <2> QED
    BY <2>1, <2>2, <2>3, AbandonInv
<1>5. CASE ~ Owns(r)
  <2>1. preq[r].step \in {"matched", "edit", "stored"}
    BY <1>1, <1>5 DEF Owns, PayTypeOK
  <2>2. payments[p].state # "open"
    BY <1>1, <2>1 DEF PayRequestsInv
  <2>3. payments' = payments
    BY <1>1, <2>2 DEF PayTypeOK
  <2>4. PayTypeOK'
    BY <1>1, <1>3, <2>3 DEF PayTypeOK, PayRequestRecord
  <2> QED
    BY <1>1, <1>2, <1>3, <2>3, <2>4, RequestOnlyInv
<1> QED
  BY <1>4, <1>5

(* An expense that is edited by hand has a cause recorded,                 *)
LEMMA EditEntryInv ==
  ASSUME PayInv, NEW p \in Payment, NEW v \in PaidValue, EditEntry(p, v)
  PROVE  PayInv'
<1> USE DEF PayInv
<1>1. /\ entries[p].state = "visible" /\ entries' = [entries EXCEPT ![p].value = v]
      /\ shifted' = shifted \cup {p} /\ edits < MaxEdits /\ edits' = edits + 1
      /\ reminders' = reminders /\ payments' = payments /\ preq' = preq
  BY DEF EditEntry, Edit
<1>2. /\ \A q \in Payment : q # p => entries'[q] = entries[q]
      /\ \A q \in Payment : /\ entries'[q].state = entries[q].state
                            /\ entries'[q].by = entries[q].by
                            /\ entries'[q].text = entries[q].text
  BY <1>1 DEF PayTypeOK
<1>3. PayTypeOK'
  BY <1>1, PaymentConstants DEF PayTypeOK
<1>4. PayRequestsInv' /\ PayOrderInv'
  BY <1>1 DEF PayRequestsInv, Owns, PayOrderInv, Begun
<1>5. EntriesInv'
  BY <1>1, <1>2 DEF EntriesInv
<1>6. TextsInv'
  <2>1. \A q \in Payment : DescribeOld(q)' = DescribeOld(q)
    BY <1>1 DEF DescribeOld, PaymentsIn
  <2>2. \A s \in PayRequest :
          NextText(payments[preq[s].payment].of)' = NextText(payments[preq[s].payment].of)
    BY <1>1 DEF NextText, PaymentsIn
  <2> QED
    BY <1>1, <1>2, <2>1, <2>2 DEF TextsInv, PayRequestsInv
<1>7. EntriesAccounted'
  <2>1. entries[p].by = NoPayment
    BY <1>1 DEF EntriesInv
  <2> QED
    BY <1>1, <1>2, <2>1, PaymentConstants
       DEF EntriesAccounted, StrayEntryIsExplained, OnlyTwinsAreLost
<1> QED
  BY <1>3, <1>4, <1>5, <1>6, <1>7

(* and one that is removed by hand is none that outlives its payment.      *)
LEMMA RemoveEntryInv ==
  ASSUME PayInv, NEW p \in Payment, RemoveEntry(p)
  PROVE  PayInv'
<1> USE DEF PayInv
<1>1. /\ entries[p].state = "visible" /\ entries' = [entries EXCEPT ![p].state = "deleted"]
      /\ edits < MaxEdits /\ edits' = edits + 1 /\ shifted' = shifted
      /\ reminders' = reminders /\ payments' = payments /\ preq' = preq
  BY DEF RemoveEntry, Edit
<1>2. /\ entries'[p].state = "deleted"
      /\ \A q \in Payment : q # p => entries'[q] = entries[q]
      /\ \A q \in Payment : /\ entries'[q].value = entries[q].value
                            /\ entries'[q].by = entries[q].by
                            /\ entries'[q].text = entries[q].text
  BY <1>1 DEF PayTypeOK
<1>3. PayTypeOK'
  BY <1>1, PaymentConstants DEF PayTypeOK
<1>4. PayRequestsInv' /\ PayOrderInv'
  BY <1>1 DEF PayRequestsInv, Owns, PayOrderInv, Begun
<1>5. EntriesInv'
  BY <1>1, <1>2 DEF EntriesInv
<1>6. TextsInv'
  <2>1. \A q \in Payment : DescribeOld(q)' = DescribeOld(q)
    BY <1>1 DEF DescribeOld, PaymentsIn
  <2>2. \A s \in PayRequest :
          NextText(payments[preq[s].payment].of)' = NextText(payments[preq[s].payment].of)
    BY <1>1 DEF NextText, PaymentsIn
  <2> QED
    BY <1>1, <1>2, <2>1, <2>2 DEF TextsInv, PayRequestsInv
<1>7. EntriesAccounted'
  BY <1>1, <1>2 DEF EntriesAccounted, StrayEntryIsExplained, OnlyTwinsAreLost
<1> QED
  BY <1>3, <1>4, <1>5, <1>6, <1>7

(* A reminder that is edited has a cause recorded for each of its          *)
(* payments,                                                               *)
LEMMA UpdateReminderInv ==
  ASSUME PayInv, NEW m \in Reminder, NEW t \in Title, NEW tenor \in Tenor,
         UpdateReminder(m, t, tenor)
  PROVE  PayInv'
<1> USE DEF PayInv
<1>1. /\ reminders' = [reminders EXCEPT ![m].title = t, ![m].tenor = tenor]
      /\ edits < MaxEdits /\ edits' = edits + 1
      /\ shifted' = shifted \cup PaymentsIn(m, {"open", "there"})
      /\ payments' = payments /\ entries' = entries /\ preq' = preq
  BY DEF UpdateReminder, Edit
<1>2. \A n \in Reminder : n # m => reminders'[n] = reminders[n]
  BY <1>1 DEF PayTypeOK
<1>3. shifted \subseteq shifted' /\ shifted' \subseteq Payment
  BY <1>1 DEF PaymentsIn, PayTypeOK
<1>4. PayTypeOK'
  <2>1. reminders' \in [Reminder -> [title : Title, tenor : Tenor, live : BOOLEAN]]
    <3>1. reminders' = [reminders EXCEPT ![m] = [reminders[m] EXCEPT !.title = t, !.tenor = tenor]]
      BY <1>1 DEF PayTypeOK
    <3>2. reminders \in [Reminder -> [title : Title, tenor : Tenor, live : BOOLEAN]]
      BY DEF PayTypeOK
    <3>3. reminders[m] \in [title : Title, tenor : Tenor, live : BOOLEAN]
      BY <3>2
    <3>4. [reminders[m] EXCEPT !.title = t, !.tenor = tenor]
            \in [title : Title, tenor : Tenor, live : BOOLEAN]
      BY <3>3
    <3> QED
      BY <3>1, <3>2, <3>4
  <2> QED
    BY <1>1, <1>3, <2>1, PaymentConstants DEF PayTypeOK
<1>5. PayRequestsInv' /\ EntriesInv'
  BY <1>1 DEF PayRequestsInv, Owns, EntriesInv
<1>6. PayOrderInv'
  BY <1>1, <1>3 DEF PayOrderInv, Begun
<1>7. TextsInv'
  <2>1. \A q \in Payment \ shifted' : payments[q].state \in {"open", "there"} =>
          payments[q].of \in Reminder /\ payments[q].of # m
    BY <1>1 DEF PaymentsIn, PayTypeOK
  <2>2. \A q \in Payment \ shifted' : payments'[q].state = "there" =>
          entries'[q].text = DescribeOld(q)' /\ entries'[q].value = payments'[q].value
    <3> SUFFICES ASSUME NEW q \in Payment, q \notin shifted', payments'[q].state = "there"
                 PROVE  entries'[q].text = DescribeOld(q)' /\ entries'[q].value = payments'[q].value
      OBVIOUS
    <3>1. reminders'[payments'[q].of] = reminders[payments[q].of]
      BY <1>1, <1>2, <2>1
    <3>2. DescribeOld(q)' = DescribeOld(q)
      BY <1>1, <3>1 DEF DescribeOld, PaymentsIn
    <3> QED
      BY <1>1, <1>3, <3>2 DEF TextsInv
  <2>3. \A s \in PayRequest : preq'[s].step = "logged" /\ preq'[s].payment \notin shifted' =>
          preq'[s].text = NextText(payments[preq[s].payment].of)'
    <3> SUFFICES ASSUME NEW s \in PayRequest, preq'[s].step = "logged",
                        preq'[s].payment \notin shifted'
                 PROVE  preq'[s].text = NextText(payments[preq[s].payment].of)'
      OBVIOUS
    <3>1. preq[s].payment \in Payment /\ payments[preq[s].payment].state = "open"
      BY <1>1 DEF PayRequestsInv, Owns
    <3>2. reminders'[payments'[preq'[s].payment].of] = reminders[payments[preq[s].payment].of]
      BY <1>1, <1>2, <2>1, <3>1
    <3>3. NextText(payments[preq[s].payment].of)' = NextText(payments[preq[s].payment].of)
      BY <1>1, <3>2 DEF NextText, PaymentsIn
    <3> QED
      BY <1>1, <1>3, <3>3 DEF TextsInv
  <2>4. \A s \in PayRequest :
          preq'[s].step = "matched" /\ payments'[preq'[s].payment].state = "there"
            /\ preq'[s].payment \notin shifted'
          => /\ preq'[s].text = entries'[preq'[s].payment].text
             /\ preq'[s].value = entries'[preq'[s].payment].value
    BY <1>1, <1>3 DEF TextsInv
  <2> QED
    BY <2>2, <2>3, <2>4 DEF TextsInv
<1>8. EntriesAccounted'
  BY <1>1, <1>3 DEF EntriesAccounted, StrayEntryIsExplained, OnlyTwinsAreLost
<1> QED
  BY <1>4, <1>5, <1>6, <1>7, <1>8

(* and one that is deleted changes neither payments nor expenses.          *)
LEMMA DeleteReminderInv ==
  ASSUME PayInv, NEW m \in Reminder, DeleteReminder(m)
  PROVE  PayInv'
<1> USE DEF PayInv
<1>1. /\ reminders' = [reminders EXCEPT ![m].live = FALSE]
      /\ edits < MaxEdits /\ edits' = edits + 1 /\ shifted' = shifted
      /\ payments' = payments /\ entries' = entries /\ preq' = preq
  BY DEF DeleteReminder, Edit
<1>2. \A n \in Reminder : /\ reminders'[n].title = reminders[n].title
                          /\ reminders'[n].tenor = reminders[n].tenor
  BY <1>1 DEF PayTypeOK
<1>3. PayTypeOK'
  <2>1. reminders' \in [Reminder -> [title : Title, tenor : Tenor, live : BOOLEAN]]
    <3>1. reminders \in [Reminder -> [title : Title, tenor : Tenor, live : BOOLEAN]]
      BY DEF PayTypeOK
    <3> QED
      BY <1>1, <3>1
  <2> QED
    BY <1>1, <2>1, PaymentConstants DEF PayTypeOK
<1>4. PayRequestsInv' /\ PayOrderInv' /\ EntriesInv' /\ EntriesAccounted'
  BY <1>1 DEF PayRequestsInv, Owns, PayOrderInv, Begun, EntriesInv, EntriesAccounted,
              StrayEntryIsExplained, OnlyTwinsAreLost
<1>5. TextsInv'
  <2>1. \A q \in Payment : payments[q].of \in Reminder
    BY DEF PayTypeOK
  <2>2. \A q \in Payment : DescribeOld(q)' = DescribeOld(q)
    BY <1>1, <1>2, <2>1 DEF DescribeOld, PaymentsIn
  <2>3. ASSUME NEW s \in PayRequest, preq[s].step = "logged"
        PROVE  NextText(payments[preq[s].payment].of)' = NextText(payments[preq[s].payment].of)
    <3>1. preq[s].payment \in Payment
      BY <2>3 DEF PayRequestsInv
    <3> QED
      BY <1>1, <1>2, <2>1, <3>1 DEF NextText, PaymentsIn
  <2> QED
    BY <1>1, <2>2, <2>3 DEF TextsInv
<1> QED
  BY <1>3, <1>4, <1>5

-----------------------------------------------------------------------------
(* Every action keeps the invariant of the payments.                       *)
LEMMA PayStepInv == PayInv /\ [PayNext]_payVars => PayInv'
<1> SUFFICES ASSUME PayInv, [PayNext]_payVars PROVE PayInv'
  OBVIOUS
<1> HIDE DEF PayInv
<1>1. ASSUME UNCHANGED payVars PROVE PayInv'
  BY <1>1 DEF payVars, PayInv, PayTypeOK, PayRequestsInv, PayOrderInv, EntriesInv, TextsInv,
              EntriesAccounted, StrayEntryIsExplained, OnlyTwinsAreLost, Owns, Begun,
              DescribeOld, NextText, PaymentsIn
<1> QED
  BY <1>1, BeginPaymentInv, BeginDeletionInv, LogEntryInv, CommitPaymentInv, CommitDeletionInv,
     PaymentRollbackInv, StoreProofInv, UpdatePaymentInv, BeginUpdateInv, EditEntryInv,
     RemoveEntryInv, UpdateReminderInv, DeleteReminderInv DEF PayNext

(* The ledger keeps an expense whose payment is gone only for the causes   *)
(* the code has, and a deletion takes, besides its own expense, only those *)
(* that nobody could tell from it: the number counted when the payment is  *)
(* deleted is the one counted when it was written.                         *)
THEOREM EntriesAreAccounted == PaySpec => []EntriesAccounted
<1>1. PayInv => EntriesAccounted
  BY DEF PayInv
<1> QED
  BY <1>1, PayInitInv, PayStepInv, PTL DEF PaySpec

-----------------------------------------------------------------------------
(***************************************************************************)
(* Categories: names, and the categories of a budget.                      *)
(***************************************************************************)
(***************************************************************************)
(* Induction over a range of numbers, by its least counterexample.         *)
(***************************************************************************)
(* Some numbers up to n have a least one,                                  *)
LEMMA LeastOfRange ==
  ASSUME NEW n \in Nat, NEW T, T \subseteq 0 .. n, T # {}
  PROVE  \E m \in T : \A k \in T : m <= k
<1> DEFINE below(k) == {i \in Nat : i < k}
           downs == {below(k) : k \in T}
           all == 0 .. n
<1>1. IsFiniteSet(all)
  BY FS_Interval
<1>2. IsWellFoundedOn(StrictSubsetOrdering(all), FiniteSubsetsOf(all))
  BY <1>1, FS_StrictSubsetOrderingWellFounded
<1>3. downs \subseteq FiniteSubsetsOf(all)
  <2>1. \A k \in T : below(k) \in SUBSET all
    OBVIOUS
  <2>2. \A k \in T : IsFiniteSet(below(k))
    BY <1>1, <2>1, FS_Subset
  <2> QED
    BY <2>1, <2>2 DEF FiniteSubsetsOf
<1>4. PICK d \in downs : \A e \in downs : <<e, d>> \notin StrictSubsetOrdering(all)
  <2>1. downs # {}
    OBVIOUS
  <2> HIDE DEF downs
  <2> QED
    BY <1>2, <1>3, <2>1, WFMin
<1>5. PICK m \in T : d = below(m)
  OBVIOUS
<1>6. \A k \in T : ~(k < m)
  <2> SUFFICES ASSUME NEW k \in T, k < m PROVE FALSE
    OBVIOUS
  <2>1. below(k) \in SUBSET all /\ below(m) \in SUBSET all /\ below(k) \subseteq below(m)
    OBVIOUS
  <2>2. k \in below(m) /\ k \notin below(k)
    OBVIOUS
  <2>3. <<below(k), below(m)>> \in StrictSubsetOrdering(all)
    BY <2>1, <2>2 DEF StrictSubsetOrdering
  <2> QED
    BY <1>4, <1>5, <2>3
<1> QED
  BY <1>6

(* so what holds of 0 and passes from each number to the next holds of     *)
(* all.                                                                    *)
LEMMA RangeInduction ==
  ASSUME NEW n \in Nat, NEW G, 0 \in G, \A k \in 0 .. n : k \in G /\ k < n => k + 1 \in G
  PROVE  0 .. n \subseteq G
<1> SUFFICES ASSUME (0 .. n) \ G # {} PROVE FALSE
  OBVIOUS
<1>1. PICK m \in (0 .. n) \ G : \A k \in (0 .. n) \ G : m <= k
  <2> DEFINE T == (0 .. n) \ G
  <2>1. T \subseteq 0 .. n /\ T # {}
    OBVIOUS
  <2> HIDE DEF T
  <2>2. \E m \in T : \A k \in T : m <= k
    BY <2>1, LeastOfRange
  <2> QED
    BY <2>2 DEF T
<1>2. m # 0 /\ m - 1 \in 0 .. n /\ ~(m <= m - 1)
  OBVIOUS
<1>3. m - 1 \in G
  BY <1>1, <1>2
<1> QED
  BY <1>2, <1>3

(* A function over a range is defined by its first value and its steps.    *)
LEMMA StepsDefine ==
  ASSUME NEW n \in Nat, NEW D, NEW a \in D, NEW F \in [D -> D]
  PROVE  \E g \in [0 .. n -> D] : g = [i \in 0 .. n |-> IF i = 0 THEN a ELSE F[g[i - 1]]]
<1> DEFINE G == {k \in 0 .. n : \E g \in [0 .. k -> D] :
                   g = [i \in 0 .. k |-> IF i = 0 THEN a ELSE F[g[i - 1]]]}
<1>1. 0 \in G
  <2> DEFINE h == [i \in 0 .. 0 |-> a]
  <2>1. h \in [0 .. 0 -> D] /\ h = [i \in 0 .. 0 |-> IF i = 0 THEN a ELSE F[h[i - 1]]]
    OBVIOUS
  <2>2. 0 \in 0 .. n
    OBVIOUS
  <2> HIDE DEF h
  <2> QED
    BY <2>1, <2>2
<1>2. ASSUME NEW k \in 0 .. n, k \in G, k < n PROVE k + 1 \in G
  <2>1. PICK g \in [0 .. k -> D] : g = [i \in 0 .. k |-> IF i = 0 THEN a ELSE F[g[i - 1]]]
    BY <1>2
  <2> DEFINE h == [i \in 0 .. k + 1 |-> IF i <= k THEN g[i] ELSE F[g[k]]]
  <2>2. h \in [0 .. k + 1 -> D]
    OBVIOUS
  <2>3. ASSUME NEW i \in 0 .. k + 1 PROVE h[i] = IF i = 0 THEN a ELSE F[h[i - 1]]
    <3>1. CASE i = 0
      <4>1. g[0] = a
        BY <2>1
      <4> QED
        BY <3>1, <4>1
    <3>2. CASE i # 0 /\ i <= k
      <4>1. i - 1 \in 0 .. k /\ i \in 0 .. k
        BY <3>2
      <4>2. g[i] = F[g[i - 1]]
        BY <2>1, <3>2, <4>1
      <4> QED
        BY <3>2, <4>1, <4>2
    <3>3. CASE i = k + 1
      <4>1. i # 0 /\ ~(i <= k) /\ i - 1 = k /\ k <= k
        BY <3>3
      <4> QED
        BY <4>1
    <3> QED
      BY <3>1, <3>2, <3>3
  <2>4. h = [i \in 0 .. k + 1 |-> IF i = 0 THEN a ELSE F[h[i - 1]]]
    <3> HIDE DEF h
    <3> QED
      BY <2>2, <2>3
  <2> HIDE DEF h
  <2>5. k + 1 \in 0 .. n
    BY <1>2
  <2> QED
    BY <2>2, <2>4, <2>5
<1> HIDE DEF G
<1>3. 0 .. n \subseteq G
  BY <1>1, <1>2, RangeInduction
<1>4. n \in G
  BY <1>3
<1> QED
  BY <1>4 DEF G

-----------------------------------------------------------------------------
(* The two queries                                                         *)

Tree == SUBSET (Category \cup {NoCategory})

Downwards(above) == above \cup {c \in LiveCats : cats[c].parent \in above}

Upwards(below) == below \cup {cats[d].parent : d \in below \cap LiveCats}

(* cat_tree of the budget's sum, by its steps.                             *)
LEMMA BelowSteps ==
  ASSUME CategoryTypeOK, IsFiniteSet(Category), NEW ids
  PROVE  \E f : /\ f[0] = {c \in LiveCats : cats[c].parent \in ids}
                /\ \A n \in 1 .. Cardinality(Category) : f[n] = Downwards(f[n - 1])
                /\ Below(ids) = f[Cardinality(Category)]
<1> DEFINE N == Cardinality(Category)
           first == {c \in LiveCats : cats[c].parent \in ids}
           F == [x \in Tree |-> Downwards(x)]
           Level(g) == g = [n \in 0 .. N |->
                         IF n = 0 THEN first
                         ELSE LET above == g[n - 1]
                              IN  above \cup {c \in LiveCats : cats[c].parent \in above}]
           f == CHOOSE g : Level(g)
<1>1. N \in Nat
  BY FS_CardinalityType
<1>2. first \in Tree /\ F \in [Tree -> Tree]
  BY DEF Tree, Downwards, LiveCats
<1>3. PICK g \in [0 .. N -> Tree] : g = [i \in 0 .. N |-> IF i = 0 THEN first ELSE F[g[i - 1]]]
  <2> HIDE DEF N, first, F
  <2> QED
    BY <1>1, <1>2, StepsDefine
<1>4. \A n \in 1 .. N : g[n - 1] \in Tree
  <2> SUFFICES ASSUME NEW n \in 1 .. N PROVE g[n - 1] \in Tree
    OBVIOUS
  <2> HIDE DEF N, first, F
  <2>1. n - 1 \in 0 .. N
    BY <1>1
  <2> QED
    BY <1>3, <2>1
<1>5. Level(g)
  <2>1. \A n \in 0 .. N : n # 0 => F[g[n - 1]] = Downwards(g[n - 1])
    BY <1>1, <1>4
  <2> HIDE DEF N, first, F
  <2>2. \A n \in 0 .. N : g[n] = IF n = 0 THEN first ELSE Downwards(g[n - 1])
    BY <1>3, <2>1
  <2> QED
    BY <1>3, <2>2 DEF Downwards
<1>6. Level(f)
  <2> HIDE DEF Level
  <2> QED
    BY <1>5
<1>7. Below(ids) = f[N]
  BY DEF Below
<1>8. f[0] = first /\ \A n \in 1 .. N : f[n] = Downwards(f[n - 1])
  <2> HIDE DEF N, first, f
  <2> QED
    BY <1>1, <1>6 DEF Downwards
<1> HIDE DEF f
<1> QED
  BY <1>7, <1>8

(* cat_tree of FindActiveByCategory, by its steps.                         *)
LEMMA AboveSteps ==
  ASSUME CategoryTypeOK, IsFiniteSet(Category), NEW c \in Category
  PROVE  \E f : /\ f[0] = {cats[c].parent}
                /\ \A n \in 1 .. Cardinality(Category) : f[n] = Upwards(f[n - 1])
                /\ Above(c) = f[Cardinality(Category)]
<1> DEFINE N == Cardinality(Category)
           first == {cats[c].parent}
           F == [x \in Tree |-> Upwards(x)]
           Level(g) == g = [n \in 0 .. N |->
                         IF n = 0 THEN first
                         ELSE LET below == g[n - 1]
                              IN  below \cup {cats[d].parent : d \in below \cap LiveCats}]
           f == CHOOSE g : Level(g)
<1>1. N \in Nat
  BY FS_CardinalityType
<1>2. first \in Tree /\ F \in [Tree -> Tree]
  BY DEF Tree, Upwards, LiveCats, CategoryTypeOK
<1>3. PICK g \in [0 .. N -> Tree] : g = [i \in 0 .. N |-> IF i = 0 THEN first ELSE F[g[i - 1]]]
  <2> HIDE DEF N, first, F
  <2> QED
    BY <1>1, <1>2, StepsDefine
<1>4. \A n \in 1 .. N : g[n - 1] \in Tree
  <2> SUFFICES ASSUME NEW n \in 1 .. N PROVE g[n - 1] \in Tree
    OBVIOUS
  <2> HIDE DEF N, first, F
  <2>1. n - 1 \in 0 .. N
    BY <1>1
  <2> QED
    BY <1>3, <2>1
<1>5. Level(g)
  <2>1. \A n \in 0 .. N : n # 0 => F[g[n - 1]] = Upwards(g[n - 1])
    BY <1>1, <1>4
  <2> HIDE DEF N, first, F
  <2>2. \A n \in 0 .. N : g[n] = IF n = 0 THEN first ELSE Upwards(g[n - 1])
    BY <1>3, <2>1
  <2> QED
    BY <1>3, <2>2 DEF Upwards
<1>6. Level(f)
  <2> HIDE DEF Level
  <2> QED
    BY <1>5
<1>7. Above(c) = f[N]
  BY DEF Above
<1>8. f[0] = first /\ \A n \in 1 .. N : f[n] = Upwards(f[n - 1])
  <2> HIDE DEF N, first, f
  <2> QED
    BY <1>1, <1>6 DEF Upwards
<1> HIDE DEF f
<1> QED
  BY <1>7, <1>8

WalksUp(A, N) ==
  \A c \in Category : /\ A[c][0] = {cats[c].parent}
                      /\ \A n \in 1 .. N : A[c][n] = Upwards(A[c][n - 1])

(* A walk upwards begins with the parent and goes on as the parent's own.  *)
LEMMA AboveTheParent ==
  ASSUME CategoryTypeOK, NEW N \in Nat, NEW A, WalksUp(A, N)
  PROVE  \A n \in 0 .. N : n < N => \A c \in Category :
           /\ cats[c].parent \in A[c][n]
           /\ A[c][n + 1] = {cats[c].parent} \cup
                (IF cats[c].parent \in LiveCats THEN A[cats[c].parent][n] ELSE {})
<1> DEFINE Good(n) == n < N => \A c \in Category :
                        /\ cats[c].parent \in A[c][n]
                        /\ A[c][n + 1] = {cats[c].parent} \cup
                             (IF cats[c].parent \in LiveCats THEN A[cats[c].parent][n] ELSE {})
           G == {n \in 0 .. N : Good(n)}
<1>1. 0 \in G
  <2>1. SUFFICES ASSUME 0 < N, NEW c \in Category
                 PROVE  /\ cats[c].parent \in A[c][0]
                        /\ A[c][0 + 1] = {cats[c].parent} \cup
                             (IF cats[c].parent \in LiveCats THEN A[cats[c].parent][0] ELSE {})
    OBVIOUS
  <2>2. A[c][1] = Upwards(A[c][0]) /\ A[c][0] = {cats[c].parent}
    <3>1. 1 \in 1 .. N /\ 1 - 1 = 0
      BY <2>1
    <3> QED
      BY <3>1 DEF WalksUp
  <2>3. cats[c].parent \in LiveCats => A[cats[c].parent][0] = {cats[cats[c].parent].parent}
    BY DEF LiveCats, WalksUp
  <2> QED
    BY <2>2, <2>3 DEF Upwards
<1>2. ASSUME NEW n \in 0 .. N, n \in G, n < N PROVE n + 1 \in G
  <2>1. SUFFICES ASSUME n + 1 < N, NEW c \in Category
                 PROVE  /\ cats[c].parent \in A[c][n + 1]
                        /\ A[c][(n + 1) + 1] = {cats[c].parent} \cup
                             (IF cats[c].parent \in LiveCats
                              THEN A[cats[c].parent][n + 1] ELSE {})
    BY <1>2
  <2> DEFINE p == cats[c].parent
  <2>2. A[c][n + 1] = {p} \cup (IF p \in LiveCats THEN A[p][n] ELSE {})
    BY <1>2
  <2>3. A[c][(n + 1) + 1] = Upwards(A[c][n + 1])
    <3>1. (n + 1) + 1 \in 1 .. N /\ ((n + 1) + 1) - 1 = n + 1
      BY <2>1
    <3> QED
      BY <3>1 DEF WalksUp
  <2>4. CASE p \notin LiveCats
    BY <2>2, <2>3, <2>4 DEF Upwards
  <2>5. CASE p \in LiveCats
    <3>1. p \in Category
      BY <2>5 DEF LiveCats
    <3>2. cats[p].parent \in A[p][n]
      BY <1>2, <3>1
    <3>3. A[p][n + 1] = Upwards(A[p][n])
      <4>1. n + 1 \in 1 .. N /\ (n + 1) - 1 = n
        BY <1>2
      <4> QED
        BY <3>1, <4>1 DEF WalksUp
    <3> HIDE DEF p
    <3>4. A[c][(n + 1) + 1] = {p} \cup A[p][n + 1]
      BY <2>2, <2>3, <2>5, <3>2, <3>3 DEF Upwards
    <3> QED
      BY <2>2, <2>5, <3>4 DEF p
  <2> QED
    BY <2>4, <2>5
<1> HIDE DEF G
<1>3. 0 .. N \subseteq G
  BY <1>1, <1>2, RangeInduction
<1> QED
  BY <1>3 DEF G

WalksDown(B, ids, N) ==
  /\ B[0] = {c \in LiveCats : cats[c].parent \in ids}
  /\ \A n \in 1 .. N : B[n] = Downwards(B[n - 1])

(* What one query finds going down the other finds going up.               *)
LEMMA DownIsUp ==
  ASSUME CategoryTypeOK, NEW N \in Nat, NEW A, NEW B, NEW ids, WalksUp(A, N),
         WalksDown(B, ids, N)
  PROVE  \A c \in LiveCats : c \in B[N] <=> A[c][N] \cap ids # {}
<1> DEFINE Good(n) == /\ B[n] \subseteq LiveCats
                      /\ \A c \in LiveCats : c \in B[n] <=> A[c][n] \cap ids # {}
           G == {n \in 0 .. N : Good(n)}
<1>0. LiveCats \subseteq Category
  BY DEF LiveCats
<1>a. \A n \in 0 .. N : n < N => \A c \in Category :
        /\ cats[c].parent \in A[c][n]
        /\ A[c][n + 1] = {cats[c].parent} \cup
             (IF cats[c].parent \in LiveCats THEN A[cats[c].parent][n] ELSE {})
  BY AboveTheParent
<1>1. 0 \in G
  BY <1>0 DEF WalksUp, WalksDown
<1>2. ASSUME NEW n \in 0 .. N, n \in G, n < N PROVE n + 1 \in G
  <2>1. n + 1 \in 1 .. N /\ (n + 1) - 1 = n /\ n + 1 \in 0 .. N
    BY <1>2
  <2>2. B[n + 1] = Downwards(B[n])
    BY <2>1 DEF WalksDown
  <2>3. B[n + 1] \subseteq LiveCats
    BY <1>2, <2>2 DEF Downwards
  <2>4. ASSUME NEW c \in LiveCats PROVE c \in B[n + 1] <=> A[c][n + 1] \cap ids # {}
    <3> DEFINE p == cats[c].parent
    <3>1. c \in B[n + 1] <=> c \in B[n] \/ p \in B[n]
      BY <2>2 DEF Downwards
    <3>2. /\ p \in A[c][n]
          /\ A[c][n + 1] = {p} \cup (IF p \in LiveCats THEN A[p][n] ELSE {})
      BY <1>0, <1>a, <1>2
    <3>3. A[c][n] \subseteq A[c][n + 1]
      BY <1>0, <2>1 DEF Upwards, WalksUp
    <3>4. c \in B[n] <=> A[c][n] \cap ids # {}
      BY <1>2
    <3>5. p \in B[n] <=> p \in LiveCats /\ A[p][n] \cap ids # {}
      BY <1>2
    <3> HIDE DEF p
    <3> QED
      BY <3>1, <3>2, <3>3, <3>4, <3>5
  <2> QED
    BY <2>1, <2>3, <2>4
<1> HIDE DEF G
<1>3. 0 .. N \subseteq G
  BY <1>1, <1>2, RangeInduction
<1>4. N \in G
  BY <1>3
<1> QED
  BY <1>4 DEF G

(* Whatever the categories and budgets are.                                *)
LEMMA FoundIsCounted ==
  ASSUME CategoryTypeOK, IsFiniteSet(Category)
  PROVE  FoundAsCounted
<1> SUFFICES ASSUME NEW e \in Expense, NEW b \in Budget, NEW term \in Terms,
                    budgets[b].live
             PROVE  /\ b \in FoundFor(e, term) /\ InPeriod(term[b], e.day) =>
                         e \in CountedBy(b, term)
                    /\ e \in CountedBy(b, term) /\ b \notin FoundFor(e, term) =>
                         ~term[b].active \/ Ended(term[b]) \/ e.category = NoCategory
  BY DEF FoundAsCounted
<1> DEFINE c == e.category
           N == Cardinality(Category)
           ids == budgets[b].ids
<1>1. N \in Nat
  BY FS_CardinalityType
<1>2. PICK B : WalksDown(B, ids, N) /\ Below(ids) = B[N]
  BY BelowSteps DEF WalksDown
<1> DEFINE IsUp(f, d) == /\ f[0] = {cats[d].parent}
                         /\ \A n \in 1 .. N : f[n] = Upwards(f[n - 1])
                         /\ Above(d) = f[N]
           A == [d \in Category |-> CHOOSE f : IsUp(f, d)]
<1>3. ASSUME NEW d \in Category PROVE IsUp(A[d], d)
  <2>1. \E f : IsUp(f, d)
    BY AboveSteps
  <2>2. IsUp(CHOOSE f : IsUp(f, d), d)
    <3> HIDE DEF IsUp
    <3> QED
      BY <2>1
  <2>3. A[d] = CHOOSE f : IsUp(f, d)
    OBVIOUS
  <2> HIDE DEF A, IsUp
  <2> QED
    BY <2>2, <2>3
<1>4. CASE c \in LiveCats
  <2>a. c \in Below(ids) <=> Above(c) \cap ids # {}
    <3> HIDE DEF N, ids, A, c
    <3>1. WalksUp(A, N)
      BY <1>3 DEF WalksUp
    <3>2. \A d \in LiveCats : d \in B[N] <=> A[d][N] \cap ids # {}
      BY <1>1, <1>2, <3>1, DownIsUp
    <3> QED
      BY <1>2, <1>3, <1>4, <3>2 DEF LiveCats
  <2>b. c # NoCategory
    BY <1>4, CategoryConstants DEF LiveCats
  <2> QED
    BY <2>a, <2>b DEF CountedBy, FoundFor, FindActiveByCategory
<1>5. CASE c = NoCategory
  BY <1>5 DEF FoundFor
<1> QED
  BY <1>4, <1>5 DEF Expense

-----------------------------------------------------------------------------
(* Twins                                                                   *)

(* Two requests are about to insert one label, or one is about to insert   *)
(* what is there by now, only for labels that were doubled.                *)
TwinsInv ==
  /\ CategoryTypeOK
  /\ \A r \in MasterRequest : mreq[r].step # "insert" => mreq[r].labels = {}
  /\ \A r, q \in MasterRequest : r # q => mreq[r].labels \cap mreq[q].labels \subseteq doubled
  /\ \A r \in MasterRequest, c \in LiveCats :
       cats[c].label \in mreq[r].labels => cats[c].label \in doubled
  /\ TwinsAreExplained

(* The row that stands for none is a row.                                  *)
LEMMA NoRowIsTyped ==
  NoCategoryRow \in [live : BOOLEAN, label : Label, parent : Category \cup {NoCategory}]
<1>1. PICK n \in Name : TRUE
  BY CategoryConstants
<1>2. <<n, "expense">> \in Label
  BY DEF Label, CategoryType
<1>3. (CHOOSE l \in Label : TRUE) \in Label
  BY <1>2
<1> QED
  BY <1>3 DEF NoCategoryRow

(* At first there is no category and no budget.                            *)
LEMMA TwinsInitInv == CategoryInit => TwinsInv
<1> SUFFICES ASSUME CategoryInit PROVE TwinsInv
  OBVIOUS
<1>1. LiveCats = {}
  BY DEF CategoryInit, LiveCats, NoCategoryRow
<1>2. CategoryTypeOK
  <2>3. NoCategoryRow \in [live : BOOLEAN, label : Label, parent : Category \cup {NoCategory}]
    BY NoRowIsTyped
  <2> QED
    BY <2>3 DEF CategoryInit, CategoryTypeOK, MasterIdle, NoBudgetRow
<1> QED
  BY <1>1, <1>2 DEF CategoryInit, TwinsInv, MasterIdle, TwinsAreExplained

(* A form writes one row; what it doubles is explained.                    *)
LEMMA FormsKeepTwins ==
  ASSUME TwinsInv, NEW c \in Category, NEW l \in Label,
         \/ \E p \in Category \cup {NoCategory} : CreateCategory(c, l, p)
         \/ UpdateCategory(c, l)
  PROVE  TwinsInv'
<1> USE DEF TwinsInv
<1>1. /\ cats' = [cats EXCEPT ![c] = cats'[c]]
      /\ cats'[c] \in [live : BOOLEAN, label : Label, parent : Category \cup {NoCategory}]
      /\ cats'[c].live /\ cats'[c].label = l
      /\ doubled' = doubled \cup Twice(c, l) /\ UNCHANGED <<budgets, mreq>>
  <2>1. CASE \E p \in Category \cup {NoCategory} : CreateCategory(c, l, p)
    BY <2>1 DEF CreateCategory, CategoryTypeOK, LiveCats
  <2>2. CASE UpdateCategory(c, l)
    BY <2>2 DEF UpdateCategory, CategoryTypeOK, LiveCats
  <2> QED
    BY <2>1, <2>2
<1>2. CategoryTypeOK'
  <2>1. Twice(c, l) \subseteq Label
    BY DEF Twice
  <2> QED
    BY <1>1, <2>1 DEF CategoryTypeOK
<1>3. \A d \in LiveCats' : d # c => d \in LiveCats /\ cats'[d] = cats[d]
  BY <1>1 DEF LiveCats, CategoryTypeOK
<1>4. ASSUME l \notin doubled'
      PROVE  (\A r \in MasterRequest : l \notin mreq[r].labels)
             /\ \A d \in LiveCats : d # c => cats[d].label # l
  BY <1>1, <1>4 DEF Twice, Labelled, OnTheWayIn
<1>5. TwinsAreExplained'
  <2> SUFFICES ASSUME NEW d \in LiveCats', NEW e \in LiveCats', d # e,
                      cats'[d].label = cats'[e].label
               PROVE  cats'[d].label \in doubled'
    BY DEF TwinsAreExplained
  <2>1. CASE d # c /\ e # c
    BY <1>1, <1>3, <2>1 DEF TwinsAreExplained
  <2>2. CASE d = c \/ e = c
    BY <1>1, <1>3, <1>4, <2>2
  <2> QED
    BY <2>1, <2>2
<1>6. \A r \in MasterRequest, d \in LiveCats' :
        cats'[d].label \in mreq'[r].labels => cats'[d].label \in doubled'
  BY <1>1, <1>3, <1>4
<1> QED
  BY <1>1, <1>2, <1>5, <1>6

(* A deletion takes a category out, and makes no two of one name.          *)
LEMMA DeleteKeepsTwins ==
  ASSUME TwinsInv, NEW c \in Category, DeleteCategory(c)
  PROVE  TwinsInv'
<1> USE DEF TwinsInv
<1>1. \A d \in LiveCats' : d \in LiveCats /\ cats'[d].label = cats[d].label
  BY DEF DeleteCategory, LiveCats, NoCategoryRow, CategoryTypeOK
<1>2. CategoryTypeOK'
  <2>1. ASSUME NEW d \in Category
        PROVE  cats'[d] \in [live : BOOLEAN, label : Label, parent : Category \cup {NoCategory}]
    <3>1. CASE d = c
      <4>1. cats'[d] = NoCategoryRow
        BY <3>1 DEF DeleteCategory
      <4> QED
        BY <4>1, NoRowIsTyped
    <3>2. CASE d # c
      BY <3>2 DEF DeleteCategory, CategoryTypeOK
    <3> QED
      BY <3>1, <3>2
  <2>2. cats' = [d \in Category |-> cats'[d]]
    BY DEF DeleteCategory
  <2> QED
    BY <2>1, <2>2 DEF CategoryTypeOK, DeleteCategory
<1> QED
  BY <1>1, <1>2 DEF DeleteCategory, TwinsAreExplained

(* A request that finds nothing is about to insert labels.                 *)
LEMMA InsertsKeepsTwins ==
  ASSUME TwinsInv, NEW r \in MasterRequest, NEW for \in {"row", "budget"},
         NEW labels \in SUBSET Label, Inserts(r, for, labels), UNCHANGED <<cats, budgets>>,
         \A l \in labels : Labelled(l) = {}
  PROVE  TwinsInv'
<1> USE DEF TwinsInv
<1>1. CategoryTypeOK'
  BY DEF Inserts, CategoryTypeOK
<1>2. /\ \A q \in MasterRequest : q # r => mreq'[q] = mreq[q]
      /\ mreq'[r].labels = labels /\ mreq'[r].step = "insert"
      /\ doubled' = doubled \cup (labels \cap OnTheWayIn)
      /\ LiveCats' = LiveCats
  BY DEF Inserts, CategoryTypeOK, LiveCats
<1>3. \A q, p \in MasterRequest : q # p => mreq'[q].labels \cap mreq'[p].labels \subseteq doubled'
  <2> SUFFICES ASSUME NEW q \in MasterRequest, NEW p \in MasterRequest, q # p,
                      NEW l \in mreq'[q].labels \cap mreq'[p].labels
               PROVE  l \in doubled'
    OBVIOUS
  <2>1. CASE q # r /\ p # r
    BY <1>2, <2>1
  <2>2. CASE q = r \/ p = r
    BY <1>2, <2>2 DEF OnTheWayIn
  <2> QED
    BY <2>1, <2>2
<1>4. \A q \in MasterRequest, d \in LiveCats' :
        cats'[d].label \in mreq'[q].labels => cats'[d].label \in doubled'
  <2> SUFFICES ASSUME NEW q \in MasterRequest, NEW d \in LiveCats,
                      cats[d].label \in mreq'[q].labels
               PROVE  cats[d].label \in doubled'
    BY <1>2
  <2>1. CASE q # r
    BY <1>2, <2>1
  <2>2. CASE q = r
    BY <1>2, <2>2 DEF Labelled
  <2> QED
    BY <2>1, <2>2
<1> QED
  BY <1>1, <1>2, <1>3, <1>4 DEF TwinsAreExplained

(* Each label that is missing becomes a row of its own.                    *)
LEMMA InsertMissingKeepsTwins ==
  ASSUME TwinsInv, NEW r \in MasterRequest, InsertMissing(r)
  PROVE  TwinsInv'
<1> USE DEF TwinsInv
<1> DEFINE labels == mreq[r].labels
<1>1. PICK new \in [labels -> FreshCats] :
        /\ \A l, k \in labels : new[l] = new[k] => l = k
        /\ cats' = [c \in Category |->
              IF \E l \in labels : new[l] = c
              THEN [live |-> TRUE, label |-> CHOOSE l \in labels : new[l] = c,
                    parent |-> NoCategory]
              ELSE cats[c]]
        /\ mreq' = [mreq EXCEPT ![r] =
              IF mreq[r].for = "budget"
              THEN [@ EXCEPT !.step = "write", !.labels = {}, !.ids = {new[l] : l \in labels}]
              ELSE MasterIdle]
  BY DEF InsertMissing
<1>2. UNCHANGED <<budgets, doubled>> /\ mreq[r].step = "insert" /\ labels \subseteq Label
  BY DEF InsertMissing, CategoryTypeOK
<1>3. FreshCats \subseteq Category
  BY DEF FreshCats
<1>4. ASSUME NEW l \in labels
      PROVE  cats'[new[l]] = [live |-> TRUE, label |-> l, parent |-> NoCategory]
  <2>1. new[l] \in Category
    BY <1>3
  <2>2. (CHOOSE k \in labels : new[k] = new[l]) = l
    BY <1>1
  <2> HIDE DEF labels
  <2> QED
    BY <1>1, <2>1, <2>2
<1>5. ASSUME NEW c \in Category, \A l \in labels : new[l] # c
      PROVE  cats'[c] = cats[c]
  BY <1>1, <1>5
<1>6. /\ \A q \in MasterRequest : q # r => mreq'[q] = mreq[q]
      /\ mreq'[r].labels = {} /\ mreq'[r].step \in {"write", "idle"}
      /\ mreq'[r] \in [step : {"idle", "insert", "write"}, for : {"row", "budget"},
                       labels : SUBSET Label, ids : SUBSET Category]
  <2>1. \A q \in MasterRequest : q # r => mreq'[q] = mreq[q]
    BY <1>1 DEF CategoryTypeOK
  <2>2. {new[l] : l \in labels} \in SUBSET Category
    BY <1>3
  <2>3. CASE mreq[r].for = "budget"
    <3> DEFINE ids == {new[l] : l \in labels}
    <3>1. mreq'[r] = [step |-> "write", for |-> "budget", labels |-> {}, ids |-> ids]
      BY <1>1, <2>3 DEF CategoryTypeOK
    <3> HIDE DEF ids, labels
    <3> QED
      BY <2>1, <2>2, <3>1 DEF ids
  <2>4. CASE mreq[r].for # "budget"
    BY <1>1, <2>4 DEF CategoryTypeOK, MasterIdle
  <2> QED
    BY <2>1, <2>3, <2>4
<1>7. \A c \in LiveCats' : \/ \E l \in labels : c = new[l] /\ cats'[c].label = l
                           \/ c \in LiveCats /\ cats'[c] = cats[c]
  <2>1. ASSUME NEW c \in LiveCats', \A l \in labels : new[l] # c
        PROVE  c \in LiveCats /\ cats'[c] = cats[c]
    <3>1. c \in Category
      BY DEF LiveCats
    <3> QED
      BY <1>5, <2>1, <3>1 DEF LiveCats
  <2>2. ASSUME NEW c \in LiveCats', NEW l \in labels, new[l] = c
        PROVE  cats'[c].label = l
    <3>1. cats'[new[l]] = [live |-> TRUE, label |-> l, parent |-> NoCategory]
      BY <1>4
    <3> QED
      BY <2>2, <3>1
  <2> HIDE DEF labels
  <2> QED
    BY <2>1, <2>2
<1> HIDE DEF labels
<1>8. CategoryTypeOK'
  <2>1. ASSUME NEW c \in Category
        PROVE  cats'[c] \in [live : BOOLEAN, label : Label, parent : Category \cup {NoCategory}]
    <3>1. CASE \E l \in labels : new[l] = c
      <4>1. PICK l \in labels : new[l] = c
        BY <3>1
      <4>2. cats'[c] = [live |-> TRUE, label |-> l, parent |-> NoCategory] /\ l \in Label
        BY <1>2, <1>4, <4>1
      <4> QED
        BY <4>2
    <3>2. CASE \A l \in labels : new[l] # c
      BY <1>5, <3>2 DEF CategoryTypeOK
    <3> QED
      BY <3>1, <3>2
  <2>2. cats' = [c \in Category |-> cats'[c]]
    BY <1>1
  <2>3. mreq' = [q \in MasterRequest |-> mreq'[q]]
    BY <1>1 DEF CategoryTypeOK
  <2>4. \A q \in MasterRequest :
          mreq'[q] \in [step : {"idle", "insert", "write"}, for : {"row", "budget"},
                        labels : SUBSET Label, ids : SUBSET Category]
    BY <1>6 DEF CategoryTypeOK
  <2> QED
    BY <1>2, <2>1, <2>2, <2>3, <2>4 DEF CategoryTypeOK
<1>9. TwinsAreExplained'
  <2> SUFFICES ASSUME NEW d \in LiveCats', NEW e \in LiveCats', d # e,
                      cats'[d].label = cats'[e].label
               PROVE  cats'[d].label \in doubled
    BY <1>2 DEF TwinsAreExplained
  <2>1. CASE d \in LiveCats /\ cats'[d] = cats[d] /\ e \in LiveCats /\ cats'[e] = cats[e]
    BY <2>1 DEF TwinsAreExplained
  <2>2. CASE \E l \in labels : d = new[l] /\ cats'[d].label = l
    BY <1>7, <2>2 DEF labels
  <2>3. CASE \E l \in labels : e = new[l] /\ cats'[e].label = l
    BY <1>7, <2>3 DEF labels
  <2> QED
    BY <1>7, <2>1, <2>2, <2>3
<1>10. \A q \in MasterRequest, d \in LiveCats' :
         cats'[d].label \in mreq'[q].labels => cats'[d].label \in doubled'
  <2> SUFFICES ASSUME NEW q \in MasterRequest, NEW d \in LiveCats', q # r,
                      cats'[d].label \in mreq[q].labels
               PROVE  cats'[d].label \in doubled
    BY <1>2, <1>6
  <2> QED
    BY <1>7 DEF labels
<1> QED
  BY <1>2, <1>6, <1>8, <1>9, <1>10

(* The other steps of a request, and the end of a budget.                  *)
LEMMA RequestsKeepTwins ==
  ASSUME TwinsInv, UNCHANGED <<cats, doubled>>, CategoryTypeOK', NEW r,
         \A q \in MasterRequest :
           \/ mreq'[q] = mreq[q]
           \/ mreq'[q].labels = {}
  PROVE  TwinsInv'
BY DEF TwinsInv, LiveCats, TwinsAreExplained

(* Every action keeps the invariant of the categories.                     *)
LEMMA TwinsInvStep == TwinsInv /\ [CategoryNext]_categoryVars => TwinsInv'
<1> SUFFICES ASSUME TwinsInv, [CategoryNext]_categoryVars PROVE TwinsInv'
  OBVIOUS
<1>0. CategoryTypeOK
  BY DEF TwinsInv
<1>1. ASSUME NEW c \in Category, NEW l \in Label, NEW p \in Category \cup {NoCategory},
             CreateCategory(c, l, p)
      PROVE  TwinsInv'
  BY <1>1, FormsKeepTwins
<1>2. ASSUME NEW c \in Category, NEW l \in Label, UpdateCategory(c, l) PROVE TwinsInv'
  BY <1>2, FormsKeepTwins
<1>3. ASSUME NEW c \in Category, DeleteCategory(c) PROVE TwinsInv'
  BY <1>3, DeleteKeepsTwins
<1>4. ASSUME NEW r \in MasterRequest, NEW for \in {"row", "budget"}, NEW l \in Label,
             FindCategory(r, for, l)
      PROVE  TwinsInv'
  <2>1. CASE Labelled(l) = {} /\ Inserts(r, for, {l}) /\ UNCHANGED <<cats, budgets>>
    <3>1. {l} \in SUBSET Label /\ \A k \in {l} : Labelled(k) = {}
      BY <2>1
    <3> QED
      BY <2>1, <3>1, InsertsKeepsTwins
  <2>2. CASE \E c \in Labelled(l) :
               /\ mreq' = [mreq EXCEPT ![r] = [step |-> "write", for |-> for, labels |-> {},
                                               ids |-> {c}]]
               /\ UNCHANGED <<doubled, cats, budgets>>
    <3>1. CategoryTypeOK'
      BY <1>0, <2>2 DEF CategoryTypeOK, Labelled, LiveCats
    <3> QED
      BY <1>0, <2>2, <3>1, RequestsKeepTwins DEF CategoryTypeOK
  <2> QED
    BY <1>4, <2>1, <2>2 DEF FindCategory
<1>5. ASSUME NEW r \in MasterRequest, NEW ids \in SUBSET Category, CheckIds(r, ids)
      PROVE  TwinsInv'
  <2>1. CategoryTypeOK'
    BY <1>0, <1>5 DEF CategoryTypeOK, CheckIds
  <2> QED
    BY <1>0, <1>5, <2>1, RequestsKeepTwins DEF CategoryTypeOK, CheckIds
<1>6. ASSUME NEW r \in MasterRequest, NEW b \in Budget, WriteBudget(r, b)
      PROVE  TwinsInv'
  <2>1. CategoryTypeOK'
    BY <1>0, <1>6 DEF CategoryTypeOK, WriteBudget, MasterDone, MasterIdle
  <2> QED
    BY <1>0, <1>6, <2>1, RequestsKeepTwins DEF CategoryTypeOK, WriteBudget, MasterDone, MasterIdle
<1>7. ASSUME NEW r \in MasterRequest, CountDefaults(r) PROVE TwinsInv'
  <2>1. Defaults \in SUBSET Label /\ \A l \in Defaults : Labelled(l) = {}
    BY <1>7, CategoryConstants DEF CountDefaults, Labelled
  <2> QED
    BY <1>7, <2>1, InsertsKeepsTwins DEF CountDefaults
<1>8. ASSUME NEW r \in MasterRequest, InsertMissing(r) PROVE TwinsInv'
  BY <1>8, InsertMissingKeepsTwins
<1>9. ASSUME NEW r \in MasterRequest, MasterFails(r) PROVE TwinsInv'
  <2>1. CategoryTypeOK'
    BY <1>0, <1>9 DEF CategoryTypeOK, MasterFails, MasterDone, MasterIdle
  <2> QED
    BY <1>0, <1>9, <2>1, RequestsKeepTwins DEF CategoryTypeOK, MasterFails, MasterDone, MasterIdle
<1>10. ASSUME NEW b \in Budget, DeleteBudget(b) PROVE TwinsInv'
  <2>1. CategoryTypeOK'
    BY <1>0, <1>10 DEF CategoryTypeOK, DeleteBudget, NoBudgetRow
  <2> QED
    BY <1>10, <2>1, RequestsKeepTwins DEF DeleteBudget
<1>11. CASE UNCHANGED categoryVars
  <2>1. CategoryTypeOK'
    BY <1>0, <1>11 DEF CategoryTypeOK, categoryVars
  <2> QED
    BY <1>11, <2>1, RequestsKeepTwins DEF categoryVars
<1> QED
  BY <1>1, <1>2, <1>3, <1>4, <1>5, <1>6, <1>7, <1>8, <1>9, <1>10, <1>11 DEF CategoryNext

(* For any names, categories and requests: two categories have one name    *)
(* and type only if a form gave it a second time or two requests were      *)
(* about to insert it at once (look-up before insert).                     *)
THEOREM CategoriesAreExplained == CategorySpec => []TwinsAreExplained
<1>1. TwinsInv => TwinsAreExplained
  BY DEF TwinsInv
<1> QED
  BY <1>1, TwinsInitInv, TwinsInvStep, PTL DEF CategorySpec

(* For any tree of categories, however deep and whatever was deleted or    *)
(* left dangling, and for any status and period: a budget found for a new  *)
(* expense of its period has it in its sum, and one that has it in its sum *)
(* and is not found is not active, has ended, or the expense has no        *)
(* category (the two recursive queries and their conditions).              *)
THEOREM BudgetsAreFoundAsCounted == CategorySpec => []FoundAsCounted
<1>1. TwinsInv => FoundAsCounted
  BY FoundIsCounted, CategoryConstants DEF TwinsInv
<1> QED
  BY <1>1, TwinsInitInv, TwinsInvStep, PTL DEF CategorySpec

-----------------------------------------------------------------------------
(***************************************************************************)
(* Pages and figures.                                                      *)
(***************************************************************************)
(* Positions                                                               *)

(* The rows that are shown can be counted.                                 *)
LEMMA ShownIsFinite == IsFiniteSet(ViewRow) /\ IsFiniteSet(Shown) /\ Cardinality(Shown) \in Nat
<1>1. IsFiniteSet(ViewRow)
  BY ViewConstants, FS_Interval DEF ViewRow
<1>2. IsFiniteSet(Shown)
  BY <1>1, FS_Subset DEF Shown
<1> QED
  BY <1>1, <1>2, FS_CardinalityType

(* Each list is in a total order.                                          *)
LEMMA BeforeIsAnOrder ==
  ASSUME ViewsTypeOK
  PROVE  /\ \A j, k, l \in RowKey : Before(j, k) /\ Before(k, l) => Before(j, l)
         /\ \A j \in RowKey : ~Before(j, j)
         /\ \A j, k \in RowKey : j.born # k.born => Before(j, k) \/ Before(k, j)
<1>1. Day \subseteq Nat /\ ViewRow \subseteq Nat
  BY DEF Day, ThisMonth, ViewRow
<1>2. \A j \in RowKey : j.born \in Nat /\ j.day \in Nat
  BY <1>1 DEF RowKey
<1>3. CASE view \in {"transactions", "chat"}
  BY <1>2, <1>3 DEF Before, TransactionsBefore
<1>4. CASE view = "reminders"
  BY <1>2, <1>4 DEF Before, RemindersBefore
<1>5. CASE view \notin {"transactions", "chat", "reminders"}
  <2>1. \A j, k \in RowKey : Before(j, k) <=> j.born > k.born
    BY <1>5 DEF Before, SavingsBefore, NotificationsBefore, AuditBefore, ReportsBefore
  <2> QED
    BY <1>2, <2>1
<1> QED
  BY <1>3, <1>4, <1>5

(* The key of a row is its day and when it was made.                       *)
LEMMA KeysAreKeys ==
  ASSUME ViewsTypeOK, NEW r \in ViewRow
  PROVE  Key(r) \in RowKey /\ Key(r).born = r /\ Key(r).day = viewRows[r].day
BY DEF ViewsTypeOK, Key, RowKey

Ahead(r) == {x \in Shown : Before(Key(x), Key(r))}

(* The position of a row is one more than the rows before it,              *)
LEMMA AheadIsFinite ==
  ASSUME ViewsTypeOK, NEW r
  PROVE  /\ IsFiniteSet(Ahead(r)) /\ Cardinality(Ahead(r)) \in Nat
         /\ Position(r) = Cardinality(Ahead(r)) + 1
<1>1. IsFiniteSet(Ahead(r))
  BY ShownIsFinite, FS_Subset DEF Ahead
<1> QED
  BY <1>1, FS_CardinalityType DEF Position, Ahead

(* is among those of the rows that are shown,                              *)
LEMMA PositionsAreBounded ==
  ASSUME ViewsTypeOK, NEW r \in Shown
  PROVE  Position(r) \in 1 .. Cardinality(Shown)
<1>1. r \in ViewRow
  BY DEF Shown
<1>2. r \notin Ahead(r)
  BY <1>1, KeysAreKeys, BeforeIsAnOrder DEF Ahead
<1>3. Ahead(r) \subseteq Shown /\ Ahead(r) # Shown
  BY <1>2 DEF Ahead
<1>4. Cardinality(Ahead(r)) < Cardinality(Shown)
  BY <1>3, ShownIsFinite, SmallerSet
<1> QED
  BY <1>4, AheadIsFinite, ShownIsFinite

(* goes with the order,                                                    *)
LEMMA PositionsFollowTheOrder ==
  ASSUME ViewsTypeOK, NEW r \in Shown, NEW s \in ViewRow, Before(Key(r), Key(s))
  PROVE  Position(r) < Position(s)
<1>1. r \in ViewRow
  BY DEF Shown
<1>2. Ahead(r) \subseteq Ahead(s)
  BY <1>1, KeysAreKeys, BeforeIsAnOrder DEF Ahead, Shown
<1>3. r \in Ahead(s) /\ r \notin Ahead(r)
  BY <1>1, KeysAreKeys, BeforeIsAnOrder DEF Ahead
<1>4. Cardinality(Ahead(r)) < Cardinality(Ahead(s))
  BY <1>2, <1>3, AheadIsFinite, SmallerSet
<1> QED
  BY <1>4, AheadIsFinite

(* and is no other row's.                                                  *)
LEMMA PositionsDiffer ==
  ASSUME ViewsTypeOK, NEW r \in Shown, NEW s \in Shown, r # s
  PROVE  Position(r) # Position(s)
<1>1. r \in ViewRow /\ s \in ViewRow
  BY DEF Shown
<1>2. Before(Key(r), Key(s)) \/ Before(Key(s), Key(r))
  BY <1>1, KeysAreKeys, BeforeIsAnOrder
<1>3. Position(r) \in Nat /\ Position(s) \in Nat
  BY PositionsAreBounded, ShownIsFinite
<1>4. Position(r) < Position(s) \/ Position(s) < Position(r)
  BY <1>1, <1>2, PositionsFollowTheOrder
<1> QED
  BY <1>3, <1>4

(* A function with one value for each argument is an injection.            *)
LEMMA IsInjection ==
  ASSUME NEW S, NEW T, NEW f \in [S -> T], \A a, b \in S : f[a] = f[b] => a = b
  PROVE  f \in Injection(S, T)
BY DEF Injection, IsInjective

(* Every position up to the last is that of a row.                         *)
LEMMA PositionsAreTaken ==
  ASSUME ViewsTypeOK, NEW i \in 1 .. Cardinality(Shown)
  PROVE  \E r \in Shown : Position(r) = i
<1> DEFINE N == Cardinality(Shown)
           f == [r \in Shown |-> Position(r)]
<1>1. f \in Injection(Shown, 1 .. N)
  <2>1. f \in [Shown -> 1 .. N]
    BY PositionsAreBounded
  <2>2. \A r, s \in Shown : f[r] = f[s] => r = s
    BY PositionsDiffer
  <2> HIDE DEF f, N
  <2> QED
    BY <2>1, <2>2, IsInjection
<1>2. IsFiniteSet(1 .. N) /\ Cardinality(1 .. N) = N
  <2>1. N \in Nat
    BY ShownIsFinite
  <2> HIDE DEF N
  <2> QED
    BY <2>1, FS_Interval
<1>3. f \in Surjection(Shown, 1 .. N)
  BY <1>1, <1>2, FS_Injection
<1> QED
  BY <1>3 DEF Surjection

-----------------------------------------------------------------------------
(* Pages                                                                   *)

(* A page ends where the next one begins.                                  *)
LEMMA PageEnds ==
  ASSUME NEW p \in Nat \ {0}
  PROVE  /\ (p - 1) * PageSize \in Nat /\ p * PageSize \in Nat
         /\ p * PageSize = (p - 1) * PageSize + PageSize
BY ViewConstants

(* The rows of a page, in order: each once, and no others.                 *)
LEMMA PagesInOrder ==
  ASSUME ViewsTypeOK, NEW p \in Nat \ {0}
  PROVE  /\ PageInOrder(p) \in Seq(ViewRow)
         /\ Len(PageInOrder(p)) = Cardinality(PageOf(p))
         /\ \A i \in 1 .. Len(PageInOrder(p)) : PageInOrder(p)[i] \in PageOf(p)
         /\ \A r \in PageOf(p) : \E i \in 1 .. Len(PageInOrder(p)) : PageInOrder(p)[i] = r
         /\ \A i, j \in 1 .. Len(PageInOrder(p)) :
              PageInOrder(p)[i] = PageInOrder(p)[j] => i = j
<1> DEFINE lo == (p - 1) * PageSize
           hi == p * PageSize
           S == PageOf(p)
           n == Cardinality(S)
           N == Cardinality(Shown)
           Ordered(s) == s \in [1 .. n -> S] /\ \A i, j \in DOMAIN s : i < j => Position(s[i]) < Position(s[j])
           page == CHOOSE s \in [1 .. n -> S] :
                     \A i, j \in DOMAIN s : i < j => Position(s[i]) < Position(s[j])
<1>1. lo \in Nat /\ hi \in Nat /\ lo < hi
  <2>1. lo \in Nat /\ hi \in Nat /\ hi = lo + PageSize
    BY PageEnds
  <2> HIDE DEF lo, hi
  <2> QED
    BY <2>1, ViewConstants
<1>2. S \subseteq Shown /\ S = {r \in Shown : lo < Position(r) /\ Position(r) <= hi}
  <2>1. \A r \in Shown : Position(r) \in Nat
    BY PositionsAreBounded, ShownIsFinite
  <2>2. S = {r \in Shown : Position(r) > lo /\ Position(r) <= hi}
    BY DEF PageOf
  <2> HIDE DEF S, lo, hi
  <2> QED
    BY <1>1, <2>1, <2>2
<1> HIDE DEF lo, hi
<1>3. IsFiniteSet(S) /\ n \in Nat
  BY <1>2, ShownIsFinite, FS_Subset, FS_CardinalityType
<1>4. S \subseteq ViewRow
  BY <1>2 DEF Shown
<1>5. \A i \in 1 .. n : \E r \in S : Position(r) = lo + i
  <2> DEFINE last == IF N < hi THEN N ELSE hi
             f == [r \in S |-> Position(r)]
  <2>0. N \in Nat
    BY ShownIsFinite
  <2>1. \A r \in S : Position(r) \in lo + 1 .. last
    <3> SUFFICES ASSUME NEW r \in S PROVE Position(r) \in lo + 1 .. last
      OBVIOUS
    <3>1. Position(r) \in 1 .. N /\ lo < Position(r) /\ Position(r) <= hi
      BY <1>2, PositionsAreBounded
    <3> HIDE DEF N, S
    <3> QED
      BY <1>1, <2>0, <3>1
  <2>2. \A i \in lo + 1 .. last : \E r \in S : Position(r) = i
    <3> SUFFICES ASSUME NEW i \in lo + 1 .. last PROVE \E r \in S : Position(r) = i
      OBVIOUS
    <3>1. i \in 1 .. N /\ lo < i /\ i <= hi
      <4> HIDE DEF N
      <4> QED
        BY <1>1, <2>0
    <3>2. PICK r \in Shown : Position(r) = i
      BY <3>1, PositionsAreTaken
    <3> HIDE DEF S
    <3> QED
      BY <1>2, <3>1, <3>2
  <2>3. f \in Injection(S, lo + 1 .. last)
    <3>1. f \in [S -> lo + 1 .. last]
      BY <2>1
    <3>2. \A r, s \in S : f[r] = f[s] => r = s
      BY <1>2, PositionsDiffer
    <3> HIDE DEF f, S, last
    <3> QED
      BY <3>1, <3>2, IsInjection
  <2>4. f \in Surjection(S, lo + 1 .. last)
    BY <2>1, <2>2 DEF Surjection
  <2>5. last \in Nat
    BY <1>1, <2>0
  <2> HIDE DEF last, f
  <2>6. /\ IsFiniteSet(lo + 1 .. last)
        /\ Cardinality(lo + 1 .. last) = IF lo + 1 > last THEN 0 ELSE last - lo
    <3>1. lo + 1 \in Int /\ last \in Int /\ last - (lo + 1) + 1 = last - lo
      BY <1>1, <2>5
    <3> QED
      BY <3>1, FS_Interval
  <2>7. n = Cardinality(lo + 1 .. last)
    BY <2>3, <2>4, <2>6, FS_Injection
  <2> SUFFICES ASSUME NEW i \in 1 .. n PROVE \E r \in S : Position(r) = lo + i
    OBVIOUS
  <2>8. lo + i \in lo + 1 .. last
    <3> HIDE DEF n
    <3> QED
      BY <1>1, <1>3, <2>5, <2>6, <2>7
  <2> QED
    BY <2>2, <2>8
<1> DEFINE s0 == [i \in 1 .. n |-> CHOOSE r \in S : Position(r) = lo + i]
<1>6. Ordered(s0)
  <2>1. \A i \in 1 .. n : s0[i] \in S /\ Position(s0[i]) = lo + i
    <3> HIDE DEF S, n
    <3> QED
      BY <1>5
  <2>2. s0 \in [1 .. n -> S] /\ DOMAIN s0 = 1 .. n
    BY <2>1
  <2> HIDE DEF s0, n, S
  <2> QED
    BY <1>1, <1>3, <2>1, <2>2
<1>7. PageInOrder(p) = page
  BY DEF PageInOrder
<1>8. Ordered(page)
  <2> HIDE DEF n, S, s0
  <2> QED
    BY <1>6
<1> HIDE DEF page, s0
<1>9. page \in [1 .. n -> S] /\ DOMAIN page = 1 .. n
  BY <1>8
<1>10. \A i, j \in 1 .. n : page[i] = page[j] => i = j
  <2> SUFFICES ASSUME NEW i \in 1 .. n, NEW j \in 1 .. n, page[i] = page[j], i < j \/ j < i
               PROVE  FALSE
    <3> HIDE DEF n, S
    <3> QED
      BY <1>3
  <2>1. Position(page[i]) \in Nat
    BY <1>2, <1>9, PositionsAreBounded, ShownIsFinite
  <2> HIDE DEF n, S
  <2> QED
    BY <1>8, <1>9, <2>1
<1>11. page \in Surjection(1 .. n, S)
  <2>1. page \in Injection(1 .. n, S)
    <3> HIDE DEF n, S
    <3> QED
      BY <1>9, <1>10, IsInjection
  <2>2. Cardinality(1 .. n) = n
    <3> HIDE DEF n
    <3> QED
      BY <1>3, FS_Interval
  <2> HIDE DEF S
  <2> QED
    BY <1>3, <2>1, <2>2, FS_Injection
<1>12. page \in Seq(ViewRow) /\ Len(page) = n
  <2> HIDE DEF n, S
  <2> QED
    BY <1>3, <1>4, <1>9
<1> HIDE DEF n, S
<1> QED
  BY <1>7, <1>9, <1>10, <1>11, <1>12 DEF Surjection, n, S

-----------------------------------------------------------------------------
(* What a write does to the positions of the other rows                    *)

Kept(w) == {r \in w.steady : \A k \in w.went : k.born # r}

LeftBefore(w, r) == \E k \in w.went : Before(k, Key(r))

CameBefore(w, r) == \E k \in w.came : Before(k, Key(r))

(* One row changes; its new key came and its old one went.                 *)
RowChanges(r, came, went) ==
  /\ came \in SUBSET RowKey /\ went \in SUBSET RowKey
  /\ view' = view
  /\ viewRows' \in [ViewRow -> [state : {"unborn", "listed", "gone"}, day : Day,
                                group : Group]]
  /\ \A x \in ViewRow : x # r => viewRows'[x] = viewRows[x]
  /\ viewRows'[r].state = "listed" => Key(r)' \in came
  /\ viewRows[r].state = "listed" => Key(r) \in went

(* When one row changes, another moves only for what came or went before   *)
(* it,                                                                     *)
LEMMA OthersStay ==
  ASSUME ViewsTypeOK, NEW r \in ViewRow, NEW came, NEW went, RowChanges(r, came, went),
         NEW s \in ViewRow, s # r
  PROVE  /\ Key(s)' = Key(s)
         /\ s \in Shown' <=> s \in Shown
         /\ (\E k \in went : Before(k, Key(s))) \/ Position(s) <= Position(s)'
         /\ (\E k \in came : Before(k, Key(s))) \/ Position(s)' <= Position(s)
<1>1. \A x \in ViewRow : x # r => Key(x)' = Key(x) /\ (x \in Shown' <=> x \in Shown)
  BY DEF RowChanges, Key, Shown
<1>2. \A j, k : Before(j, k)' = Before(j, k)
  BY DEF RowChanges, Before, TransactionsBefore, RemindersBefore, SavingsBefore,
         NotificationsBefore, AuditBefore, ReportsBefore
<1>3. /\ Position(s) = Cardinality(Ahead(s)) + 1
      /\ Position(s)' = Cardinality(Ahead(s)') + 1
  BY DEF Position, Ahead
<1>4. Ahead(s) \subseteq ViewRow /\ Ahead(s)' \subseteq ViewRow
  BY DEF Ahead, Shown
<1>5. /\ IsFiniteSet(Ahead(s)) /\ IsFiniteSet(Ahead(s)')
      /\ Cardinality(Ahead(s)) \in Nat /\ Cardinality(Ahead(s)') \in Nat
  BY <1>4, ShownIsFinite, SmallerSet
<1>6. (\E k \in went : Before(k, Key(s))) \/ Ahead(s) \subseteq Ahead(s)'
  <2> SUFFICES ASSUME NEW x \in Ahead(s), x \notin Ahead(s)'
               PROVE  \E k \in went : Before(k, Key(s))
    OBVIOUS
  <2>1. x \in ViewRow /\ x \in Shown /\ Before(Key(x), Key(s))
    BY DEF Ahead, Shown
  <2>2. x = r
    BY <1>1, <1>2, <2>1 DEF Ahead
  <2> QED
    BY <2>1, <2>2 DEF RowChanges, Shown
<1>7. (\E k \in came : Before(k, Key(s))) \/ Ahead(s)' \subseteq Ahead(s)
  <2> SUFFICES ASSUME NEW x \in Ahead(s)', x \notin Ahead(s)
               PROVE  \E k \in came : Before(k, Key(s))
    OBVIOUS
  <2>1. x \in ViewRow /\ x \in Shown' /\ Before(Key(x), Key(s))'
    BY DEF Ahead, Shown
  <2>2. Before(Key(x)', Key(s))
    <3>1. Before(Key(x)', Key(s)')
      BY <2>1 DEF RowChanges, Before, TransactionsBefore, RemindersBefore, SavingsBefore,
                  NotificationsBefore, AuditBefore, ReportsBefore
    <3> QED
      BY <1>1, <3>1
  <2>3. x = r
    BY <1>1, <2>1, <2>2 DEF Ahead
  <2> QED
    BY <2>1, <2>2, <2>3 DEF RowChanges, Shown
<1>8. Ahead(s) \subseteq Ahead(s)' => Position(s) <= Position(s)'
  <2>1. Ahead(s) \subseteq Ahead(s)' => Cardinality(Ahead(s)) <= Cardinality(Ahead(s)')
    BY <1>5, SmallerSet
  <2> QED
    BY <1>3, <1>5, <2>1
<1>9. Ahead(s)' \subseteq Ahead(s) => Position(s)' <= Position(s)
  <2>1. Ahead(s)' \subseteq Ahead(s) => Cardinality(Ahead(s)') <= Cardinality(Ahead(s))
    BY <1>5, SmallerSet
  <2> QED
    BY <1>3, <1>5, <2>1
<1> QED
  BY <1>1, <1>6, <1>7, <1>8, <1>9

(* and without one that came there are no more rows than before.           *)
LEMMA NoneComes ==
  ASSUME ViewsTypeOK, NEW r \in ViewRow, NEW went, RowChanges(r, {}, went)
  PROVE  Cardinality(Shown') <= Cardinality(Shown)
<1>1. Shown' \subseteq Shown
  BY DEF RowChanges, Shown
<1> QED
  BY <1>1, ShownIsFinite, SmallerSet

-----------------------------------------------------------------------------
(* A reader of a list                                                      *)

Among(r, s) == \E n \in 1 .. Len(s) : s[n] = r

AtMostOnce(r, s) == \A m, n \in 1 .. Len(s) : s[m] = r /\ s[n] = r => m = n

BetweenPages(w) == w.step \in {"count", "rows"}

(* The rows of the pages before the reader's.                              *)
Passed(w) == {r \in Shown : Position(r) <= (w.page - 1) * PageSize}

KeptAreShown(w) == w.step # "idle" => Kept(w) \subseteq Shown

MissedAreAhead(w) ==
  BetweenPages(w) => \A r \in Kept(w) :
    Among(r, w.rows) \/ LeftBefore(w, r) \/ Position(r) > (w.page - 1) * PageSize

SeenAreBehind(w) ==
  BetweenPages(w) => \A r \in Kept(w) :
    Among(r, w.rows) => CameBefore(w, r) \/ Position(r) <= (w.page - 1) * PageSize

SeenOnce(w) ==
  w.step # "idle" => \A r \in Kept(w) : AtMostOnce(r, w.rows) \/ CameBefore(w, r)

NoneMissed(w) ==
  w.step = "done" => \A r \in Kept(w) : Among(r, w.rows) \/ LeftBefore(w, r) \/ w.late

CountIsEnough(w) == w.step = "rows" => w.late \/ Cardinality(Shown) <= w.total

QuietList(w) ==
  w.step # "idle" /\ ~w.dirty =>
    /\ w.came = {} /\ w.went = {} /\ ~w.late
    /\ BetweenPages(w) => Len(w.rows) = Cardinality(Passed(w))
    /\ w.step = "rows" => w.total = Cardinality(Shown)
    /\ w.step = "done" => Len(w.rows) = w.total

ListReading(w) ==
  /\ w.step \in {"idle", "count", "rows", "done"}
  /\ BetweenPages(w) => w.page \in Nat \ {0}
  /\ KeptAreShown(w) /\ MissedAreAhead(w) /\ SeenAreBehind(w) /\ SeenOnce(w)
  /\ NoneMissed(w) /\ CountIsEnough(w) /\ QuietList(w)

(* A row that comes or goes is remembered by every reader of the list.     *)
LEMMA WritesKeepListReading ==
  ASSUME ViewsTypeOK, NEW r \in ViewRow, NEW came, NEW went, RowChanges(r, came, went),
         NEW v \in Viewer, ListReading(viewer[v]), viewer[v].step # "idle",
         viewer'[v] = [viewer[v] EXCEPT !.came = @ \cup came, !.went = @ \cup went, !.dirty = TRUE,
                         !.late = @ \/ (viewer[v].step = "rows" /\ came # {})]
  PROVE  ListReading(viewer[v])'
<1> DEFINE w == viewer[v]
           x == viewer'[v]
<1>1. w \in Reading
  BY DEF ViewsTypeOK
<1>2. /\ x.step = w.step /\ x.page = w.page /\ x.rows = w.rows /\ x.total = w.total
      /\ x.steady = w.steady /\ x.came = w.came \cup came /\ x.went = w.went \cup went
      /\ x.dirty /\ (x.late <=> w.late \/ (w.step = "rows" /\ came # {}))
  <2>1. /\ x.step = w.step /\ x.page = w.page /\ x.rows = w.rows /\ x.total = w.total
        /\ x.steady = w.steady /\ x.came = w.came \cup came /\ x.went = w.went \cup went
        /\ x.dirty = TRUE
    BY <1>1 DEF Reading
  <2>2. x.late = (w.late \/ (w.step = "rows" /\ came # {}))
    BY <1>1 DEF Reading
  <2> QED
    BY <2>1, <2>2
<1>3. Kept(w) \subseteq Shown /\ Shown \subseteq ViewRow
  BY DEF ListReading, KeptAreShown, Shown
<1> DEFINE kept == {s \in x.steady : \A k \in x.went : k.born # s}
           left(s) == \E k \in x.went : Before(k, Key(s))
           arrived(s) == \E k \in x.came : Before(k, Key(s))
<1>4. kept = Kept(viewer[v])'
  BY DEF Kept
<1>5. \A j, k : Before(j, k)' = Before(j, k)
  BY DEF RowChanges, Before, TransactionsBefore, RemindersBefore, SavingsBefore,
         NotificationsBefore, AuditBefore, ReportsBefore
<1>6. ASSUME NEW s \in kept
      PROVE  /\ s \in Kept(w) /\ s # r /\ s \in ViewRow
             /\ Key(s)' = Key(s) /\ s \in Shown' /\ Position(s) \in Nat /\ Position(s)' \in Nat
             /\ left(s) \/ Position(s) <= Position(s)'
             /\ arrived(s) \/ Position(s)' <= Position(s)
  <2>1. s \in Kept(w) /\ s \in Shown /\ s \in ViewRow
    BY <1>2, <1>3 DEF Kept
  <2>2. s # r
    <3> SUFFICES ASSUME s = r PROVE FALSE
      OBVIOUS
    <3>1. Key(r) \in went /\ Key(r).born = r
      BY <2>1, KeysAreKeys DEF RowChanges, Shown
    <3> QED
      BY <1>2, <3>1
  <2>3. Position(s) \in Nat /\ Position(s)' \in Nat
    <3>1. Ahead(s)' \subseteq ViewRow
      BY DEF Ahead, Shown
    <3>2. Cardinality(Ahead(s)') \in Nat
      BY <3>1, ShownIsFinite, SmallerSet
    <3>3. Position(s)' = Cardinality(Ahead(s)') + 1
      BY DEF Position, Ahead
    <3> QED
      BY <3>2, <3>3, AheadIsFinite
  <2> QED
    BY <1>2, <2>1, <2>2, <2>3, OthersStay
<1>7. ASSUME NEW s \in kept
      PROVE  /\ LeftBefore(w, s) => left(s)
             /\ CameBefore(w, s) => arrived(s)
             /\ LeftBefore(viewer[v], s)' <=> left(s)
             /\ CameBefore(viewer[v], s)' <=> arrived(s)
  <2>1. \A k : Before(k, Key(s))' <=> Before(k, Key(s))
    <3>1. \A k : Before(k, Key(s))' <=> Before(k, Key(s)')
      BY DEF RowChanges, Before, TransactionsBefore, RemindersBefore, SavingsBefore,
             NotificationsBefore, AuditBefore, ReportsBefore
    <3> QED
      BY <1>6, <3>1
  <2> QED
    BY <1>2, <2>1 DEF LeftBefore, CameBefore
<1>8. x.page = w.page /\ (BetweenPages(viewer[v])' <=> BetweenPages(w))
      /\ (BetweenPages(w) => (w.page - 1) * PageSize \in Nat)
  <2>1. BetweenPages(w) => w.page \in Nat \ {0}
    BY DEF ListReading
  <2> QED
    BY <1>2, <2>1, PageEnds DEF BetweenPages
<1> HIDE DEF left, arrived, kept
<1>9. KeptAreShown(viewer[v])'
  BY <1>4, <1>6 DEF KeptAreShown
<1>10. MissedAreAhead(viewer[v])'
  <2> SUFFICES ASSUME BetweenPages(w), NEW s \in kept, ~Among(s, w.rows), ~left(s)
               PROVE  Position(s)' > (w.page - 1) * PageSize
    BY <1>2, <1>4, <1>7, <1>8 DEF MissedAreAhead
  <2>1. Position(s) > (w.page - 1) * PageSize
    BY <1>6, <1>7 DEF ListReading, MissedAreAhead
  <2> QED
    BY <1>6, <1>8, <2>1
<1>11. SeenAreBehind(viewer[v])'
  <2> SUFFICES ASSUME BetweenPages(w), NEW s \in kept, Among(s, w.rows), ~arrived(s)
               PROVE  Position(s)' <= (w.page - 1) * PageSize
    BY <1>2, <1>4, <1>7, <1>8 DEF SeenAreBehind
  <2>1. Position(s) <= (w.page - 1) * PageSize
    BY <1>6, <1>7 DEF ListReading, SeenAreBehind
  <2> QED
    BY <1>6, <1>8, <2>1
<1>12. SeenOnce(viewer[v])'
  BY <1>2, <1>4, <1>6, <1>7 DEF SeenOnce, ListReading
<1>13. NoneMissed(viewer[v])'
  BY <1>2, <1>4, <1>6, <1>7 DEF NoneMissed, ListReading
<1>14. CountIsEnough(viewer[v])'
  <2> SUFFICES ASSUME w.step = "rows", ~x.late PROVE Cardinality(Shown') <= w.total
    BY <1>2 DEF CountIsEnough
  <2>1. came = {} /\ ~w.late
    BY <1>2
  <2>2. Cardinality(Shown') <= Cardinality(Shown)
    BY <2>1, NoneComes
  <2>3. Cardinality(Shown) <= w.total
    BY <2>1 DEF ListReading, CountIsEnough
  <2>4. Cardinality(Shown') \in Nat /\ Cardinality(Shown) \in Nat /\ w.total \in Nat
    <3>1. Shown' \subseteq ViewRow
      BY DEF Shown
    <3> QED
      BY <1>1, <3>1, ShownIsFinite, SmallerSet DEF Reading
  <2> QED
    BY <2>2, <2>3, <2>4
<1>15. QuietList(viewer[v])'
  BY <1>2 DEF QuietList
<1>16. viewer'[v].step \in {"idle", "count", "rows", "done"}
       /\ (BetweenPages(viewer[v])' => viewer'[v].page \in Nat \ {0})
  BY <1>2, <1>8 DEF ListReading
<1> QED
  BY <1>9, <1>10, <1>11, <1>12, <1>13, <1>14, <1>15, <1>16 DEF ListReading

(* What is in two sequences is in their concatenation, and as often.       *)
LEMMA InSeq ==
  ASSUME NEW s \in Seq(ViewRow), NEW t \in Seq(ViewRow), NEW r
  PROVE  /\ s \o t \in Seq(ViewRow) /\ Len(s \o t) = Len(s) + Len(t)
         /\ Among(r, s \o t) <=> Among(r, s) \/ Among(r, t)
         /\ AtMostOnce(r, s) /\ AtMostOnce(r, t) /\ ~(Among(r, s) /\ Among(r, t))
              => AtMostOnce(r, s \o t)
<1> DEFINE u == s \o t
           m == Len(s)
           n == Len(t)
<1>1. /\ u \in Seq(ViewRow) /\ Len(u) = m + n /\ m \in Nat /\ n \in Nat
      /\ \A i \in 1 .. m + n : u[i] = IF i <= m THEN s[i] ELSE t[i - m]
  BY ConcatProperties, LenProperties
<1> HIDE DEF u, m, n
<1>2. \A i \in 1 .. m : i \in 1 .. m + n /\ u[i] = s[i]
  BY <1>1
<1>3. \A i \in 1 .. n : m + i \in 1 .. m + n /\ u[m + i] = t[i]
  <2> SUFFICES ASSUME NEW i \in 1 .. n PROVE m + i \in 1 .. m + n /\ u[m + i] = t[i]
    OBVIOUS
  <2>1. m + i \in 1 .. m + n /\ ~(m + i <= m) /\ (m + i) - m = i
    BY <1>1
  <2> QED
    BY <1>1, <2>1
<1>4. \A i \in 1 .. m + n : \/ i \in 1 .. m /\ u[i] = s[i]
                            \/ i - m \in 1 .. n /\ u[i] = t[i - m]
  BY <1>1
<1>5. Among(r, u) <=> Among(r, s) \/ Among(r, t)
  BY <1>1, <1>2, <1>3, <1>4 DEF Among, m, n
<1>6. ASSUME AtMostOnce(r, s), AtMostOnce(r, t), ~(Among(r, s) /\ Among(r, t))
      PROVE  AtMostOnce(r, u)
  <2> SUFFICES ASSUME NEW i \in 1 .. m + n, NEW j \in 1 .. m + n, u[i] = r, u[j] = r
               PROVE  i = j
    BY <1>1 DEF AtMostOnce
  <2>1. CASE i \in 1 .. m /\ j \in 1 .. m
    BY <1>2, <1>6, <2>1 DEF AtMostOnce, m
  <2>2. CASE i - m \in 1 .. n /\ j - m \in 1 .. n
    <3>1. t[i - m] = r /\ t[j - m] = r
      BY <1>1, <1>4, <2>2
    <3>2. i - m = j - m
      BY <1>6, <2>2, <3>1 DEF AtMostOnce, n
    <3> QED
      BY <1>1, <3>2
  <2>3. CASE ~(i \in 1 .. m <=> j \in 1 .. m)
    <3>1. Among(r, s) /\ Among(r, t)
      BY <1>4, <2>3 DEF Among, m, n
    <3> QED
      BY <1>6, <3>1
  <2> QED
    BY <1>4, <2>1, <2>2, <2>3
<1> QED
  BY <1>1, <1>5, <1>6 DEF u, m, n

(* The members of two sets without a common one add up.                    *)
LEMMA DisjointUnion ==
  ASSUME NEW S, NEW T, IsFiniteSet(S), IsFiniteSet(T), S \cap T = {}
  PROVE  Cardinality(S \cup T) = Cardinality(S) + Cardinality(T)
<1>1. Cardinality(S \cap T) = 0
  BY FS_EmptySet
<1>2. Cardinality(S \cup T) = Cardinality(S) + Cardinality(T) - Cardinality(S \cap T)
  BY FS_Union
<1>3. Cardinality(S) \in Nat /\ Cardinality(T) \in Nat
  BY FS_CardinalityType
<1> QED
  BY <1>1, <1>2, <1>3

(* A reader that has counted the rows promises what it did before.         *)
LEMMA CountKeepsListReading ==
  ASSUME ViewsTypeOK, NEW w \in Reading, ListReading(w), w.step = "count", NEW x,
         x = [w EXCEPT !.step = "rows", !.total = Cardinality(Shown), !.late = FALSE]
  PROVE  ListReading(x)
<1>1. /\ x.step = "rows" /\ x.page = w.page /\ x.rows = w.rows /\ x.total = Cardinality(Shown)
      /\ x.steady = w.steady /\ x.came = w.came /\ x.went = w.went /\ x.dirty = w.dirty
      /\ x.late = FALSE
  BY DEF Reading
<1>2. /\ Kept(x) = Kept(w) /\ Passed(x) = Passed(w) /\ BetweenPages(w) /\ BetweenPages(x)
      /\ \A s : (LeftBefore(x, s) <=> LeftBefore(w, s)) /\ (CameBefore(x, s) <=> CameBefore(w, s))
  BY <1>1 DEF Kept, Passed, BetweenPages, LeftBefore, CameBefore
<1>3. KeptAreShown(x) /\ MissedAreAhead(x) /\ SeenAreBehind(x) /\ SeenOnce(x)
  BY <1>1, <1>2 DEF ListReading, KeptAreShown, MissedAreAhead, SeenAreBehind, SeenOnce
<1>4. NoneMissed(x) /\ CountIsEnough(x)
  BY <1>1, ShownIsFinite DEF NoneMissed, CountIsEnough
<1>5. QuietList(x)
  BY <1>1, <1>2 DEF QuietList, ListReading
<1> QED
  BY <1>1, <1>2, <1>3, <1>4, <1>5 DEF ListReading

(* A page is read: what it shows is passed, what it misses is ahead.       *)
LEMMA FetchKeepsListReading ==
  ASSUME ViewsTypeOK, NEW w \in Reading, ListReading(w), w.step = "rows",
         NEW x,
         x = [w EXCEPT !.rows = @ \o PageInOrder(w.page),
                       !.step = IF w.page * PageSize >= w.total THEN "done" ELSE "count",
                       !.page = IF w.page * PageSize >= w.total THEN @ ELSE @ + 1]
  PROVE  ListReading(x) /\ x \in Reading
<1> DEFINE last == w.page * PageSize >= w.total
           p == w.page
           lo == (p - 1) * PageSize
           hi == p * PageSize
           g == PageInOrder(p)
           N == Cardinality(Shown)
<1>1. p \in Nat \ {0} /\ w.rows \in Seq(ViewRow) /\ w.total \in Nat /\ BetweenPages(w)
      /\ N \in Nat
  BY ShownIsFinite DEF ListReading, Reading, BetweenPages
<1>2. lo \in Nat /\ hi \in Nat /\ lo < hi
  <2>1. lo \in Nat /\ hi \in Nat /\ hi = lo + PageSize
    BY <1>1, PageEnds
  <2> HIDE DEF lo, hi
  <2> QED
    BY <2>1, ViewConstants
<1>3. /\ x.rows = w.rows \o g /\ x.total = w.total
      /\ x.steady = w.steady /\ x.came = w.came /\ x.went = w.went
      /\ x.dirty = w.dirty /\ x.late = w.late
      /\ last => x.step = "done" /\ x.page = p
      /\ ~last => x.step = "count" /\ x.page = p + 1
  BY DEF Reading
<1>4. (last <=> hi >= w.total) /\ (~last => (x.page - 1) * PageSize = hi)
  <2>1. ~last => x.page - 1 = p
    BY <1>1, <1>3
  <2> QED
    BY <2>1
<1>5. /\ g \in Seq(ViewRow) /\ Len(g) = Cardinality(PageOf(p))
      /\ \A s : Among(s, g) <=> s \in PageOf(p)
      /\ \A s : AtMostOnce(s, g)
  <2> DEFINE S == PageOf(p)
  <2>1. /\ g \in Seq(ViewRow) /\ Len(g) = Cardinality(S)
        /\ \A i \in 1 .. Len(g) : g[i] \in S
        /\ \A r \in S : \E i \in 1 .. Len(g) : g[i] = r
        /\ \A i, j \in 1 .. Len(g) : g[i] = g[j] => i = j
    BY <1>1, PagesInOrder
  <2> HIDE DEF g, S
  <2>2. /\ \A s : Among(s, g) <=> s \in S
        /\ \A s : AtMostOnce(s, g)
    BY <2>1 DEF Among, AtMostOnce
  <2> QED
    BY <2>1, <2>2 DEF S
<1>6. \A s \in Shown : /\ Position(s) \in Nat /\ Position(s) <= N
                       /\ s \in PageOf(p) <=> lo < Position(s) /\ Position(s) <= hi
  <2> SUFFICES ASSUME NEW s \in Shown
               PROVE  /\ Position(s) \in Nat /\ Position(s) <= N
                      /\ s \in PageOf(p) <=> lo < Position(s) /\ Position(s) <= hi
    OBVIOUS
  <2>1. Position(s) \in Nat /\ Position(s) <= N
    <3>1. Position(s) \in 1 .. N
      BY PositionsAreBounded
    <3> HIDE DEF N
    <3> QED
      BY <1>1, <3>1
  <2>2. s \in PageOf(p) <=> Position(s) > lo /\ Position(s) <= hi
    BY DEF PageOf
  <2> HIDE DEF lo, hi
  <2> QED
    BY <1>2, <2>1, <2>2
<1>7. /\ Kept(x) = Kept(w) /\ Kept(w) \subseteq Shown
      /\ \A s : (LeftBefore(x, s) <=> LeftBefore(w, s)) /\ (CameBefore(x, s) <=> CameBefore(w, s))
  BY <1>3 DEF Kept, LeftBefore, CameBefore, ListReading, KeptAreShown
<1>8. /\ x.rows \in Seq(ViewRow) /\ Len(x.rows) = Len(w.rows) + Len(g)
      /\ \A s : Among(s, x.rows) <=> Among(s, w.rows) \/ s \in PageOf(p)
      /\ \A s : AtMostOnce(s, w.rows) /\ ~(Among(s, w.rows) /\ s \in PageOf(p))
                  => AtMostOnce(s, x.rows)
  <2> HIDE DEF g
  <2>1. x.rows \in Seq(ViewRow) /\ Len(x.rows) = Len(w.rows) + Len(g)
    BY <1>1, <1>3, <1>5, InSeq
  <2>2. ASSUME NEW s
        PROVE  /\ Among(s, x.rows) <=> Among(s, w.rows) \/ s \in PageOf(p)
               /\ AtMostOnce(s, w.rows) /\ ~(Among(s, w.rows) /\ s \in PageOf(p))
                    => AtMostOnce(s, x.rows)
    <3>1. (Among(s, g) <=> s \in PageOf(p)) /\ AtMostOnce(s, g)
      BY <1>5
    <3>2. /\ Among(s, w.rows \o g) <=> Among(s, w.rows) \/ Among(s, g)
          /\ AtMostOnce(s, w.rows) /\ AtMostOnce(s, g) /\ ~(Among(s, w.rows) /\ Among(s, g))
               => AtMostOnce(s, w.rows \o g)
      BY <1>1, <1>5, InSeq
    <3> QED
      BY <1>3, <3>1, <3>2
  <2> QED
    BY <2>1, <2>2
<1>9. \A s \in Kept(w) :
        /\ Among(s, w.rows) \/ LeftBefore(w, s) \/ Position(s) > lo
        /\ Among(s, w.rows) => CameBefore(w, s) \/ Position(s) <= lo
        /\ AtMostOnce(s, w.rows) \/ CameBefore(w, s)
  BY <1>1 DEF ListReading, MissedAreAhead, SeenAreBehind, SeenOnce, BetweenPages
<1>10. BetweenPages(x) <=> ~last
  BY <1>3 DEF BetweenPages
<1> HIDE DEF g
<1>11. KeptAreShown(x)
  BY <1>7 DEF KeptAreShown
<1>12. MissedAreAhead(x)
  <2> SUFFICES ASSUME ~last, NEW s \in Kept(w), ~Among(s, x.rows), ~LeftBefore(w, s)
               PROVE  Position(s) > hi
    BY <1>4, <1>7, <1>10 DEF MissedAreAhead
  <2> HIDE DEF lo, hi
  <2> QED
    BY <1>2, <1>6, <1>7, <1>8, <1>9
<1>13. SeenAreBehind(x)
  <2> SUFFICES ASSUME ~last, NEW s \in Kept(w), Among(s, x.rows), ~CameBefore(w, s)
               PROVE  Position(s) <= hi
    BY <1>4, <1>7, <1>10 DEF SeenAreBehind
  <2> HIDE DEF lo, hi
  <2> QED
    BY <1>2, <1>6, <1>7, <1>8, <1>9
<1>14. SeenOnce(x)
  <2> SUFFICES ASSUME NEW s \in Kept(w), ~CameBefore(w, s) PROVE AtMostOnce(s, x.rows)
    BY <1>7 DEF SeenOnce
  <2> HIDE DEF lo, hi
  <2> QED
    BY <1>2, <1>6, <1>7, <1>8, <1>9
<1>15. NoneMissed(x)
  <2> SUFFICES ASSUME last, NEW s \in Kept(w), ~LeftBefore(w, s), ~w.late
               PROVE  Among(s, x.rows)
    BY <1>3, <1>7 DEF NoneMissed
  <2>1. N <= w.total
    BY DEF ListReading, CountIsEnough
  <2>2. s \in Shown /\ (s \in PageOf(p) <=> lo < Position(s) /\ Position(s) <= hi)
        /\ Position(s) \in Nat /\ Position(s) <= N
    BY <1>6, <1>7
  <2>3. Among(s, w.rows) \/ Position(s) > lo
    BY <1>9
  <2> HIDE DEF lo, hi, N
  <2>4. Position(s) <= hi
    BY <1>1, <1>2, <1>4, <2>1, <2>2
  <2> QED
    BY <1>2, <1>8, <2>2, <2>3, <2>4
<1>16. QuietList(x)
  <2> SUFFICES ASSUME ~w.dirty
               PROVE  /\ w.came = {} /\ w.went = {} /\ ~w.late
                      /\ ~last => Len(x.rows) = Cardinality(Passed(x))
                      /\ last => Len(x.rows) = w.total
    BY <1>3, <1>10 DEF QuietList
  <2>1. /\ w.came = {} /\ w.went = {} /\ ~w.late /\ w.total = N
        /\ Len(w.rows) = Cardinality(Passed(w))
    BY <1>1 DEF ListReading, QuietList
  <2>2. Len(x.rows) = Cardinality(Passed(w) \cup PageOf(p))
    <3>1. Passed(w) \subseteq Shown /\ PageOf(p) \subseteq Shown
      BY DEF Passed, PageOf
    <3>2. Passed(w) \cap PageOf(p) = {}
      <4>1. \A s \in Passed(w) : s \in Shown /\ Position(s) <= lo
        BY DEF Passed
      <4> HIDE DEF lo, hi
      <4> QED
        BY <1>2, <1>6, <4>1
    <3>3. IsFiniteSet(Passed(w)) /\ IsFiniteSet(PageOf(p))
      BY <3>1, ShownIsFinite, SmallerSet
    <3>4. Cardinality(Passed(w) \cup PageOf(p)) = Cardinality(Passed(w)) + Cardinality(PageOf(p))
      BY <3>2, <3>3, DisjointUnion
    <3> QED
      BY <1>5, <1>8, <2>1, <3>4
  <2>3. Passed(w) \cup PageOf(p) = {s \in Shown : Position(s) <= hi}
    <3>1. \A s \in Shown : s \in Passed(w) <=> Position(s) <= lo
      BY DEF Passed
    <3>2. Passed(w) \subseteq Shown /\ PageOf(p) \subseteq Shown
      BY DEF Passed, PageOf
    <3> HIDE DEF lo, hi
    <3> QED
      BY <1>2, <1>6, <3>1, <3>2
  <2>4. CASE ~last
    <3>1. Passed(x) = {s \in Shown : Position(s) <= hi}
      BY <1>4, <2>4 DEF Passed
    <3> QED
      BY <2>1, <2>2, <2>3, <2>4, <3>1
  <2>5. CASE last
    <3>1. {s \in Shown : Position(s) <= hi} = Shown
      <4> HIDE DEF lo, hi, N
      <4> QED
        BY <1>1, <1>2, <1>4, <1>6, <2>1, <2>5
    <3> QED
      BY <2>1, <2>2, <2>3, <2>5, <3>1
  <2> QED
    BY <2>1, <2>4, <2>5
<1>17. x.step \in {"idle", "count", "rows", "done"} /\ x.page \in Nat \ {0}
  BY <1>1, <1>3
<1>18. CountIsEnough(x)
  BY <1>3 DEF CountIsEnough
<1>19. x \in Reading
  <2>1. x = [w EXCEPT !.rows = x.rows, !.step = x.step, !.page = x.page]
    BY DEF Reading
  <2> QED
    BY <1>1, <1>8, <1>17, <2>1 DEF Reading
<1> QED
  BY <1>11, <1>12, <1>13, <1>14, <1>15, <1>16, <1>17, <1>18, <1>19 DEF ListReading

(* A reader that opens the list has seen no row and missed none.           *)
LEMMA OpenStartsListReading ==
  ASSUME ViewsTypeOK, NEW x,
         x = [Idle EXCEPT !.step = "count", !.page = 1, !.steady = Shown]
  PROVE  ListReading(x) /\ x \in Reading
<1>1. /\ x.step = "count" /\ x.page = 1 /\ x.steady = Shown /\ x.rows = <<>> /\ x.total = 0
      /\ x.came = {} /\ x.went = {} /\ x.late = FALSE /\ x.dirty = FALSE
  BY DEF Idle
<1>2. Kept(x) = Shown
  BY <1>1 DEF Kept
<1>3. \A s : ~Among(s, x.rows) /\ AtMostOnce(s, x.rows)
  BY <1>1 DEF Among, AtMostOnce
<1>4. \A s \in Shown : Position(s) \in Nat /\ Position(s) > 0
  BY PositionsAreBounded, ShownIsFinite
<1>5. (x.page - 1) * PageSize = 0
  BY <1>1, ViewConstants
<1>6. KeptAreShown(x) /\ MissedAreAhead(x) /\ SeenAreBehind(x) /\ SeenOnce(x) /\ NoneMissed(x)
      /\ CountIsEnough(x)
  BY <1>1, <1>2, <1>3, <1>4, <1>5
     DEF KeptAreShown, MissedAreAhead, SeenAreBehind, SeenOnce, NoneMissed, CountIsEnough
<1>7. QuietList(x)
  <2>1. Passed(x) = {}
    BY <1>4, <1>5 DEF Passed
  <2>2. Cardinality(Passed(x)) = 0 /\ Len(x.rows) = 0
    BY <1>1, <2>1, FS_EmptySet
  <2> QED
    BY <1>1, <2>2 DEF QuietList
<1>8. x \in Reading
  <2>1. Shown \subseteq ViewRow
    BY DEF Shown
  <2>2. <<>> \in Seq(ViewRow)
    BY EmptySeq
  <2> QED
    BY <2>1, <2>2 DEF Idle, Reading
<1> QED
  BY <1>1, <1>6, <1>7, <1>8 DEF ListReading

-----------------------------------------------------------------------------
(* A reader of figures                                                     *)

DashboardAgrees(w) ==
  /\ \A k \in {"income", "expense"} : w.totals[k] = w.series[k]
  /\ TopFallsShort(w.totals, w.rest)

ChatAgrees(w) ==
  /\ w.rest["expense"] = w.totals["expense"]
  /\ RecentFallsShort(w.totals, w.series)

(* What was read since the last write is what would be read now.           *)
FiguresReading(w) ==
  /\ view = "dashboard" =>
       /\ w.step \in {"idle", "totals", "done"}
       /\ w.step = "totals" /\ w.put => w.totals \in Figures
       /\ w.step = "totals" /\ ~w.dirty =>
            /\ w.totals \in {NoFigures, GetSummary}
            /\ w.series \in {NoFigures, MonthTotals}
            /\ w.rest \in {NoFigures} \cup GetTopCategories
            /\ w.put => w.totals = GetSummary
       /\ w.step = "done" /\ ~w.dirty => DashboardAgrees(w)
  /\ view = "chat" =>
       /\ w.step \in {"idle", "totals", "series", "rest", "done"}
       /\ w.step \in {"series", "rest"} /\ ~w.dirty => w.totals = MonthTotals
       /\ w.step = "rest" /\ ~w.dirty => w.series = RecentTx
       /\ w.step = "done" /\ ~w.dirty => ChatAgrees(w)

CachedIsCurrent ==
  cached # NoFigures /\ ~cached.dirty => cached.figures = GetSummary

ReadingIsRight(w) == (view \in ListView => ListReading(w)) /\ FiguresReading(w)

ViewsInv ==
  /\ ViewsTypeOK /\ CachedIsCurrent
  /\ \A v \in Viewer : ReadingIsRight(viewer[v])

(* Sorted by their types, rows are still the same.                         *)
LEMMA RowsOfKinds ==
  ASSUME ViewsTypeOK, NEW S \in SUBSET ViewRow
  PROVE  OfKind(S) \in Figures /\ RowsOfFigures(OfKind(S)) = S
<1>1. OfKind(S) \in Figures
  BY DEF OfKind, Figures
<1>2. \A r \in S : KindOf[viewRows[r].group] \in Kind
  BY ViewConstants DEF ViewsTypeOK
<1> QED
  BY <1>1, <1>2 DEF OfKind, RowsOfFigures

(* Each figure is one of those that a reader may be given.                 *)
LEMMA FiguresAreFigures ==
  ASSUME ViewsTypeOK
  PROVE  /\ {GetSummary, MonthTotals, RecentTx, BudgetsSpent} \subseteq Figures
         /\ GetTopCategories \subseteq Figures
<1>1. InMonth \subseteq ViewRow /\ Shown \subseteq ViewRow
  BY DEF InMonth, Shown
<1>2. \A kinds : MonthsOf(kinds) \in Figures
  BY <1>1, RowsOfKinds DEF MonthsOf
<1>3. RecentTx \in Figures
  BY <1>1, RowsOfKinds DEF RecentTx
<1>4. \A G : OfKind({r \in InMonth : viewRows[r].group \in G}) \in Figures
  BY <1>1, RowsOfKinds
<1> QED
  BY <1>2, <1>3, <1>4 DEF GetSummary, GetTopCategories, MonthTotals, BudgetsSpent

(* The sums of one month agree in the types that they have in common.      *)
LEMMA SumsAgree ==
  /\ \A k \in {"income", "expense"} : GetSummary[k] = MonthTotals[k]
  /\ BudgetsSpent["expense"] = MonthTotals["expense"]
BY DEF GetSummary, MonthTotals, BudgetsSpent, MonthsOf, OfKind, Kind

(* The summary is of all rows of the month.                                *)
LEMMA SummaryHasAll == ASSUME ViewsTypeOK PROVE RowsOfFigures(GetSummary) = InMonth
<1>1. InMonth \subseteq ViewRow
  BY DEF InMonth, Shown
<1>2. {r \in InMonth : KindOf[viewRows[r].group] \in Kind} = InMonth
  BY <1>1, ViewConstants DEF ViewsTypeOK
<1> QED
  BY <1>1, <1>2, RowsOfKinds DEF GetSummary, MonthsOf

(* What the top categories leave out is beyond their limit.                *)
LEMMA TopIsShort ==
  ASSUME ViewsTypeOK, NEW top \in GetTopCategories
  PROVE  TopFallsShort(GetSummary, top)
<1> DEFINE groups == {viewRows[r].group : r \in InMonth}
           OfGroup(g) == {r \in InMonth : viewRows[r].group = g}
           Alike(r) == {x \in InMonth : viewRows[x].group = viewRows[r].group}
<1>1. InMonth \subseteq ViewRow /\ IsFiniteSet(InMonth)
  BY ShownIsFinite, SmallerSet DEF InMonth, Shown
<1>2. PICK G \in TopGroups : top = OfKind({r \in InMonth : viewRows[r].group \in G})
  BY DEF GetTopCategories
<1>3. /\ G \subseteq groups
      /\ Cardinality(G) <= TopLimit /\ (Cardinality(G) < TopLimit => G = groups)
      /\ \A g \in G, h \in groups \ G : Cardinality(OfGroup(g)) >= Cardinality(OfGroup(h))
  BY DEF TopGroups
<1> DEFINE T == {r \in InMonth : viewRows[r].group \in G}
<1>4. RowsOfFigures(GetSummary) = InMonth /\ RowsOfFigures(top) = T
  BY <1>1, <1>2, SummaryHasAll, RowsOfKinds
<1>5. \A k \in Kind : top[k] \subseteq GetSummary[k]
  BY <1>2 DEF GetSummary, MonthsOf, OfKind
<1>6. {viewRows[x].group : x \in T} = G
  BY <1>3
<1>7. Cardinality(G) \in Nat
  <2> DEFINE f == [x \in T |-> viewRows[x].group]
  <2>1. f \in Surjection(T, G)
    BY <1>6 DEF Surjection
  <2>2. IsFiniteSet(T)
    BY <1>1, FS_Subset
  <2> QED
    BY <2>1, <2>2, FS_Surjection, FS_CardinalityType
<1> SUFFICES ASSUME NEW r \in InMonth \ T
             PROVE  /\ Alike(r) \cap T = {}
                    /\ Cardinality({viewRows[x].group : x \in T}) = TopLimit
                    /\ \A x \in T : Cardinality(Alike(x)) >= Cardinality(Alike(r))
  BY <1>4, <1>5 DEF TopFallsShort
<1>8. viewRows[r].group \in groups \ G
  OBVIOUS
<1>9. Cardinality(G) = TopLimit
  <2>1. G # groups
    BY <1>8
  <2> HIDE DEF groups
  <2> QED
    BY <1>3, <1>7, <2>1, ViewConstants
<1>10. \A x \in InMonth : Alike(x) = OfGroup(viewRows[x].group)
  OBVIOUS
<1> QED
  BY <1>3, <1>6, <1>8, <1>9, <1>10

(* The rows that come first are as many as asked for when there is one     *)
(* that is not among them.                                                 *)
LEMMA RecentIsShort ==
  ASSUME ViewsTypeOK
  PROVE  RecentFallsShort(MonthTotals, RecentTx)
<1> DEFINE R == {r \in Shown : Position(r) <= RecentLimit}
<1>1. R \subseteq ViewRow /\ Shown \subseteq ViewRow /\ IsFiniteSet(R)
  BY ShownIsFinite, SmallerSet DEF Shown
<1>2. RowsOfFigures(RecentTx) = R
  BY <1>1, RowsOfKinds DEF RecentTx
<1>3. RowsOfFigures(MonthTotals) \subseteq Shown
  BY DEF RowsOfFigures, MonthTotals, MonthsOf, OfKind, InMonth
<1>4. RecentLimit \in Nat
  BY ViewConstants
<1> SUFFICES ASSUME NEW r \in Shown \ R
             PROVE  /\ Cardinality(R) >= RecentLimit
                    /\ \A x \in R : Before(Key(x), Key(r))
  BY <1>2, <1>3 DEF RecentFallsShort
<1>5. \A x \in Shown : Position(x) \in Nat
  BY PositionsAreBounded, ShownIsFinite
<1>6. Position(r) > RecentLimit /\ Position(r) \in 1 .. Cardinality(Shown)
  BY <1>4, <1>5, PositionsAreBounded
<1>7. ASSUME NEW x \in R PROVE Before(Key(x), Key(r))
  <2>1. Position(x) < Position(r)
    BY <1>4, <1>5, <1>6
  <2>2. Key(x) \in RowKey /\ Key(r) \in RowKey /\ Key(x).born # Key(r).born
    BY <1>1, KeysAreKeys
  <2>3. CASE Before(Key(r), Key(x))
    <3>1. Position(r) < Position(x)
      BY <1>1, <2>3, PositionsFollowTheOrder
    <3> QED
      BY <1>5, <2>1, <3>1
  <2> QED
    BY <2>2, <2>3, BeforeIsAnOrder
<1>8. Cardinality(R) >= RecentLimit
  <2> DEFINE f == [x \in R |-> Position(x)]
             N == Cardinality(Shown)
  <2>1. f \in Surjection(R, 1 .. RecentLimit)
    <3>1. \A x \in R : Position(x) \in 1 .. RecentLimit
      <4>1. \A x \in R : Position(x) \in 1 .. N /\ Position(x) <= RecentLimit
        BY PositionsAreBounded
      <4> HIDE DEF R, N
      <4> QED
        BY <1>4, <4>1, ShownIsFinite DEF N
    <3>2. ASSUME NEW i \in 1 .. RecentLimit PROVE \E x \in R : Position(x) = i
      <4>1. i \in 1 .. N
        <5>1. N \in Nat
          BY ShownIsFinite
        <5> HIDE DEF N
        <5> QED
          BY <1>4, <1>6, <5>1 DEF N
      <4>2. PICK x \in Shown : Position(x) = i
        BY <4>1, PositionsAreTaken
      <4> QED
        BY <4>2
    <3> HIDE DEF R
    <3> QED
      BY <3>1, <3>2 DEF Surjection
  <2>2. Cardinality(1 .. RecentLimit) = RecentLimit
    BY <1>4, FS_Interval
  <2>3. Cardinality(1 .. RecentLimit) <= Cardinality(R)
    BY <1>1, <2>1, FS_Surjection
  <2>4. Cardinality(R) \in Nat
    BY <1>1, FS_CardinalityType
  <2> QED
    BY <1>4, <2>2, <2>3, <2>4
<1> QED
  BY <1>7, <1>8

(* A reader that reads nothing promises nothing.                           *)
LEMMA IdleIsRight == Idle \in Reading /\ ReadingIsRight(Idle)
<1>1. Idle \in Reading
  BY EmptySeq DEF Idle, Reading
<1>2. Idle.step = "idle"
  BY DEF Idle
<1>3. ListReading(Idle)
  BY <1>2 DEF ListReading, KeptAreShown, MissedAreAhead, SeenAreBehind, SeenOnce, NoneMissed,
              CountIsEnough, QuietList, BetweenPages
<1>4. FiguresReading(Idle)
  BY <1>2 DEF FiguresReading
<1> QED
  BY <1>1, <1>3, <1>4 DEF ReadingIsRight

(* While no row changes, what is right of a reader stays right.            *)
LEMMA StillRows ==
  ASSUME UNCHANGED <<view, viewRows>>, NEW v \in Viewer
  PROVE  /\ ReadingIsRight(viewer[v])' <=> ReadingIsRight(viewer'[v])
         /\ GetSummary' = GetSummary
<1>1. /\ Shown' = Shown /\ GetSummary' = GetSummary /\ MonthTotals' = MonthTotals
      /\ GetTopCategories' = GetTopCategories
  BY DEF Shown, InMonth, GetSummary, MonthTotals, MonthsOf, TopGroups, GetTopCategories, OfKind
<1>2. \A r : Key(r)' = Key(r)
  BY DEF Key
<1>3. \A j, k : Before(j, k)' = Before(j, k)
  BY DEF Before, TransactionsBefore, RemindersBefore, SavingsBefore, NotificationsBefore,
         AuditBefore, ReportsBefore
<1>4. \A r : Position(r)' = Position(r)
  BY DEF Position, Shown, Key, Before, TransactionsBefore, RemindersBefore, SavingsBefore,
         NotificationsBefore, AuditBefore, ReportsBefore
<1>5. \A r, k : Before(k, Key(r))' = Before(k, Key(r))
  BY DEF Key, Before, TransactionsBefore, RemindersBefore, SavingsBefore, NotificationsBefore,
         AuditBefore, ReportsBefore
<1>a. RecentTx' = RecentTx
  BY <1>1, <1>4 DEF RecentTx, OfKind
<1>b. \A x, r : Before(Key(x), Key(r))' = Before(Key(x), Key(r))
  BY DEF Key, Before, TransactionsBefore, RemindersBefore, SavingsBefore, NotificationsBefore,
         AuditBefore, ReportsBefore
<1>c. /\ DashboardAgrees(viewer[v])' <=> DashboardAgrees(viewer'[v])
      /\ ChatAgrees(viewer[v])' <=> ChatAgrees(viewer'[v])
  <2>1. DashboardAgrees(viewer[v])' <=> DashboardAgrees(viewer'[v])
    BY DEF DashboardAgrees, TopFallsShort, RowsOfFigures
  <2>2. ChatAgrees(viewer[v])' <=> ChatAgrees(viewer'[v])
    BY <1>b DEF ChatAgrees, RecentFallsShort, RowsOfFigures
  <2> QED
    BY <2>1, <2>2
<1>6. /\ Kept(viewer[v])' = Kept(viewer'[v])
      /\ BetweenPages(viewer[v])' <=> BetweenPages(viewer'[v])
      /\ Passed(viewer[v])' = Passed(viewer'[v])
      /\ \A r : LeftBefore(viewer[v], r)' <=> LeftBefore(viewer'[v], r)
      /\ \A r : CameBefore(viewer[v], r)' <=> CameBefore(viewer'[v], r)
  BY <1>1, <1>4, <1>5 DEF Kept, BetweenPages, Passed, LeftBefore, CameBefore
<1>7. ListReading(viewer[v])' <=> ListReading(viewer'[v])
  BY <1>1, <1>4, <1>6 DEF ListReading, KeptAreShown, MissedAreAhead, SeenAreBehind, SeenOnce,
     NoneMissed, CountIsEnough, QuietList, Among, AtMostOnce
<1>8. FiguresReading(viewer[v])' <=> FiguresReading(viewer'[v])
  BY <1>1, <1>a, <1>c DEF FiguresReading
<1> QED
  BY <1>1, <1>7, <1>8 DEF ReadingIsRight

-----------------------------------------------------------------------------
(* The steps                                                               *)

CachedType == {NoFigures} \cup [figures : Figures, dirty : BOOLEAN]

(* A step of one reader.                                                   *)
LEMMA ReaderSteps ==
  ASSUME ViewsInv, NEW v \in Viewer, NEW x, Read(v, x), x \in Reading, ReadingIsRight(x),
         cached' \in CachedType,
         cached' # NoFigures /\ ~cached'.dirty => cached'.figures = GetSummary
  PROVE  ViewsInv'
<1>1. UNCHANGED <<view, viewRows>> /\ viewer' = [viewer EXCEPT ![v] = x]
  BY DEF Read
<1>2. viewer \in [Viewer -> Reading]
  BY DEF ViewsInv, ViewsTypeOK
<1>3. ViewsTypeOK'
  BY <1>1, <1>2 DEF ViewsInv, ViewsTypeOK, CachedType
<1>4. CachedIsCurrent'
  BY <1>1, StillRows DEF CachedIsCurrent
<1>5. ASSUME NEW u \in Viewer PROVE ReadingIsRight(viewer[u])'
  <2>1. ReadingIsRight(viewer'[u])
    <3>1. CASE u = v
      BY <1>1, <1>2, <3>1
    <3>2. CASE u # v
      <4>1. viewer'[u] = viewer[u] /\ ReadingIsRight(viewer[u])
        BY <1>1, <1>2, <3>2 DEF ViewsInv
      <4> QED
        BY <4>1
    <3> QED
      BY <3>1, <3>2
  <2> QED
    BY <1>1, <2>1, StillRows
<1> QED
  BY <1>3, <1>4, <1>5 DEF ViewsInv

(* A row that comes, goes or is given another date.                        *)
LEMMA WriteSteps ==
  ASSUME ViewsInv, NEW r \in ViewRow, NEW new, NEW came, NEW went,
         Written(new, came, went), RowChanges(r, came, went)
  PROVE  ViewsInv'
<1>0. ViewsTypeOK /\ viewer \in [Viewer -> Reading] /\ view' = view
  BY DEF ViewsInv, ViewsTypeOK, Written
<1>1. /\ cached' = IF cached = NoFigures THEN cached ELSE [cached EXCEPT !.dirty = TRUE]
      /\ \A v \in Viewer : viewer'[v] =
           IF viewer[v].step = "idle" THEN viewer[v]
           ELSE IF view \notin ListView THEN [viewer[v] EXCEPT !.dirty = TRUE]
           ELSE [viewer[v] EXCEPT !.came = @ \cup came, !.went = @ \cup went, !.dirty = TRUE,
                                  !.late = @ \/ (viewer[v].step = "rows" /\ came # {})]
      /\ viewer' = [v \in Viewer |-> viewer'[v]]
  BY DEF Written
<1>2. cached' \in CachedType /\ CachedIsCurrent'
  <2>1. CASE cached = NoFigures
    BY <1>1, <2>1 DEF CachedType, CachedIsCurrent
  <2>2. CASE cached # NoFigures
    <3>1. cached \in [figures : Figures, dirty : BOOLEAN]
      BY <1>0, <2>2 DEF ViewsTypeOK
    <3>2. cached' = [cached EXCEPT !.dirty = TRUE]
      BY <1>1, <2>2
    <3>3. cached'.dirty = TRUE /\ cached' \in [figures : Figures, dirty : BOOLEAN]
      BY <3>1, <3>2
    <3> QED
      BY <3>3 DEF CachedType, CachedIsCurrent
  <2> QED
    BY <2>1, <2>2
<1>3. ASSUME NEW v \in Viewer PROVE viewer'[v] \in Reading /\ ReadingIsRight(viewer[v])'
  <2>0. viewer[v] \in Reading /\ ReadingIsRight(viewer[v])
    BY <1>0 DEF ViewsInv
  <2>1. CASE viewer[v].step = "idle"
    <3>1. viewer'[v] = viewer[v]
      BY <1>1, <2>1
    <3>2. viewer'[v].step = "idle"
      BY <2>1, <3>1
    <3> QED
      BY <2>0, <3>1, <3>2
         DEF ReadingIsRight, FiguresReading, ListReading, KeptAreShown, MissedAreAhead,
             SeenAreBehind, SeenOnce, NoneMissed, CountIsEnough, QuietList, BetweenPages
  <2>2. CASE viewer[v].step # "idle" /\ view \notin ListView
    <3>1. viewer'[v] = [viewer[v] EXCEPT !.dirty = TRUE]
      BY <1>1, <2>2
    <3>2. /\ viewer'[v] \in Reading /\ viewer'[v].step = viewer[v].step
          /\ viewer'[v].dirty = TRUE /\ viewer'[v].put = viewer[v].put
          /\ viewer'[v].totals = viewer[v].totals
      BY <2>0, <3>1 DEF Reading
    <3> QED
      BY <1>0, <2>0, <2>2, <3>2 DEF ReadingIsRight, FiguresReading
  <2>3. CASE viewer[v].step # "idle" /\ view \in ListView
    <3>1. viewer'[v] = [viewer[v] EXCEPT !.came = @ \cup came, !.went = @ \cup went,
                          !.dirty = TRUE,
                          !.late = @ \/ (viewer[v].step = "rows" /\ came # {})]
      BY <1>1, <2>3
    <3>2. viewer'[v] \in Reading
      <4>1. /\ viewer[v].came \cup came \in SUBSET RowKey
            /\ viewer[v].went \cup went \in SUBSET RowKey
            /\ (viewer[v].late \/ (viewer[v].step = "rows" /\ came # {})) \in BOOLEAN
        BY <2>0 DEF RowChanges, Reading
      <4> QED
        BY <2>0, <3>1, <4>1 DEF Reading
    <3>3. ListReading(viewer[v])'
      <4>1. ListReading(viewer[v])
        BY <2>0, <2>3 DEF ReadingIsRight
      <4> QED
        BY <1>0, <2>3, <3>1, <4>1, WritesKeepListReading
    <3>4. FiguresReading(viewer[v])'
      BY <1>0, <2>3 DEF FiguresReading, ListView
    <3> QED
      BY <3>2, <3>3, <3>4 DEF ReadingIsRight
  <2> QED
    BY <2>1, <2>2, <2>3
<1>4. ViewsTypeOK'
  BY <1>0, <1>1, <1>2, <1>3 DEF ViewsTypeOK, RowChanges, CachedType
<1> QED
  BY <1>2, <1>3, <1>4 DEF ViewsInv

(* The steps of a row that comes, goes, is read or gets another day,       *)
LEMMA RowSteps ==
  ASSUME ViewsInv, NEW r \in ViewRow,
         \/ \E day \in Day, group \in Group : Appear(r, day, group)
         \/ MarkRead(r) \/ Remove(r)
         \/ \E day \in Day : Redate(r, day)
  PROVE  ViewsInv'
<1>0. ViewsTypeOK
  BY DEF ViewsInv
<1>1. ASSUME NEW day \in Day, NEW group \in Group, Appear(r, day, group)
      PROVE  ViewsInv'
  <2> DEFINE came == {[born |-> r, day |-> day]}
  <2>1. /\ Written(viewRows', came, {}) /\ view' = view
        /\ viewRows' = [viewRows EXCEPT ![r] = [state |-> "listed", day |-> day, group |-> group]]
        /\ viewRows[r].state = "unborn"
    BY <1>1 DEF Appear, Written
  <2>2. RowChanges(r, came, {})
    <3>1. Key(r)' = [born |-> r, day |-> day]
      BY <1>0, <2>1 DEF Key, ViewsTypeOK
    <3>2. came \in SUBSET RowKey
      BY DEF RowKey
    <3> QED
      BY <1>0, <2>1, <3>1, <3>2 DEF RowChanges, ViewsTypeOK
  <2> HIDE DEF came
  <2> QED
    BY <2>1, <2>2, WriteSteps
<1>2. ASSUME Leaves(r) PROVE ViewsInv'
  <2>1. /\ Written(viewRows', {}, {Key(r)}) /\ view' = view
        /\ viewRows' = [viewRows EXCEPT ![r].state = "gone"]
    BY <1>2 DEF Leaves, Written
  <2>2. RowChanges(r, {}, {Key(r)})
    BY <1>0, <2>1, KeysAreKeys DEF RowChanges, ViewsTypeOK
  <2> QED
    BY <2>1, <2>2, WriteSteps
<1>3. ASSUME NEW day \in Day, Redate(r, day) PROVE ViewsInv'
  <2> DEFINE came == {[born |-> r, day |-> day]}
  <2>1. /\ Written(viewRows', came, {Key(r)}) /\ view' = view
        /\ viewRows' = [viewRows EXCEPT ![r].day = day]
    BY <1>3 DEF Redate, Written
  <2>2. RowChanges(r, came, {Key(r)})
    <3>1. Key(r)' = [born |-> r, day |-> day]
      BY <1>0, <2>1 DEF Key, ViewsTypeOK
    <3>2. came \in SUBSET RowKey
      BY DEF RowKey
    <3> QED
      BY <1>0, <2>1, <3>1, <3>2, KeysAreKeys DEF RowChanges, ViewsTypeOK
  <2> HIDE DEF came
  <2> QED
    BY <2>1, <2>2, WriteSteps
<1> QED
  BY <1>1, <1>2, <1>3 DEF MarkRead, Remove

(* and those of the readers of the list.                                   *)
LEMMA ListSteps ==
  ASSUME ViewsInv, NEW v \in Viewer, Open(v) \/ CountRows(v) \/ FetchPage(v) \/ Close(v)
  PROVE  ViewsInv'
<1> DEFINE w == viewer[v]
<1>0. /\ ViewsTypeOK /\ w \in Reading /\ ReadingIsRight(w) /\ UNCHANGED cached
      /\ cached \in CachedType
      /\ cached # NoFigures /\ ~cached.dirty => cached.figures = GetSummary
      /\ view \in View
  BY DEF ViewsInv, ViewsTypeOK, CachedIsCurrent, CachedType, Open, CountRows, FetchPage, Close
<1>1. CASE Open(v)
  <2>1. CASE view \in ListView
    <3> DEFINE x == [Idle EXCEPT !.step = "count", !.page = 1, !.steady = Shown]
    <3>1. Read(v, x)
      BY <1>1, <2>1 DEF Open
    <3>2. ReadingIsRight(x) /\ x \in Reading
      BY <1>0, <2>1, OpenStartsListReading DEF ReadingIsRight, FiguresReading, ListView
    <3> HIDE DEF x
    <3> QED
      BY <1>0, <3>1, <3>2, ReaderSteps
  <2>2. CASE view \notin ListView
    <3> DEFINE x == [Idle EXCEPT !.step = "totals"]
    <3>1. Read(v, x)
      BY <1>1, <2>2 DEF Open
    <3>2. x \in Reading
      BY IdleIsRight DEF Reading
    <3>3. x.step = "totals" /\ x.totals = NoFigures /\ x.series = NoFigures /\ x.rest = NoFigures
          /\ x.put = FALSE
      BY DEF Idle
    <3>4. ReadingIsRight(x)
      BY <2>2, <3>3 DEF ReadingIsRight, FiguresReading
    <3> HIDE DEF x
    <3> QED
      BY <1>0, <3>1, <3>2, <3>4, ReaderSteps
  <2> QED
    BY <2>1, <2>2
<1>2. CASE CountRows(v)
  <2> DEFINE x == [w EXCEPT !.step = "rows", !.total = Cardinality(Shown), !.late = FALSE]
  <2>1. Read(v, x) /\ w.step = "count"
    BY <1>2 DEF CountRows
  <2>2. view \in ListView
    BY <1>0, <2>1 DEF ReadingIsRight, FiguresReading, View
  <2>3. ListReading(x)
    BY <1>0, <2>1, <2>2, CountKeepsListReading DEF ReadingIsRight
  <2>4. x \in Reading
    BY <1>0, ShownIsFinite DEF Reading
  <2>5. ReadingIsRight(x)
    BY <2>2, <2>3 DEF ReadingIsRight, FiguresReading, ListView
  <2> HIDE DEF x
  <2> QED
    BY <1>0, <2>1, <2>4, <2>5, ReaderSteps
<1>3. CASE FetchPage(v)
  <2> DEFINE last == w.page * PageSize >= w.total
             x == [w EXCEPT !.rows = @ \o PageInOrder(w.page),
                            !.step = IF last THEN "done" ELSE "count",
                            !.page = IF last THEN @ ELSE @ + 1]
  <2>1. Read(v, x) /\ w.step = "rows"
    BY <1>3 DEF FetchPage
  <2>2. view \in ListView
    BY <1>0, <2>1 DEF ReadingIsRight, FiguresReading, View
  <2>3. ListReading(x) /\ x \in Reading
    <3>1. ListReading(w)
      BY <1>0, <2>2 DEF ReadingIsRight
    <3> HIDE DEF w
    <3>2. x = [w EXCEPT !.rows = @ \o PageInOrder(w.page),
                        !.step = IF w.page * PageSize >= w.total THEN "done" ELSE "count",
                        !.page = IF w.page * PageSize >= w.total THEN @ ELSE @ + 1]
      OBVIOUS
    <3> HIDE DEF x
    <3>3. w \in Reading /\ ViewsTypeOK /\ w.step = "rows"
      BY <1>0, <2>1
    <3> QED
      BY <3>1, <3>2, <3>3, FetchKeepsListReading
  <2>4. ReadingIsRight(x)
    BY <2>2, <2>3 DEF ReadingIsRight, FiguresReading, ListView
  <2> HIDE DEF x
  <2> QED
    BY <1>0, <2>1, <2>3, <2>4, ReaderSteps
<1>4. CASE Close(v)
  <2>1. Read(v, Idle)
    BY <1>4 DEF Close
  <2> QED
    BY <1>0, <2>1, IdleIsRight, ReaderSteps
<1> QED
  BY <1>1, <1>2, <1>3, <1>4

RestIsRight(w) ==
  w.series \in {NoFigures, MonthTotals} /\ w.rest \in {NoFigures} \cup GetTopCategories

(* The dashboard's requests, and the chat's three statements.              *)
LEMMA FigureSteps ==
  ASSUME ViewsInv, NEW v \in Viewer,
         \/ SummaryHit(v) \/ SummaryMiss(v) \/ PutSummary(v) \/ ReadSeries(v)
         \/ ReadTopCategories(v) \/ ShowDashboard(v) \/ GetFinancialContext(v)
  PROVE  ViewsInv'
<1> DEFINE w == viewer[v]
           S == GetSummary
<1>0. /\ ViewsTypeOK /\ w \in Reading /\ ReadingIsRight(w) /\ cached \in CachedType
      /\ cached # NoFigures /\ ~cached.dirty => cached.figures = S
  BY DEF ViewsInv, ViewsTypeOK, CachedIsCurrent, CachedType
<1>1. S \in Figures /\ MonthTotals \in Figures /\ GetTopCategories \subseteq Figures
  BY <1>0, FiguresAreFigures
<1>2. RecentTx \in Figures /\ BudgetsSpent \in Figures
  BY <1>0, FiguresAreFigures
<1>3. /\ w.totals \in Figures \cup {NoFigures} /\ w.series \in Figures \cup {NoFigures}
      /\ w.rest \in Figures \cup {NoFigures} /\ w.dirty \in BOOLEAN /\ w.put \in BOOLEAN
  BY <1>0 DEF Reading
<1>4. view = "dashboard" => view \notin ListView /\ view # "chat"
  BY DEF ListView
<1>5. view = "chat" => view \notin ListView /\ view # "dashboard"
  BY DEF ListView
<1>6. ASSUME view = "dashboard", w.step = "totals"
      PROVE  /\ ~w.dirty => /\ w.totals \in {NoFigures, S} /\ RestIsRight(w)
                            /\ w.put => w.totals = S
             /\ w.put => w.totals \in Figures
  BY <1>0, <1>6 DEF ReadingIsRight, FiguresReading, RestIsRight
<1> HIDE DEF S
<1>7. SummaryHit(v) => ViewsInv'
  <2> SUFFICES ASSUME SummaryHit(v) PROVE ViewsInv'
    OBVIOUS
  <2> DEFINE x == [w EXCEPT !.totals = cached.figures, !.dirty = @ \/ cached.dirty]
  <2>1. /\ view = "dashboard" /\ w.step = "totals" /\ w.totals = NoFigures /\ cached # NoFigures
        /\ Read(v, x) /\ cached' = cached
    BY DEF SummaryHit, Opened
  <2>2. cached \in [figures : Figures, dirty : BOOLEAN]
    BY <1>0, <2>1 DEF CachedType
  <2>3. /\ x \in Reading /\ x.step = "totals" /\ x.totals = cached.figures
        /\ x.series = w.series /\ x.rest = w.rest /\ x.put = w.put
    BY <1>0, <2>1, <2>2 DEF Reading
  <2>f. x.totals \in Figures
    BY <2>2, <2>3
  <2>4. x.dirty = (w.dirty \/ cached.dirty)
    BY <1>0 DEF Reading
  <2> HIDE DEF x
  <2>5. ReadingIsRight(x)
    <3>1. ~x.dirty => x.totals = S /\ RestIsRight(x)
      BY <1>0, <1>6, <2>1, <2>3, <2>4 DEF RestIsRight
    <3> QED
      BY <1>4, <2>1, <2>3, <2>f, <3>1 DEF ReadingIsRight, FiguresReading, RestIsRight, S
  <2> QED
    BY <1>0, <2>1, <2>3, <2>5, ReaderSteps DEF S
<1>8. SummaryMiss(v) => ViewsInv'
  <2> SUFFICES ASSUME SummaryMiss(v) PROVE ViewsInv'
    OBVIOUS
  <2> DEFINE x == [w EXCEPT !.totals = S, !.put = TRUE]
  <2>1. view = "dashboard" /\ w.step = "totals" /\ Read(v, x) /\ cached' = cached
    BY DEF SummaryMiss, Opened, S
  <2>2. /\ x \in Reading /\ x.step = "totals" /\ x.totals = S /\ x.series = w.series
        /\ x.rest = w.rest /\ x.dirty = w.dirty
    BY <1>0, <1>1, <2>1 DEF Reading
  <2> HIDE DEF x
  <2>3. ReadingIsRight(x)
    <3>1. ~x.dirty => RestIsRight(x)
      BY <1>6, <2>1, <2>2 DEF RestIsRight
    <3> QED
      BY <1>1, <1>4, <2>1, <2>2, <3>1 DEF ReadingIsRight, FiguresReading, RestIsRight, S
  <2> QED
    BY <1>0, <2>1, <2>2, <2>3, ReaderSteps DEF S
<1>9. PutSummary(v) => ViewsInv'
  <2> SUFFICES ASSUME PutSummary(v) PROVE ViewsInv'
    OBVIOUS
  <2> DEFINE x == [w EXCEPT !.put = FALSE]
  <2>1. /\ view = "dashboard" /\ w.step = "totals" /\ w.put /\ Read(v, x)
        /\ cached' = [figures |-> w.totals, dirty |-> w.dirty]
    BY DEF PutSummary, Opened
  <2>2. /\ x \in Reading /\ x.step = "totals" /\ x.totals = w.totals /\ x.series = w.series
        /\ x.rest = w.rest /\ x.dirty = w.dirty /\ x.put = FALSE
    BY <1>0, <2>1 DEF Reading
  <2> HIDE DEF x
  <2>3. ReadingIsRight(x)
    <3>1. ~x.dirty => x.totals \in {NoFigures, S} /\ RestIsRight(x)
      BY <1>6, <2>1, <2>2 DEF RestIsRight
    <3> QED
      BY <1>4, <2>1, <2>2, <3>1 DEF ReadingIsRight, FiguresReading, RestIsRight, S
  <2>4. cached' \in CachedType
    <3>1. w.totals \in Figures
      BY <1>6, <2>1
    <3> QED
      BY <1>3, <2>1, <3>1 DEF CachedType
  <2>5. cached' # NoFigures /\ ~cached'.dirty => cached'.figures = S
    BY <1>6, <2>1
  <2> QED
    BY <2>1, <2>2, <2>3, <2>4, <2>5, ReaderSteps DEF S
<1>10. ReadSeries(v) => ViewsInv'
  <2> SUFFICES ASSUME ReadSeries(v) PROVE ViewsInv'
    OBVIOUS
  <2> DEFINE all == [k \in Kind |-> UNION {p.point[k] : p \in GetDailySeries}]
             x == [w EXCEPT !.series = all]
  <2>1. view = "dashboard" /\ w.step = "totals" /\ Read(v, x) /\ cached' = cached
    BY DEF ReadSeries, Opened
  <2>2. all = MonthTotals
    <3> DEFINE point == [day |-> ThisMonth, point |-> MonthTotals]
    <3>1. GetDailySeries = {point}
      BY DEF GetDailySeries, MonthTotals
    <3>2. point.point = MonthTotals
      OBVIOUS
    <3> HIDE DEF point
    <3>3. all = [k \in Kind |-> MonthTotals[k]]
      BY <3>1, <3>2
    <3>4. MonthTotals = [k \in Kind |-> MonthTotals[k]]
      BY <1>1 DEF Figures
    <3> QED
      BY <3>3, <3>4
  <2>3. /\ x \in Reading /\ x.step = "totals" /\ x.totals = w.totals /\ x.series = MonthTotals
        /\ x.rest = w.rest /\ x.dirty = w.dirty /\ x.put = w.put
    <3> HIDE DEF all
    <3> QED
      BY <1>0, <1>1, <2>1, <2>2 DEF Reading
  <2> HIDE DEF x
  <2>4. ReadingIsRight(x)
    <3>1. ~x.dirty => /\ x.totals \in {NoFigures, S} /\ RestIsRight(x)
                      /\ x.put => x.totals = S
      BY <1>6, <2>1, <2>3 DEF RestIsRight
    <3>2. x.put => x.totals \in Figures
      BY <1>6, <2>1, <2>3
    <3> QED
      BY <1>4, <2>1, <2>3, <3>1, <3>2 DEF ReadingIsRight, FiguresReading, RestIsRight, S
  <2> QED
    BY <1>0, <2>1, <2>3, <2>4, ReaderSteps DEF S
<1>11. ReadTopCategories(v) => ViewsInv'
  <2> SUFFICES ASSUME ReadTopCategories(v) PROVE ViewsInv'
    OBVIOUS
  <2>0. PICK top \in GetTopCategories : Read(v, [w EXCEPT !.rest = top])
    BY DEF ReadTopCategories
  <2> DEFINE x == [w EXCEPT !.rest = top]
  <2>1. view = "dashboard" /\ w.step = "totals" /\ Read(v, x) /\ cached' = cached
    BY <2>0 DEF ReadTopCategories, Opened
  <2>2. /\ x \in Reading /\ x.step = "totals" /\ x.totals = w.totals /\ x.series = w.series
        /\ x.rest = top /\ x.dirty = w.dirty /\ x.put = w.put
    BY <1>0, <1>1, <2>1 DEF Reading
  <2> HIDE DEF x
  <2>3. ReadingIsRight(x)
    <3>1. ~x.dirty => /\ x.totals \in {NoFigures, S} /\ RestIsRight(x)
                      /\ x.put => x.totals = S
      BY <1>6, <2>1, <2>2 DEF RestIsRight
    <3>2. x.put => x.totals \in Figures
      BY <1>6, <2>1, <2>2
    <3> QED
      BY <1>4, <2>1, <2>2, <3>1, <3>2 DEF ReadingIsRight, FiguresReading, RestIsRight, S
  <2> QED
    BY <1>0, <2>1, <2>2, <2>3, ReaderSteps DEF S
<1>12. ShowDashboard(v) => ViewsInv'
  <2> SUFFICES ASSUME ShowDashboard(v) PROVE ViewsInv'
    OBVIOUS
  <2> DEFINE x == [w EXCEPT !.step = "done"]
  <2>1. /\ view = "dashboard" /\ w.step = "totals" /\ Read(v, x) /\ cached' = cached
        /\ w.totals # NoFigures /\ w.series # NoFigures /\ w.rest # NoFigures
    BY DEF ShowDashboard, Opened
  <2>2. /\ x \in Reading /\ x.step = "done" /\ x.totals = w.totals /\ x.series = w.series
        /\ x.rest = w.rest /\ x.dirty = w.dirty
    BY <1>0, <2>1 DEF Reading
  <2> HIDE DEF x
  <2>3. ReadingIsRight(x)
    <3>1. ~x.dirty => x.totals = S /\ x.series = MonthTotals /\ x.rest \in GetTopCategories
      BY <1>6, <2>1, <2>2 DEF RestIsRight
    <3>2. \A top \in GetTopCategories : TopFallsShort(S, top)
      BY <1>0, TopIsShort DEF S
    <3>3. \A k \in {"income", "expense"} : S[k] = MonthTotals[k]
      BY SumsAgree DEF S
    <3>4. ~x.dirty => DashboardAgrees(x)
      BY <3>1, <3>2, <3>3 DEF DashboardAgrees
    <3> QED
      BY <1>4, <2>1, <2>2, <3>4 DEF ReadingIsRight, FiguresReading
  <2> QED
    BY <1>0, <2>1, <2>2, <2>3, ReaderSteps DEF S
<1>13. GetFinancialContext(v) => ViewsInv'
  <2> SUFFICES ASSUME GetFinancialContext(v) PROVE ViewsInv'
    OBVIOUS
  <2>1. view = "chat" /\ cached' = cached
    BY DEF GetFinancialContext
  <2>2. CASE w.step = "totals" /\ Read(v, [w EXCEPT !.totals = MonthTotals, !.step = "series"])
    <3> DEFINE x == [w EXCEPT !.totals = MonthTotals, !.step = "series"]
    <3>1. x \in Reading /\ x.step = "series" /\ x.totals = MonthTotals
      BY <1>0, <1>1 DEF Reading
    <3>2. Read(v, x)
      BY <2>2
    <3> HIDE DEF x
    <3>3. ReadingIsRight(x)
      BY <1>5, <2>1, <3>1 DEF ReadingIsRight, FiguresReading
    <3> QED
      BY <1>0, <2>1, <3>1, <3>2, <3>3, ReaderSteps DEF S
  <2>3. CASE w.step = "series" /\ Read(v, [w EXCEPT !.series = RecentTx, !.step = "rest"])
    <3> DEFINE x == [w EXCEPT !.series = RecentTx, !.step = "rest"]
    <3>1. /\ x \in Reading /\ x.step = "rest" /\ x.series = RecentTx /\ x.totals = w.totals
          /\ x.dirty = w.dirty
      BY <1>0, <1>2 DEF Reading
    <3>2. Read(v, x)
      BY <2>3
    <3>3. ~w.dirty => w.totals = MonthTotals
      BY <1>0, <2>1, <2>3 DEF ReadingIsRight, FiguresReading
    <3> HIDE DEF x
    <3>4. ReadingIsRight(x)
      BY <1>5, <2>1, <3>1, <3>3 DEF ReadingIsRight, FiguresReading
    <3> QED
      BY <1>0, <2>1, <3>1, <3>2, <3>4, ReaderSteps DEF S
  <2>4. CASE w.step = "rest" /\ Read(v, [w EXCEPT !.rest = BudgetsSpent, !.step = "done"])
    <3> DEFINE x == [w EXCEPT !.rest = BudgetsSpent, !.step = "done"]
    <3>1. /\ x \in Reading /\ x.step = "done" /\ x.rest = BudgetsSpent /\ x.series = w.series
          /\ x.totals = w.totals /\ x.dirty = w.dirty
      BY <1>0, <1>2 DEF Reading
    <3>2. Read(v, x)
      BY <2>4
    <3>3. ~w.dirty => w.totals = MonthTotals /\ w.series = RecentTx
      BY <1>0, <2>1, <2>4 DEF ReadingIsRight, FiguresReading
    <3> HIDE DEF x
    <3>4. ~x.dirty => ChatAgrees(x)
      BY <1>0, <3>1, <3>3, SumsAgree, RecentIsShort DEF ChatAgrees
    <3>5. ReadingIsRight(x)
      BY <1>5, <2>1, <3>1, <3>3, <3>4 DEF ReadingIsRight, FiguresReading
    <3> QED
      BY <1>0, <2>1, <3>1, <3>2, <3>5, ReaderSteps DEF S
  <2> QED
    BY <2>1, <2>2, <2>3, <2>4 DEF GetFinancialContext
<1> QED
  BY <1>7, <1>8, <1>9, <1>10, <1>11, <1>12, <1>13

(* At first there is no row and nobody reads.                              *)
LEMMA ViewsInitInv == ViewsInit => ViewsInv
<1> SUFFICES ASSUME ViewsInit PROVE ViewsInv
  OBVIOUS
<1>1. ViewsTypeOK
  <2>1. SomeGroup \in Group
    BY ViewConstants DEF SomeGroup
  <2> QED
    BY <2>1, IdleIsRight DEF ViewsInit, ViewsTypeOK, Day, ThisMonth
<1>2. CachedIsCurrent
  BY DEF ViewsInit, CachedIsCurrent
<1>3. \A v \in Viewer : viewer[v] = Idle
  BY DEF ViewsInit
<1> QED
  BY <1>1, <1>2, <1>3, IdleIsRight DEF ViewsInv

(* Every action keeps the invariant of the views.                          *)
LEMMA ViewsInvStep == ViewsInv /\ [ViewsNext]_viewsVars => ViewsInv'
<1> SUFFICES ASSUME ViewsInv, [ViewsNext]_viewsVars PROVE ViewsInv'
  OBVIOUS
<1>1. ASSUME NEW r \in ViewRow,
             \/ \E day \in Day, group \in Group : Appear(r, day, group)
             \/ MarkRead(r) \/ Remove(r)
             \/ \E day \in Day : Redate(r, day)
      PROVE  ViewsInv'
  BY <1>1, RowSteps
<1>2. ASSUME NEW v \in Viewer, ViewerStep(v) PROVE ViewsInv'
  BY <1>2, ListSteps, FigureSteps DEF ViewerStep
<1>3. CASE UNCHANGED viewsVars
  <2>1. UNCHANGED <<view, viewRows, cached, viewer>>
    BY <1>3 DEF viewsVars
  <2>2. \A v \in Viewer : ReadingIsRight(viewer[v])'
    BY <2>1, StillRows DEF ViewsInv
  <2>3. CachedIsCurrent'
    BY <2>1 DEF ViewsInv, CachedIsCurrent, GetSummary, MonthsOf, InMonth, OfKind, Shown
  <2> QED
    BY <2>1, <2>2, <2>3 DEF ViewsInv, ViewsTypeOK
<1>4. CASE ExpireSummary
  <2>1. UNCHANGED <<view, viewRows, viewer>> /\ cached' = NoFigures
    BY <1>4 DEF ExpireSummary
  <2>2. \A v \in Viewer : ReadingIsRight(viewer[v])'
    BY <2>1, StillRows DEF ViewsInv
  <2> QED
    BY <2>1, <2>2 DEF ViewsInv, ViewsTypeOK, CachedIsCurrent
<1> HIDE DEF ViewsInv
<1> QED
  BY <1>1, <1>2, <1>3, <1>4 DEF ViewsNext

(* A row that is in a sequence at most once is there no time or one.       *)
LEMMA TimesAre ==
  ASSUME NEW s \in Seq(ViewRow), NEW r
  PROVE  /\ Times(r, s) = 0 <=> ~Among(r, s)
         /\ AtMostOnce(r, s) /\ Among(r, s) => Times(r, s) = 1
<1> DEFINE at == {n \in DOMAIN s : s[n] = r}
<1>1. DOMAIN s = 1 .. Len(s) /\ Len(s) \in Nat
  BY LenProperties
<1>2. IsFiniteSet(at)
  <2>1. IsFiniteSet(1 .. Len(s))
    BY <1>1, FS_Interval
  <2> QED
    BY <1>1, <2>1, FS_Subset
<1>3. Times(r, s) = Cardinality(at)
  BY DEF Times
<1>4. Among(r, s) <=> at # {}
  BY <1>1 DEF Among
<1>5. Cardinality(at) = 0 <=> at = {}
  BY <1>2, FS_EmptySet
<1>6. ASSUME AtMostOnce(r, s), at # {} PROVE Cardinality(at) = 1
  <2>1. PICK n : n \in at
    BY <1>6
  <2>2. at = {n}
    BY <1>1, <1>6, <2>1 DEF AtMostOnce
  <2> QED
    BY <2>2, FS_Singleton
<1> HIDE DEF at
<1> QED
  BY <1>3, <1>4, <1>5, <1>6

(* The invariant is more than the property.                                *)
LEMMA ViewsInvExplains == ViewsInv => ViewsAreExplained
<1> SUFFICES ASSUME ViewsInv PROVE ViewsAreExplained
  OBVIOUS
<1>1. FiguresAgree
  <2> SUFFICES ASSUME NEW v \in Viewer, viewer[v].step = "done", ~viewer[v].dirty
               PROVE  LET w == viewer[v]
                      IN /\ view = "dashboard" => DashboardAgrees(w)
                         /\ view = "chat" => ChatAgrees(w)
    BY DEF FiguresAgree, DashboardAgrees, ChatAgrees
  <2>1. FiguresReading(viewer[v])
    BY DEF ViewsInv, ReadingIsRight
  <2> QED
    BY <2>1 DEF FiguresReading
<1>2. PagesAreExplained
  <2> SUFFICES ASSUME NEW v \in Viewer, viewer[v].step = "done", view \in ListView
               PROVE  LET w == viewer[v]
                          kept == {r \in w.steady : \A k \in w.went : k.born # r}
                      IN /\ \A r \in kept : Times(r, w.rows) = 0 =>
                              w.late \/ \E k \in w.went : Before(k, Key(r))
                         /\ \A r \in kept : Times(r, w.rows) > 1 =>
                              \E k \in w.came : Before(k, Key(r))
                         /\ ~w.dirty => Len(w.rows) = w.total
                                        /\ \A r \in w.steady : Times(r, w.rows) = 1
    BY DEF PagesAreExplained
  <2> DEFINE w == viewer[v]
             kept == {r \in w.steady : \A k \in w.went : k.born # r}
  <2>1. ListReading(w) /\ w.step = "done" /\ w.rows \in Seq(ViewRow)
    BY DEF ViewsInv, ReadingIsRight, ViewsTypeOK, Reading
  <2>2. kept = Kept(w)
    BY DEF Kept
  <2>3. \A r \in kept : /\ Among(r, w.rows) \/ LeftBefore(w, r) \/ w.late
                        /\ AtMostOnce(r, w.rows) \/ CameBefore(w, r)
    BY <2>1, <2>2 DEF ListReading, NoneMissed, SeenOnce
  <2>4. ~w.dirty => w.came = {} /\ w.went = {} /\ ~w.late /\ Len(w.rows) = w.total
    BY <2>1 DEF ListReading, QuietList
  <2>5. ASSUME NEW r
        PROVE  /\ Times(r, w.rows) = 0 => ~Among(r, w.rows)
               /\ AtMostOnce(r, w.rows) => ~(Times(r, w.rows) > 1)
               /\ AtMostOnce(r, w.rows) /\ Among(r, w.rows) => Times(r, w.rows) = 1
    <3>1. AtMostOnce(r, w.rows) => Times(r, w.rows) = 0 \/ Times(r, w.rows) = 1
      BY <2>1, TimesAre
    <3> QED
      BY <2>1, <3>1, TimesAre
  <2>6. ~w.dirty => \A r \in w.steady : r \in kept /\ ~LeftBefore(w, r) /\ ~CameBefore(w, r)
    BY <2>4 DEF LeftBefore, CameBefore
  <2>7. \A r : /\ LeftBefore(w, r) <=> \E k \in w.went : Before(k, Key(r))
               /\ CameBefore(w, r) <=> \E k \in w.came : Before(k, Key(r))
    BY DEF LeftBefore, CameBefore
  <2> HIDE DEF kept, w
  <2>8. \A r \in kept : Times(r, w.rows) = 0 => w.late \/ LeftBefore(w, r)
    BY <2>3, <2>5
  <2>9. \A r \in kept : Times(r, w.rows) > 1 => CameBefore(w, r)
    BY <2>3, <2>5
  <2>10. ~w.dirty => Len(w.rows) = w.total /\ \A r \in w.steady : Times(r, w.rows) = 1
    BY <2>3, <2>4, <2>5, <2>6
  <2> QED
    BY <2>7, <2>8, <2>9, <2>10 DEF kept, w
<1> QED
  BY <1>1, <1>2 DEF ViewsAreExplained

(* For any readers, rows, page size and number of writes: a row that was   *)
(* there all along is missed or shown twice only for a row that left or    *)
(* came before it, and figures that are read together agree unless         *)
(* something was written meanwhile, the top categories and the latest rows *)
(* leaving out only what is beyond their limits.                           *)
THEOREM ViewsAreAccounted == ViewsSpec => []ViewsAreExplained
BY ViewsInitInv, ViewsInvStep, ViewsInvExplains, PTL DEF ViewsSpec
=============================================================================
