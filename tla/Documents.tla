----------------------------- MODULE Documents ------------------------------
(***************************************************************************)
(* Reports and receipt scans: a row that says open ("queued",              *)
(* "processing") is inserted first, the work is done within the request,   *)
(* an object is put, and a last transaction says how it ended.  Errors of  *)
(* that last transaction after a failure are ignored.  Deleting a report   *)
(* removes the object and then the row; deleting scans removes rows only.  *)
(***************************************************************************)
EXTENDS FiniteSets

CONSTANTS Document, DocRequest, NoDocument

ASSUME DocumentConstants == NoDocument \notin Document

VARIABLES
  docs,          \* finance_reports and finance_receipt_scans
  docObjects,    \* documents whose object is stored
  docreq,        \* requests between their steps
  halfDeleted,   \* reports whose deletion stopped, or is, after the object, for the property
  unnamed        \* documents cut off in or after the put, or deleted while made, for the
                 \* property

documentVars == <<docs, docObjects, docreq, halfDeleted, unnamed>>

NoDocumentRow == [state |-> "none", kind |-> "report"]
DocIdle == [step |-> "idle", doc |-> NoDocument]

DocumentTypeOK ==
  /\ docs \in [Document -> [state : {"none", "open", "done", "failed"},
                            kind : {"report", "receipt"}]]
  /\ docObjects \in SUBSET Document
  /\ docreq \in [DocRequest ->
        [step : {"idle", "work", "put", "finish", "fail", "dropObject", "dropRow"},
         doc : Document \cup {NoDocument}]]
  /\ {halfDeleted, unnamed} \subseteq SUBSET Document

DocumentInit ==
  /\ docs = [d \in Document |-> NoDocumentRow]
  /\ docObjects = {}
  /\ docreq = [r \in DocRequest |-> DocIdle]
  /\ halfDeleted = {}
  /\ unnamed = {}

DocStep(r, s) == docreq' = [docreq EXCEPT ![r].step = s]

DocEnds(r) == docreq' = [docreq EXCEPT ![r] = DocIdle]

InTheMaking(d) ==
  \E r \in DocRequest : docreq[r].doc = d /\ docreq[r].step \in {"work", "put", "finish"}

HasRow(d) == docs[d].state # "none"

-----------------------------------------------------------------------------
(* CreateTransactionsReport and ScanReceipt                                *)

(* A new id: what a row that is gone has left under d is forgotten.        *)
CreateDocument(r, d, kind) ==
  /\ docreq[r].step = "idle"
  /\ docs[d].state = "none"
  /\ \A q \in DocRequest : docreq[q].doc # d
  /\ docs' = [docs EXCEPT ![d] = [state |-> "open", kind |-> kind]]
  /\ docreq' = [docreq EXCEPT ![r] =
        [step |-> IF kind = "report" THEN "work" ELSE "put", doc |-> d]]
  /\ docObjects' = docObjects \ {d}
  /\ halfDeleted' = halfDeleted \ {d}
  /\ unnamed' = unnamed \ {d}

(* The export of a report, put afterwards; the providers of a scan, asked  *)
(* one after the other until one answers, after the image was put.         *)
DoWork(r) ==
  LET next == IF docs[docreq[r].doc].kind = "report" THEN "put" ELSE "finish"
  IN  /\ docreq[r].step = "work"
      /\ DocStep(r, next) \/ DocStep(r, "fail")
      /\ UNCHANGED <<docs, docObjects, halfDeleted, unnamed>>

(* Mutant: the error of a report's Put is ignored as a scan's is. *)
PutDocument_Ignored(r) ==
  LET d == docreq[r].doc
  IN  /\ docreq[r].step = "put"
      /\ docObjects' \in {docObjects, docObjects \cup {d}}
      /\ DocStep(r, IF docs[d].kind = "report" THEN "finish" ELSE "work")
      /\ UNCHANGED <<docs, halfDeleted, unnamed>>

(* A put that fails while it copies leaves a file that is cut short.       *)
PutDocument(r) ==
  LET d == docreq[r].doc
  IN  /\ docreq[r].step = "put"
      /\ \/ /\ docObjects' = docObjects \cup {d}
            /\ DocStep(r, IF docs[d].kind = "report" THEN "finish" ELSE "work")
            /\ UNCHANGED unnamed
         \/ /\ DocStep(r, IF docs[d].kind = "report" THEN "fail" ELSE "work")
            /\ \/ UNCHANGED <<docObjects, unnamed>>
               \/ docObjects' = docObjects \cup {d} /\ unnamed' = unnamed \cup {d}
      /\ UNCHANGED <<docs, halfDeleted>>

(* UPDATE ... RETURNING: a row that was deleted meanwhile is an error.     *)
FinishDocument(r) ==
  LET d == docreq[r].doc
  IN  /\ docreq[r].step \in {"finish", "fail"}
      /\ HasRow(d)
      /\ docs' = [docs EXCEPT ![d].state =
            IF docreq[r].step = "finish" THEN "done" ELSE "failed"]
      /\ DocEnds(r)
      /\ UNCHANGED <<docObjects, halfDeleted, unnamed>>

(* An error, the request's timeout, or a restart at any step.              *)
DocRequestDies(r) ==
  /\ docreq[r].step # "idle"
  /\ unnamed' = IF docreq[r].step = "finish" THEN unnamed \cup {docreq[r].doc} ELSE unnamed
  /\ DocEnds(r)
  /\ UNCHANGED <<docs, docObjects, halfDeleted>>

-----------------------------------------------------------------------------
(* Deleting                                                                *)

(* The report is read; only a finished one names an object.                *)
ReadReport(r, d) ==
  /\ docreq[r].step = "idle"
  /\ HasRow(d) /\ docs[d].kind = "report"
  /\ docreq' = [docreq EXCEPT ![r] =
        [step |-> IF docs[d].state = "done" THEN "dropObject" ELSE "dropRow", doc |-> d]]
  /\ UNCHANGED <<docs, docObjects, halfDeleted, unnamed>>

DropObject(r) ==
  LET d == docreq[r].doc
  IN  /\ docreq[r].step = "dropObject"
      /\ docObjects' = docObjects \ {d}
      /\ halfDeleted' = halfDeleted \cup {d}
      /\ DocStep(r, "dropRow")
      /\ UNCHANGED <<docs, unnamed>>

(* The report may have been finished since it was read.                    *)
DropRow(r) ==
  LET d == docreq[r].doc
  IN  /\ docreq[r].step = "dropRow"
      /\ docs' = [docs EXCEPT ![d] = NoDocumentRow]
      /\ unnamed' = IF d \notin halfDeleted /\ (InTheMaking(d) \/ docs[d].state = "done")
                     THEN unnamed \cup {d} ELSE unnamed
      /\ DocEnds(r)
      /\ UNCHANGED <<docObjects, halfDeleted>>

(* DeleteReceiptScan and ClearReceiptScans leave the images.               *)
DeleteScans(some) ==
  /\ some # {}
  /\ \A d \in some : HasRow(d) /\ docs[d].kind = "receipt"
  /\ Cardinality(some) = 1
       \/ some = {d \in Document : HasRow(d) /\ docs[d].kind = "receipt"}
  /\ docs' = [d \in Document |-> IF d \in some THEN [docs[d] EXCEPT !.state = "none"] ELSE docs[d]]
  /\ UNCHANGED <<docObjects, docreq, halfDeleted, unnamed>>

DocumentNext ==
  \/ \E r \in DocRequest, d \in Document, kind \in {"report", "receipt"} :
       CreateDocument(r, d, kind)
  \/ \E r \in DocRequest :
       \/ DoWork(r) \/ PutDocument(r) \/ FinishDocument(r) \/ DocRequestDies(r)
       \/ DropObject(r) \/ DropRow(r)
  \/ \E r \in DocRequest, d \in Document : ReadReport(r, d)
  \/ \E some \in SUBSET Document : DeleteScans(some)

DocumentSpec == DocumentInit /\ [][DocumentNext]_documentVars

-----------------------------------------------------------------------------
(* Properties                                                              *)

(* A report that can be downloaded has its object unless its deletion got  *)
(* no further than the object, and an object without a row is a scan's     *)
(* image or belongs to a report that was deleted while it was made, whose  *)
(* put failed half-way, or whose making was cut off between the put and    *)
(* the last transaction.                                                   *)
DocumentsAccounted ==
  \A d \in Document :
    /\ docs[d].kind = "report" /\ docs[d].state = "done" => d \in docObjects \cup halfDeleted
    /\ docs[d].kind = "report" /\ ~HasRow(d) /\ d \in docObjects => d \in unnamed
=============================================================================
