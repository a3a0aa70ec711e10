------------------------------ MODULE FileScan ------------------------------
(***************************************************************************)
(* Uploaded files: the requests of the API process that store, serve and   *)
(* delete them, the tables files and file_scan_jobs, the object store, and *)
(* the loop of each worker process that scans them.                        *)
(*                                                                         *)
(* A file is an attachment of a savings goal, budget or reminder unless it *)
(* is in TxnFile (attachment of a transaction, uploaded or taken from a    *)
(* receipt scan) or ProofFile (proof image of a reminder payment).         *)
(***************************************************************************)
EXTENDS Integers, FiniteSets

CONSTANTS
  File,         \* uploads; each gets a fresh file id and object key
  TxnFile, ProofFile,
  Infected,     \* files in which the scanner finds a signature
  Worker,       \* worker processes: each runs one scan loop
  NoFile,       \* what an idle worker holds
  MaxAttempts,  \* FILE_SCAN_MAX_ATTEMPTS
  Faults        \* the kinds of failure that may happen, see FaultKind

FaultKind == {"api crash", "worker crash", "insert error", "lost commit",
              "storage error", "worker db error"}

ASSUME ScanConstants ==
  /\ NoFile \notin File
  /\ TxnFile \subseteq File /\ ProofFile \subseteq File \ TxnFile
  /\ Infected \subseteq File
  /\ MaxAttempts \in Nat \ {0}   \* Config.Validate
  /\ Faults \subseteq FaultKind

VARIABLES
  \* the requests of the API process
  upc,         \* where the upload of each file is
  checked,     \* files whose download passed the check of the scan status
  dropping,    \* files whose rows are deleted and whose object is to go next
  \* the tables
  row,         \* the attachment with its files row
  scanStatus,  \* files.scan_status
  job,         \* file_scan_jobs.status, "none" without a job
  attempts,    \* file_scan_jobs.attempts
  \* the object store
  object,
  \* the worker processes
  wpc, wfile, wres,
  \* for the properties
  served,      \* files whose content a download returned
  byHand       \* files whose present scan status was set by a person

requestVars == <<upc, checked, dropping>>
jobVars     == <<job, attempts>>
workerVars  == <<wpc, wfile, wres>>
vars == <<requestVars, row, scanStatus, jobVars, object, workerVars, served, byHand>>

ScanStatus == {"pending", "clean", "infected", "failed"}

TypeOK ==
  /\ upc \in [File -> {"none", "put", "cleanup", "over"}]
  /\ checked \in SUBSET File
  /\ dropping \in SUBSET File
  /\ row \in [File -> {"absent", "live", "deleted"}]
  /\ scanStatus \in [File -> ScanStatus \cup {"none"}]
  /\ job \in [File -> {"none", "queued", "processing", "done", "failed"}]
  /\ attempts \in [File -> Nat]
  /\ object \in SUBSET File
  /\ wpc \in [Worker -> {"idle", "claimed", "outcome"}]
  /\ wfile \in [Worker -> File \cup {NoFile}]
  /\ wres \in [Worker -> {"none", "clean", "infected", "error"}]
  /\ served \in SUBSET File
  /\ byHand \in SUBSET File

Init ==
  /\ upc = [f \in File |-> "none"]
  /\ checked = {} /\ dropping = {}
  /\ row = [f \in File |-> "absent"]
  /\ scanStatus = [f \in File |-> "none"]
  /\ job = [f \in File |-> "none"]
  /\ attempts = [f \in File |-> 0]
  /\ object = {}
  /\ wpc = [w \in Worker |-> "idle"]
  /\ wfile = [w \in Worker |-> NoFile]
  /\ wres = [w \in Worker |-> "none"]
  /\ served = {} /\ byHand = {}

-----------------------------------------------------------------------------
(* Upload: the object first, then the rows                                 *)

UploadMoves(f, from, to) == upc[f] = from /\ upc' = [upc EXCEPT ![f] = to]

(* storage.Put; a failed one ends the request and may leave a partial      *)
(* object behind.                                                          *)
Put(f) ==
  /\ \/ UploadMoves(f, "none", "put") /\ object' = object \cup {f}
     \/ /\ "storage error" \in Faults
        /\ UploadMoves(f, "none", "over")
        /\ object' \in {object, object \cup {f}}
  /\ UNCHANGED <<checked, dropping, row, scanStatus, jobVars, workerVars, served, byHand>>

(* Mutants: the insert of an entity attachment sets clean as the others    *)
(* do, or the name of the job's status.                                    *)
InitialStatus_Clean(f) == "clean"
InitialStatus_Queued(f) == "queued"

(* scan_status of the inserted row: the column default, or 'clean' in the  *)
(* INSERT of transaction attachments and of payment proofs.                *)
InitialStatus(f) == IF f \in TxnFile \cup ProofFile THEN "clean" ELSE "pending"

(* One transaction: files row, attachment row and, except for payment      *)
(* proofs, the scan job.  The id is fresh, so the upsert inserts.          *)
InsertRows(f) ==
  /\ row' = [row EXCEPT ![f] = "live"]
  /\ scanStatus' = [scanStatus EXCEPT ![f] = InitialStatus(f)]
  /\ job' = [job EXCEPT ![f] = IF f \in ProofFile THEN "none" ELSE "queued"]

CreateRecord(f) ==
  /\ UploadMoves(f, "put", "over")
  /\ InsertRows(f)
  /\ UNCHANGED <<checked, dropping, attempts, object, workerVars, served, byHand>>

(* The transaction fails, or it commits and the answer is lost: an upload  *)
(* then removes its object; the payment of a proof just returns the error. *)
CreateRecordFails(f) ==
  /\ UploadMoves(f, "put", IF f \in ProofFile THEN "over" ELSE "cleanup")
  /\ \/ "insert error" \in Faults /\ UNCHANGED <<row, scanStatus, job>>
     \/ "lost commit" \in Faults /\ InsertRows(f)
  /\ UNCHANGED <<checked, dropping, attempts, object, workerVars, served, byHand>>

(* storage.Delete: an error is dropped. *)
DeleteObject(f) == \/ object' = object \ {f}
                   \/ "storage error" \in Faults /\ UNCHANGED object

Cleanup(f) ==
  /\ UploadMoves(f, "cleanup", "over")
  /\ DeleteObject(f)
  /\ UNCHANGED <<checked, dropping, row, scanStatus, jobVars, workerVars, served, byHand>>

-----------------------------------------------------------------------------
(* Download, delete, manual scan status                                    *)

(* Download reads the attachment and its scan status, and only later opens *)
(* the object.                                                             *)
Check(f) ==
  /\ row[f] = "live"
  /\ scanStatus[f] = "clean"
  /\ checked' = checked \cup {f}
  /\ UNCHANGED <<upc, dropping, row, scanStatus, jobVars, object, workerVars, served, byHand>>

Open(f) ==
  /\ f \in checked
  /\ checked' = checked \ {f}
  /\ \/ f \in object /\ served' = served \cup {f}
     \/ (f \notin object \/ "storage error" \in Faults) /\ UNCHANGED served
  /\ UNCHANGED <<upc, dropping, row, scanStatus, jobVars, object, workerVars, byHand>>

(* Mutant: the object is removed before the rows. *)
SoftDelete_ObjectFirst(f) ==
  /\ f \notin TxnFile
  /\ row[f] = "live"
  /\ dropping' = dropping \cup {f}
  /\ UNCHANGED <<upc, checked, row, scanStatus, jobVars, object, workerVars, served, byHand>>

(* SoftDeleteAttachment, one transaction; the object follows. *)
SoftDelete(f) ==
  /\ f \notin TxnFile
  /\ row[f] = "live"
  /\ row' = [row EXCEPT ![f] = "deleted"]
  /\ dropping' = dropping \cup {f}
  /\ UNCHANGED <<upc, checked, scanStatus, jobVars, object, workerVars, served, byHand>>

RemoveObject(f) ==
  /\ f \in dropping
  /\ dropping' = dropping \ {f}
  /\ DeleteObject(f)
  /\ UNCHANGED <<upc, checked, row, scanStatus, jobVars, workerVars, served, byHand>>

(* A deleted transaction takes its attachments out of every query; their   *)
(* files and objects stay.                                                 *)
DeleteTransaction(f) ==
  /\ f \in TxnFile
  /\ row[f] = "live"
  /\ row' = [row EXCEPT ![f] = "deleted"]
  /\ UNCHANGED <<requestVars, scanStatus, jobVars, object, workerVars, served, byHand>>

(* SetScanStatus exists for transaction attachments only. *)
SetScanStatus(f, s) ==
  /\ f \in TxnFile
  /\ row[f] = "live"
  /\ scanStatus' = [scanStatus EXCEPT ![f] = s]
  /\ byHand' = byHand \cup {f}
  /\ UNCHANGED <<requestVars, row, jobVars, object, workerVars, served>>

(* The API process stops with its requests. *)
CrashAPI ==
  /\ "api crash" \in Faults
  /\ upc' = [f \in File |-> IF upc[f] = "none" THEN "none" ELSE "over"]
  /\ checked' = {} /\ dropping' = {}
  /\ UNCHANGED <<row, scanStatus, jobVars, object, workerVars, served, byHand>>

-----------------------------------------------------------------------------
(* The worker: ProcessNext, on every tick                                  *)

(* Mutant: processing jobs are taken too. *)
Claimable_Processing(f) ==
  job[f] \in {"queued", "processing", "failed"} /\ attempts[f] < MaxAttempts

(* Which of the due jobs is the first depends on clock and retry delay;    *)
(* any may be.                                                             *)
Claimable(f) == job[f] \in {"queued", "failed"} /\ attempts[f] < MaxAttempts

(* Mutant: the attempt is not counted. *)
TakeJob_NoCount(f) == /\ Claimable(f)
                      /\ job' = [job EXCEPT ![f] = "processing"]
                      /\ UNCHANGED attempts

(* One statement selects, marks and counts: no other worker sees the job   *)
(* in between.                                                             *)
TakeJob(f) ==
  /\ Claimable(f)
  /\ job' = [job EXCEPT ![f] = "processing"]
  /\ attempts' = [attempts EXCEPT ![f] = @ + 1]

Claim(w) ==
  /\ wpc[w] = "idle"
  /\ \E f \in File : TakeJob(f) /\ wfile' = [wfile EXCEPT ![w] = f]
  /\ wpc' = [wpc EXCEPT ![w] = "claimed"]
  /\ UNCHANGED <<requestVars, row, scanStatus, object, wres, served, byHand>>

(* The statement commits and its answer is lost: the worker has no job. *)
ClaimLost(w) ==
  /\ "worker db error" \in Faults
  /\ wpc[w] = "idle"
  /\ \E f \in File : TakeJob(f)
  /\ UNCHANGED <<requestVars, row, scanStatus, object, workerVars, served, byHand>>

Verdict(f) == IF f \in Infected THEN "infected" ELSE "clean"

(* Open and Scan: the verdict on the object's content, or an error.        *)
Scan(w) ==
  /\ wpc[w] = "claimed"
  /\ \/ wfile[w] \in object /\ wres' = [wres EXCEPT ![w] = Verdict(wfile[w])]
     \/ /\ wfile[w] \notin object \/ Faults \cap {"storage error", "worker db error"} # {}
        /\ wres' = [wres EXCEPT ![w] = "error"]
  /\ wpc' = [wpc EXCEPT ![w] = "outcome"]
  /\ UNCHANGED <<requestVars, row, scanStatus, jobVars, object, wfile, served, byHand>>

ToIdle(w) ==
  /\ wpc' = [wpc EXCEPT ![w] = "idle"]
  /\ wfile' = [wfile EXCEPT ![w] = NoFile]
  /\ wres' = [wres EXCEPT ![w] = "none"]

(* UPDATE files by id, whether the row is deleted or not. *)
WriteStatus(f, s) ==
  /\ scanStatus' = [scanStatus EXCEPT ![f] = s]
  /\ byHand' = byHand \ {f}

(* markDone, one transaction over both tables. *)
MarkDone(w) ==
  /\ wpc[w] = "outcome" /\ wres[w] # "error"
  /\ WriteStatus(wfile[w], wres[w])
  /\ job' = [job EXCEPT ![wfile[w]] = "done"]
  /\ ToIdle(w)
  /\ UNCHANGED <<requestVars, row, attempts, object, served>>

(* Mutant: the last attempt is given up one too early. *)
MarkFailure_OneEarly(w) ==
  /\ wpc[w] = "outcome" /\ wres[w] = "error"
  /\ WriteStatus(wfile[w], "failed")
  /\ job' = [job EXCEPT ![wfile[w]] =
               IF attempts[wfile[w]] + 1 >= MaxAttempts THEN "failed" ELSE "queued"]
  /\ ToIdle(w)
  /\ UNCHANGED <<requestVars, row, attempts, object, served>>

(* markFailure, one transaction: the job waits for its next attempt or is  *)
(* given up; the file is failed in both cases.                             *)
MarkFailure(w) ==
  /\ wpc[w] = "outcome" /\ wres[w] = "error"
  /\ WriteStatus(wfile[w], "failed")
  /\ job' = [job EXCEPT ![wfile[w]] =
               IF attempts[wfile[w]] >= MaxAttempts THEN "failed" ELSE "queued"]
  /\ ToIdle(w)
  /\ UNCHANGED <<requestVars, row, attempts, object, served>>

(* The transaction of the outcome fails: ProcessNext ends, the job stays.  *)
OutcomeLost(w) ==
  /\ "worker db error" \in Faults
  /\ wpc[w] = "outcome"
  /\ ToIdle(w)
  /\ UNCHANGED <<requestVars, row, scanStatus, jobVars, object, served, byHand>>

(* The worker process stops at any point and starts again. *)
CrashWorker(w) ==
  /\ "worker crash" \in Faults
  /\ wpc[w] # "idle"
  /\ ToIdle(w)
  /\ UNCHANGED <<requestVars, row, scanStatus, jobVars, object, served, byHand>>

-----------------------------------------------------------------------------
UploadStep(f) == Put(f) \/ CreateRecord(f) \/ CreateRecordFails(f) \/ Cleanup(f)
RequestStep(f) == \/ Check(f) \/ Open(f) \/ SoftDelete(f) \/ RemoveObject(f)
                  \/ DeleteTransaction(f)
                  \/ \E s \in ScanStatus : SetScanStatus(f, s)
ProcessNext(w) == Claim(w) \/ Scan(w) \/ MarkDone(w) \/ MarkFailure(w)

Next ==
  \/ \E f \in File : UploadStep(f) \/ RequestStep(f)
  \/ CrashAPI
  \/ \E w \in Worker : ProcessNext(w) \/ ClaimLost(w) \/ OutcomeLost(w) \/ CrashWorker(w)

Spec == Init /\ [][Next]_vars

(* The ticker of every worker keeps calling ProcessNext (Service.Run). *)
FairSpec == Spec /\ \A w \in Worker : WF_vars(ProcessNext(w))
-----------------------------------------------------------------------------
(* Properties                                                              *)

EntityFile == File \ (TxnFile \cup ProofFile)

(* Two workers never scan the same job at the same time, and a worker only *)
(* has jobs marked processing: the claim is one statement (service.go 123). *)
OneScanAtATime ==
  \A w \in Worker : wpc[w] # "idle" =>
    /\ job[wfile[w]] = "processing"
    /\ \A v \in Worker : wfile[v] = wfile[w] => v = w

(* Queue and file agree, in spite of crashes, retries and manual changes:  *)
(* a finished job has left the scanner's verdict on its file, a job is     *)
(* only given up after all its attempts, with its file failed, unless a    *)
(* person has set the status since (markDone, markFailure).                *)
OutcomeAgrees ==
  \A f \in File :
    /\ job[f] = "done" => f \in byHand \/ scanStatus[f] = Verdict(f)
    /\ job[f] = "failed" => /\ attempts[f] = MaxAttempts
                            /\ f \in byHand \/ scanStatus[f] = "failed"

(* An attachment of a goal, budget or reminder is only ever served after   *)
(* its content was scanned and found clean, whatever runs between the      *)
(* check of its status and the opening of its object.                      *)
ServedWasScanned ==
  \A f \in served \cap EntityFile : job[f] = "done" /\ f \notin Infected

(* A visible attachment has its object: uploads store it first and remove  *)
(* it only when there are no rows, deletions remove the rows first.  Needs *)
(* inserts whose outcome is known ("lost commit" not in Faults).           *)
LiveHasObject == \A f \in File : row[f] = "live" => f \in object

(* The verdict on an entity attachment is never changed, by no retry, late *)
(* worker or request.                                                      *)
VerdictIsFinal ==
  [][\A f \in EntityFile : scanStatus[f] \in {"clean", "infected"}
       => scanStatus'[f] = scanStatus[f]]_vars

(* The scan queue is an abstract job queue for any number of workers: each *)
(* run uses up the insertion or one requeueing of markFailure.             *)
PhaseOf(f) == CASE job[f] = "none"       -> "absent"
                [] job[f] = "queued"     -> "waiting"
                [] job[f] = "processing" -> "running"
                [] OTHER                 -> "closed"

JQ == INSTANCE JobQueue WITH
        Job    <- File,
        phase  <- [f \in File |-> PhaseOf(f)],
        grants <- [f \in File |-> IF job[f] = "queued" THEN attempts[f] + 1 ELSE attempts[f]],
        runs   <- attempts

ImplementsJobQueue == JQ!JQSpec

(* Every queued file gets its verdict or is given up after its attempts,   *)
(* also when the object store fails again and again, as long as workers    *)
(* neither crash nor lose a database call.                                 *)
QueuedEnds == \A f \in File : job[f] = "queued" ~> job[f] \in {"done", "failed"}

(* What the documentation says and the code does not keep.                 *)

(* "upload of photos and receipts with automatic virus scanning", and the  *)
(* initial scan status of an upload is pending: nothing is served that was *)
(* neither scanned nor released by a person.                               *)
AllServedWereScanned == \A f \in served : job[f] = "done" \/ f \in byHand

(* "a virus scan queue for every uploaded file" *)
EveryUploadIsQueued == \A f \in File : row[f] = "live" => job[f] # "none"
=============================================================================
