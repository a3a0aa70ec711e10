--------------------------- MODULE FileScanProofs ---------------------------
(***************************************************************************)
(* Theorems about FileScan, for every set of files and worker processes,   *)
(* every limit of attempts and every set of faults.                        *)
(***************************************************************************)
EXTENDS FileScan, TLAPS

LEMMA InitType == Init => TypeOK
BY DEF Init, TypeOK

(* The claim keeps the types of the job's columns. *)
LEMMA TakeJobType ==
  ASSUME TypeOK, NEW f \in File, TakeJob(f)
  PROVE  /\ job' \in [File -> {"none", "queued", "processing", "done", "failed"}]
         /\ attempts' \in [File -> Nat]
<1>1. attempts[f] + 1 \in Nat
  BY DEF TypeOK
<1>2. QED
  BY <1>1 DEF TypeOK, TakeJob

LEMMA NextType == TypeOK /\ [Next]_vars => TypeOK'
<1> SUFFICES ASSUME TypeOK, [Next]_vars PROVE TypeOK'
  OBVIOUS
<1> USE DEF TypeOK, requestVars, jobVars, workerVars
<1>1. ASSUME NEW f \in File, UploadStep(f) PROVE TypeOK'
  <2>1. CASE Put(f)
    BY <2>1 DEF Put, UploadMoves
  <2>2. CASE CreateRecord(f)
    BY <2>2 DEF CreateRecord, UploadMoves, InsertRows, InitialStatus, ScanStatus
  <2>3. CASE CreateRecordFails(f)
    BY <2>3 DEF CreateRecordFails, UploadMoves, InsertRows, InitialStatus, ScanStatus
  <2>4. CASE Cleanup(f)
    BY <2>4 DEF Cleanup, UploadMoves, DeleteObject
  <2>5. QED
    BY <1>1, <2>1, <2>2, <2>3, <2>4 DEF UploadStep
<1>2. ASSUME NEW f \in File, RequestStep(f) PROVE TypeOK'
  <2>1. CASE Check(f)
    BY <2>1 DEF Check
  <2>2. CASE Open(f)
    BY <2>2 DEF Open
  <2>3. CASE SoftDelete(f)
    BY <2>3 DEF SoftDelete
  <2>4. CASE RemoveObject(f)
    BY <2>4 DEF RemoveObject, DeleteObject
  <2>5. CASE DeleteTransaction(f)
    BY <2>5 DEF DeleteTransaction
  <2>6. CASE \E s \in ScanStatus : SetScanStatus(f, s)
    BY <2>6 DEF SetScanStatus
  <2>7. QED
    BY <1>2, <2>1, <2>2, <2>3, <2>4, <2>5, <2>6 DEF RequestStep
<1>3. CASE CrashAPI
  BY <1>3 DEF CrashAPI
<1>4. ASSUME NEW w \in Worker, ProcessNext(w) \/ ClaimLost(w) \/ OutcomeLost(w) \/ CrashWorker(w)
      PROVE  TypeOK'
  <2>1. CASE Claim(w)
    BY <2>1, TakeJobType DEF Claim
  <2>2. CASE ClaimLost(w)
    BY <2>2, TakeJobType DEF ClaimLost
  <2>3. CASE Scan(w)
    BY <2>3 DEF Scan, Verdict
  <2>4. ASSUME MarkDone(w) \/ MarkFailure(w) PROVE TypeOK'
    <3>1. wfile[w] \in File \/ wfile[w] = NoFile
      OBVIOUS
    <3>2. CASE MarkDone(w)
      BY <3>2 DEF MarkDone, WriteStatus, ToIdle, ScanStatus
    <3>3. CASE MarkFailure(w)
      BY <3>3 DEF MarkFailure, WriteStatus, ToIdle, ScanStatus
    <3>4. QED
      BY <2>4, <3>2, <3>3
  <2>5. CASE OutcomeLost(w)
    BY <2>5 DEF OutcomeLost, ToIdle
  <2>6. CASE CrashWorker(w)
    BY <2>6 DEF CrashWorker, ToIdle
  <2>7. QED
    BY <1>4, <2>1, <2>2, <2>3, <2>4, <2>5, <2>6 DEF ProcessNext
<1>5. CASE UNCHANGED vars
  BY <1>5 DEF vars
<1>6. QED
  BY <1>1, <1>2, <1>3, <1>4, <1>5 DEF Next

(* Every reachable state is well typed. *)
THEOREM TypeCorrect == Spec => []TypeOK
BY InitType, NextType, PTL DEF Spec

-----------------------------------------------------------------------------
(* The inductive invariant of queue, workers and downloads                 *)

(* A worker holds a job exactly while it is not idle, and the job is       *)
(* marked processing.                                                      *)
Held ==
  \A w \in Worker :
    /\ wpc[w] = "idle" => wfile[w] = NoFile
    /\ wpc[w] # "idle" => wfile[w] \in File /\ job[wfile[w]] = "processing"

Exclusive ==
  \A v, w \in Worker : wfile[v] \in File /\ wfile[v] = wfile[w] => v = w

(* What a worker is about to write is an error or the scanner's verdict. *)
Results ==
  \A w \in Worker : wpc[w] = "outcome" => wres[w] \in {"error", Verdict(wfile[w])}

(* The attempts a job has left. *)
Counted ==
  \A f \in File :
    /\ job[f] = "none" => attempts[f] = 0
    /\ job[f] = "queued" => attempts[f] < MaxAttempts
    /\ job[f] = "processing" => attempts[f] <= MaxAttempts
    /\ job[f] = "failed" => attempts[f] = MaxAttempts

(* Nothing is known of a file before its rows are inserted. *)
Unborn ==
  \A f \in File :
    /\ upc[f] \in {"none", "put"} => row[f] = "absent"
    /\ row[f] = "absent" => job[f] = "none" /\ scanStatus[f] = "none"

(* Queue and file agree. *)
Agree ==
  \A f \in File :
    /\ job[f] = "done" => f \in byHand \/ scanStatus[f] = Verdict(f)
    /\ job[f] = "failed" => f \in byHand \/ scanStatus[f] = "failed"

(* A verdict on an entity attachment is the scanner's, and downloads are   *)
(* only on their way for clean ones.                                       *)
Judged ==
  \A f \in EntityFile :
    /\ f \notin byHand
    /\ scanStatus[f] \in {"clean", "infected"} => job[f] = "done"
    /\ f \in checked \cup served => job[f] = "done" /\ f \notin Infected

Inv == TypeOK /\ Held /\ Exclusive /\ Results /\ Counted /\ Unborn /\ Agree /\ Judged

LEMMA InitInv == Init => Inv
<1> SUFFICES ASSUME Init PROVE Inv
  OBVIOUS
<1> USE DEF Init
<1>1. TypeOK
  BY InitType
<1>2. Held /\ Exclusive /\ Results
  BY ScanConstants DEF Held, Exclusive, Results
<1>3. Counted /\ Unborn /\ Agree
  BY ScanConstants DEF Counted, Unborn, Agree
<1>4. Judged
  BY DEF Judged, EntityFile
<1>5. QED
  BY <1>1, <1>2, <1>3, <1>4 DEF Inv

(* An upload writes the rows of a file that nobody has seen yet. *)
LEMMA UploadInv ==
  ASSUME Inv, NEW f \in File, UploadStep(f)
  PROVE  Held' /\ Exclusive' /\ Results' /\ Counted' /\ Unborn' /\ Agree' /\ Judged'
<1> USE DEF Inv, TypeOK, jobVars, workerVars
<1>1. CASE UNCHANGED <<row, scanStatus, job>>
  <2>1. UNCHANGED <<attempts, wpc, wfile, wres, checked, served, byHand>>
    BY DEF UploadStep, Put, CreateRecord, CreateRecordFails, Cleanup
  <2>2. Held' /\ Exclusive' /\ Results'
    BY <1>1, <2>1 DEF Held, Exclusive, Results
  <2>3. Counted' /\ Agree' /\ Judged'
    BY <1>1, <2>1 DEF Counted, Agree, Judged
  <2>4. \A g \in File : upc'[g] \in {"none", "put"} => upc[g] \in {"none", "put"}
    BY DEF UploadStep, Put, CreateRecord, CreateRecordFails, Cleanup, UploadMoves
  <2>5. Unborn'
    BY <1>1, <2>4 DEF Unborn
  <2>6. QED
    BY <2>2, <2>3, <2>5
<1>2. CASE upc[f] = "put" /\ InsertRows(f)
  <2>1. /\ UNCHANGED <<attempts, wpc, wfile, wres, checked, served, byHand>>
        /\ upc'[f] \in {"over", "cleanup"}
        /\ \A g \in File \ {f} : upc'[g] = upc[g]
    BY <1>2 DEF UploadStep, Put, CreateRecord, CreateRecordFails, Cleanup, UploadMoves
  <2>2. row[f] = "absent" /\ job[f] = "none" /\ scanStatus[f] = "none"
    BY <1>2 DEF Unborn
  <2>3. /\ row'[f] = "live" /\ job'[f] \in {"none", "queued"}
        /\ scanStatus'[f] = InitialStatus(f)
        /\ \A g \in File \ {f} : /\ row'[g] = row[g] /\ job'[g] = job[g]
                                /\ scanStatus'[g] = scanStatus[g]
    BY <1>2 DEF InsertRows
  <2>4. \A w \in Worker : wfile[w] # f \/ wpc[w] = "idle"
    BY <2>2 DEF Held
  <2>5. Held' /\ Exclusive'
    BY <2>1, <2>3, <2>4 DEF Held, Exclusive
  <2>6. Results'
    BY <2>1 DEF Results, Verdict
  <2>7. Counted'
    <3>1. attempts' = attempts /\ attempts[f] = 0
      BY <2>1, <2>2 DEF Counted
    <3>2. /\ job'[f] \in {"none", "queued"}
          /\ \A g \in File \ {f} : job'[g] = job[g]
      BY <2>3
    <3>3. QED
      BY ONLY <3>1, <3>2, Counted, ScanConstants DEF Counted
  <2>8. Unborn'
    BY <2>1, <2>3 DEF Unborn
  <2>9. Agree'
    BY <2>1, <2>3 DEF Agree, Verdict
  <2>10. Judged'
    <3>1. ASSUME NEW g \in EntityFile
          PROVE  /\ g \notin byHand'
                 /\ scanStatus'[g] \in {"clean", "infected"} => job'[g] = "done"
                 /\ g \in checked' \cup served' => job'[g] = "done" /\ g \notin Infected
      <4>1. CASE g = f
        <5>1. g \in EntityFile /\ InitialStatus(g) = "pending"
          BY <3>1 DEF InitialStatus, EntityFile
        <5>2. g \notin byHand /\ g \notin checked \cup served
          BY <3>1, <4>1, <2>2 DEF Judged
        <5>3. QED
          BY <4>1, <5>1, <5>2, <2>1, <2>3
      <4>2. CASE g # f
        BY <4>2, <3>1, <2>1, <2>3 DEF Judged, EntityFile
      <4>3. QED
        BY <4>1, <4>2
    <3>2. QED
      BY <3>1 DEF Judged
  <2>11. QED
    BY <2>5, <2>6, <2>7, <2>8, <2>9, <2>10
<1>3. QED
  BY <1>1, <1>2 DEF UploadStep, Put, CreateRecord, CreateRecordFails, Cleanup, UploadMoves

(* Requests on a visible file touch neither the queue nor the workers.     *)
LEMMA RequestInv ==
  ASSUME Inv, NEW f \in File, RequestStep(f)
  PROVE  Held' /\ Exclusive' /\ Results' /\ Counted' /\ Unborn' /\ Agree' /\ Judged'
<1> USE DEF Inv, TypeOK, jobVars, workerVars, requestVars
<1> USE DEF RequestStep, Check, Open, SoftDelete, RemoveObject, DeleteTransaction, SetScanStatus
<1>1. /\ UNCHANGED <<upc, job, attempts, wpc, wfile, wres>>
      /\ row[f] = "absent" => row' = row /\ scanStatus' = scanStatus
      /\ \A g \in File \ {f} : row'[g] = row[g] /\ scanStatus'[g] = scanStatus[g]
      /\ row'[f] = "absent" => row[f] = "absent"
  <2>1. CASE Open(f) \/ RemoveObject(f)
    <3>1. \/ f \in checked
          \/ f \in dropping
      BY <2>1
    <3>2. QED
      BY <2>1
  <2>2. CASE Check(f) \/ SoftDelete(f) \/ DeleteTransaction(f)
    BY <2>2
  <2>3. CASE \E s \in ScanStatus : SetScanStatus(f, s)
    BY <2>3
  <2>4. QED
    BY <2>1, <2>2, <2>3
<1>2. Held' /\ Exclusive' /\ Results' /\ Counted'
  BY ONLY <1>1, Inv DEF Inv, Held, Exclusive, Results, Counted, Verdict
<1>3. Unborn'
  BY ONLY <1>1, Inv, f \in File DEF Inv, Unborn
<1>4. \/ UNCHANGED <<scanStatus, byHand>>
      \/ /\ f \in TxnFile /\ byHand' = byHand \cup {f}
         /\ \A g \in File \ {f} : scanStatus'[g] = scanStatus[g]
         /\ UNCHANGED <<checked, served>>
  BY DEF ScanStatus
<1>5. Agree'
  <2>1. \A g \in File \ {f} : scanStatus'[g] = scanStatus[g] /\ (g \in byHand => g \in byHand')
    BY <1>4
  <2>2. f \in byHand' \/ (scanStatus'[f] = scanStatus[f] /\ byHand' = byHand)
    BY <1>4
  <2>3. QED
    BY ONLY <1>1, <2>1, <2>2, Agree, f \in File DEF Agree, Verdict
<1>6. \A g \in checked' \cup served' :
        \/ g \in checked \cup served
        \/ g = f /\ scanStatus[f] = "clean"
  <2>1. CASE Check(f)
    BY ONLY <2>1 DEF Check
  <2>2. CASE Open(f)
    BY ONLY <2>2 DEF Open
  <2>3. CASE SoftDelete(f) \/ RemoveObject(f)
    BY ONLY <2>3 DEF SoftDelete, RemoveObject
  <2>4. CASE DeleteTransaction(f) \/ \E s \in ScanStatus : SetScanStatus(f, s)
    BY ONLY <2>4 DEF DeleteTransaction, SetScanStatus, requestVars
  <2>5. QED
    BY <2>1, <2>2, <2>3, <2>4
<1>7. ASSUME NEW g \in EntityFile
      PROVE  /\ g \notin byHand'
             /\ scanStatus'[g] \in {"clean", "infected"} => job'[g] = "done"
             /\ g \in checked' \cup served' => job'[g] = "done" /\ g \notin Infected
  <2>1. /\ g \in File /\ g \notin TxnFile /\ g \notin byHand
        /\ scanStatus[g] \in {"clean", "infected"} => job[g] = "done"
        /\ g \in checked \cup served => job[g] = "done" /\ g \notin Infected
        /\ job[g] = "done" => scanStatus[g] = Verdict(g)
    BY <1>7 DEF Judged, Agree, EntityFile
  <2>2. g \notin byHand' /\ scanStatus'[g] = scanStatus[g] /\ job'[g] = job[g]
    BY <1>1, <1>4, <2>1
  <2>3. scanStatus[g] = "clean" => job[g] = "done" /\ g \notin Infected
    BY ONLY <2>1 DEF Verdict
  <2>4. QED
    BY ONLY <1>6, <2>1, <2>2, <2>3
<1>8. QED
  BY <1>2, <1>3, <1>5, <1>7 DEF Judged

LEMMA CrashAPIInv ==
  ASSUME Inv, CrashAPI
  PROVE  Held' /\ Exclusive' /\ Results' /\ Counted' /\ Unborn' /\ Agree' /\ Judged'
<1> USE DEF Inv, TypeOK, jobVars, workerVars, CrashAPI
<1>1. Held' /\ Exclusive' /\ Results' /\ Counted' /\ Agree'
  BY DEF Held, Exclusive, Results, Counted, Agree, Verdict
<1>2. Unborn'
  BY DEF Unborn
<1>3. Judged'
  BY DEF Judged, EntityFile
<1>4. QED
  BY <1>1, <1>2, <1>3

(* A claim takes a job that no worker holds: it is not processing.         *)
LEMMA TakeJobInv ==
  ASSUME Inv, NEW f \in File, TakeJob(f),
         UNCHANGED <<requestVars, row, scanStatus, object, served, byHand>>
  PROVE  /\ job[f] = "queued" /\ job'[f] = "processing"
         /\ \A g \in File \ {f} : job'[g] = job[g]
         /\ \A w \in Worker : wfile[w] # f
         /\ Counted' /\ Unborn' /\ Agree' /\ Judged'
<1> USE DEF Inv, TypeOK, requestVars
<1>1. /\ job[f] = "queued"
      /\ job' = [job EXCEPT ![f] = "processing"]
      /\ attempts' = [attempts EXCEPT ![f] = attempts[f] + 1]
  <2>1. job[f] \in {"queued", "failed"} /\ attempts[f] < MaxAttempts
    BY DEF TakeJob, Claimable
  <2>2. job[f] = "failed" => attempts[f] = MaxAttempts
    BY DEF Counted
  <2>3. attempts[f] \in Nat
    OBVIOUS
  <2>4. job[f] = "queued"
    BY ONLY <2>1, <2>2, <2>3, ScanConstants
  <2>5. QED
    BY <2>4 DEF TakeJob
<1>2. job'[f] = "processing" /\ \A g \in File \ {f} : job'[g] = job[g]
  BY <1>1
<1>3. \A w \in Worker : wfile[w] # f
  BY <1>1, ScanConstants DEF Held
<1>4. Counted'
  <2>1. /\ attempts'[f] = attempts[f] + 1
        /\ \A g \in File \ {f} : attempts'[g] = attempts[g]
    BY <1>1
  <2>2. attempts[f] \in Nat /\ attempts[f] < MaxAttempts
    BY <1>1 DEF Counted
  <2>3. attempts'[f] <= MaxAttempts
    BY ONLY <2>1, <2>2, ScanConstants
  <2>4. QED
    BY ONLY <1>2, <2>1, <2>3, Counted DEF Counted
<1>5. Unborn'
  BY <1>1, <1>2 DEF Unborn
<1>6. Agree'
  BY <1>2 DEF Agree, Verdict
<1>7. Judged'
  <2>1. job[f] # "done"
    BY <1>1
  <2>2. QED
    BY <1>2, <2>1 DEF Judged, EntityFile
<1>8. QED
  BY <1>1, <1>2, <1>3, <1>4, <1>5, <1>6, <1>7

(* An outcome closes or requeues a job that only this worker holds.        *)
LEMMA OutcomeInv ==
  ASSUME Inv, NEW w \in Worker, MarkDone(w) \/ MarkFailure(w)
  PROVE  Held' /\ Exclusive' /\ Results' /\ Counted' /\ Unborn' /\ Agree' /\ Judged'
<1> DEFINE f == wfile[w]
           s == wres[w]
<1> USE DEF Inv, TypeOK
<1>1. f \in File /\ job[f] = "processing" /\ wpc[w] = "outcome"
  BY DEF Held, MarkDone, MarkFailure
<1>2. /\ UNCHANGED <<upc, checked, row, attempts, served>>
      /\ wpc' = [wpc EXCEPT ![w] = "idle"]
      /\ wfile' = [wfile EXCEPT ![w] = NoFile]
      /\ wres' = [wres EXCEPT ![w] = "none"]
      /\ byHand' = byHand \ {f}
      /\ \A g \in File \ {f} : job'[g] = job[g] /\ scanStatus'[g] = scanStatus[g]
  BY DEF MarkDone, MarkFailure, ToIdle, WriteStatus, requestVars
<1>3. \/ job'[f] = "done" /\ scanStatus'[f] = Verdict(f)
      \/ /\ scanStatus'[f] = "failed"
         /\ \/ job'[f] = "failed" /\ attempts[f] >= MaxAttempts
            \/ job'[f] = "queued" /\ ~ (attempts[f] >= MaxAttempts)
  <2>1. CASE MarkDone(w)
    <3>1. s = Verdict(f)
      BY <1>1, <2>1 DEF Results, MarkDone
    <3>2. QED
      BY <1>1, <2>1, <3>1 DEF MarkDone, WriteStatus
  <2>2. CASE MarkFailure(w)
    BY <1>1, <2>2 DEF MarkFailure, WriteStatus
  <2>3. QED
    BY <2>1, <2>2
<1> HIDE DEF f, s
<1>4. \A v \in Worker \ {w} : wfile[v] # f /\ wfile'[v] = wfile[v] /\ wpc'[v] = wpc[v]
                             /\ wres'[v] = wres[v]
  BY <1>1, <1>2 DEF Exclusive, f
<1>5. wpc'[w] = "idle" /\ wfile'[w] = NoFile
  BY <1>2
<1>6. Held'
  BY <1>1, <1>2, <1>4, <1>5 DEF Held
<1>7. Exclusive'
  BY <1>2, <1>4, <1>5, ScanConstants DEF Exclusive
<1>8. Results'
  BY <1>4, <1>5 DEF Results, Verdict
<1>9. Counted'
  <2>1. attempts[f] \in Nat /\ attempts[f] <= MaxAttempts
    BY <1>1 DEF Counted
  <2>2. /\ job'[f] = "queued" => attempts[f] < MaxAttempts
        /\ job'[f] = "failed" => attempts[f] = MaxAttempts
        /\ job'[f] \in {"done", "queued", "failed"}
    BY ONLY <1>3, <2>1, ScanConstants
  <2>3. attempts' = attempts /\ \A g \in File \ {f} : job'[g] = job[g]
    BY <1>2
  <2>4. QED
    BY ONLY <1>1, <2>2, <2>3, Counted DEF Counted
<1>10. Unborn'
  <2>1. row[f] # "absent"
    BY <1>1 DEF Unborn
  <2>2. QED
    BY <1>2, <2>1 DEF Unborn
<1>11. Agree'
  BY <1>1, <1>2, <1>3 DEF Agree, Verdict
<1>12. ASSUME NEW g \in EntityFile
       PROVE  /\ g \notin byHand'
              /\ scanStatus'[g] \in {"clean", "infected"} => job'[g] = "done"
              /\ g \in checked' \cup served' => job'[g] = "done" /\ g \notin Infected
  <2>1. /\ g \in File /\ g \notin byHand
        /\ scanStatus[g] \in {"clean", "infected"} => job[g] = "done"
        /\ g \in checked \cup served => job[g] = "done" /\ g \notin Infected
    BY <1>12 DEF Judged, EntityFile
  <2>2. CASE g = f
    BY <1>1, <1>2, <1>3, <2>1, <2>2
  <2>3. CASE g # f
    BY <1>2, <2>1, <2>3
  <2>4. QED
    BY <2>2, <2>3
<1>13. QED
  BY <1>6, <1>7, <1>8, <1>9, <1>10, <1>11, <1>12 DEF Judged

LEMMA WorkerInv ==
  ASSUME Inv, NEW w \in Worker,
         ProcessNext(w) \/ ClaimLost(w) \/ OutcomeLost(w) \/ CrashWorker(w)
  PROVE  Held' /\ Exclusive' /\ Results' /\ Counted' /\ Unborn' /\ Agree' /\ Judged'
<1> USE DEF Inv, TypeOK
<1>1. CASE Claim(w)
  <2>1. PICK f \in File : TakeJob(f) /\ wfile' = [wfile EXCEPT ![w] = f]
    BY <1>1 DEF Claim
  <2>2. /\ UNCHANGED <<requestVars, row, scanStatus, object, wres, served, byHand>>
        /\ wpc' = [wpc EXCEPT ![w] = "claimed"]
    BY <1>1 DEF Claim
  <2>3. /\ job[f] = "queued" /\ job'[f] = "processing"
        /\ \A g \in File \ {f} : job'[g] = job[g]
        /\ \A v \in Worker : wfile[v] # f
        /\ Counted' /\ Unborn' /\ Agree' /\ Judged'
    BY <2>1, <2>2, TakeJobInv
  <2>4. \A v \in Worker \ {w} : wfile'[v] = wfile[v] /\ wpc'[v] = wpc[v]
    BY <2>1, <2>2
  <2>5. wfile'[w] = f /\ wpc'[w] = "claimed"
    BY <2>1, <2>2
  <2>6. Held'
    BY <2>3, <2>4, <2>5 DEF Held
  <2>7. Exclusive'
    BY <2>3, <2>4, <2>5 DEF Exclusive
  <2>8. Results'
    BY <2>2, <2>4, <2>5 DEF Results, Verdict
  <2>9. QED
    BY <2>3, <2>6, <2>7, <2>8
<1>2. CASE ClaimLost(w)
  <2>1. PICK f \in File : TakeJob(f)
    BY <1>2 DEF ClaimLost
  <2>2. UNCHANGED <<requestVars, row, scanStatus, object, workerVars, served, byHand>>
    BY <1>2 DEF ClaimLost
  <2>3. /\ \A g \in File \ {f} : job'[g] = job[g]
        /\ \A v \in Worker : wfile[v] # f
        /\ Counted' /\ Unborn' /\ Agree' /\ Judged'
    BY <2>1, <2>2, TakeJobInv
  <2>4. Held' /\ Exclusive' /\ Results'
    BY <2>2, <2>3 DEF Held, Exclusive, Results, Verdict, workerVars
  <2>5. QED
    BY <2>3, <2>4
<1>3. CASE Scan(w)
  <2>1. /\ UNCHANGED <<requestVars, row, scanStatus, jobVars, wfile, served, byHand>>
        /\ wpc' = [wpc EXCEPT ![w] = "outcome"] /\ wpc[w] = "claimed"
        /\ \E r \in {"error", Verdict(wfile[w])} : wres' = [wres EXCEPT ![w] = r]
    BY <1>3 DEF Scan
  <2>2. Held' /\ Exclusive' /\ Results'
    BY <2>1 DEF Held, Exclusive, Results, Verdict, jobVars
  <2>3. Counted' /\ Unborn' /\ Agree' /\ Judged'
    BY <2>1 DEF Counted, Unborn, Agree, Judged, Verdict, jobVars, requestVars
  <2>4. QED
    BY <2>2, <2>3
<1>4. CASE MarkDone(w) \/ MarkFailure(w)
  BY <1>4, OutcomeInv
<1>5. CASE OutcomeLost(w) \/ CrashWorker(w)
  <2>1. /\ UNCHANGED <<requestVars, row, scanStatus, jobVars, served, byHand>>
        /\ ToIdle(w)
    BY <1>5 DEF OutcomeLost, CrashWorker
  <2>2. Held' /\ Exclusive' /\ Results'
    BY <2>1, ScanConstants DEF Held, Exclusive, Results, Verdict, jobVars, ToIdle
  <2>3. Counted' /\ Unborn' /\ Agree' /\ Judged'
    BY <2>1 DEF Counted, Unborn, Agree, Judged, Verdict, jobVars, requestVars
  <2>4. QED
    BY <2>2, <2>3
<1>6. QED
  BY <1>1, <1>2, <1>3, <1>4, <1>5 DEF ProcessNext

LEMMA NextInv == Inv /\ [Next]_vars => Inv'
<1> SUFFICES ASSUME Inv, [Next]_vars PROVE Inv'
  OBVIOUS
<1>1. TypeOK'
  BY NextType DEF Inv
<1>2. CASE UNCHANGED vars
  BY <1>1, <1>2 DEF vars, Inv, Held, Exclusive, Results, Counted, Unborn, Agree, Judged,
       Verdict, requestVars, jobVars, workerVars
<1>3. CASE Next
  BY <1>1, <1>3, UploadInv, RequestInv, CrashAPIInv, WorkerInv DEF Next, Inv
<1>4. QED
  BY <1>2, <1>3

LEMMA InvAlways == Spec => []Inv
BY InitInv, NextInv, PTL DEF Spec

(* No two workers hold the same job, and a held job is marked processing,  *)
(* for any number of workers and whatever fails.                           *)
THEOREM ScansAreExclusive == Spec => []OneScanAtATime
<1>1. Inv => OneScanAtATime
  BY DEF Inv, OneScanAtATime, Held, Exclusive
<1>2. QED
  BY <1>1, InvAlways, PTL

(* A finished job has left its verdict on its file, a job that was given   *)
(* up has used all its attempts.                                           *)
THEOREM OutcomesAgree == Spec => []OutcomeAgrees
<1>1. Inv => OutcomeAgrees
  BY DEF Inv, OutcomeAgrees, Agree, Counted
<1>2. QED
  BY <1>1, InvAlways, PTL

(* No attachment of a goal, budget or reminder is served unscanned or      *)
(* infected.                                                               *)
THEOREM ServedIsScanned == Spec => []ServedWasScanned
<1>1. Inv => ServedWasScanned
  BY DEF Inv, ServedWasScanned, Judged, EntityFile
<1>2. QED
  BY <1>1, InvAlways, PTL

(* No step changes the verdict on an entity attachment: its job is done,   *)
(* and done jobs are neither inserted nor claimed nor held.                *)
THEOREM VerdictsAreFinal == Spec => VerdictIsFinal
<1>1. ASSUME Inv, [Next]_vars, NEW f \in EntityFile, scanStatus[f] \in {"clean", "infected"}
      PROVE  scanStatus'[f] = scanStatus[f]
  <2>1. f \in File /\ f \notin TxnFile /\ job[f] = "done" /\ row[f] # "absent"
    BY <1>1 DEF Inv, Judged, Unborn, EntityFile
  <2>2. ASSUME NEW g \in File, UploadStep(g) PROVE scanStatus'[f] = scanStatus[f]
    <3>1. UNCHANGED scanStatus \/ (upc[g] = "put" /\ InsertRows(g))
      BY <2>2 DEF UploadStep, Put, CreateRecord, CreateRecordFails, Cleanup, UploadMoves
    <3>2. upc[g] = "put" => g # f
      BY <1>1, <2>1 DEF Unborn, Inv
    <3>3. QED
      BY <3>1, <3>2, <2>1, <1>1 DEF InsertRows, Inv, TypeOK
  <2>3. ASSUME NEW g \in File, RequestStep(g) PROVE scanStatus'[f] = scanStatus[f]
    BY <1>1, <2>1, <2>3 DEF RequestStep, Check, Open, SoftDelete, RemoveObject,
         DeleteTransaction, SetScanStatus, Inv, TypeOK
  <2>4. ASSUME NEW w \in Worker,
               ProcessNext(w) \/ ClaimLost(w) \/ OutcomeLost(w) \/ CrashWorker(w)
        PROVE  scanStatus'[f] = scanStatus[f]
    <3>1. UNCHANGED scanStatus \/ MarkDone(w) \/ MarkFailure(w)
      BY <2>4 DEF ProcessNext, Claim, ClaimLost, Scan, OutcomeLost, CrashWorker
    <3>2. wpc[w] = "outcome" => wfile[w] # f
      BY <1>1, <2>1 DEF Inv, Held
    <3>3. QED
      BY <1>1, <2>1, <3>1, <3>2 DEF MarkDone, MarkFailure, WriteStatus, Inv, TypeOK
  <2>5. QED
    BY <1>1, <2>2, <2>3, <2>4 DEF Next, CrashAPI, vars
<1>2. Inv /\ [Next]_vars
        => [\A f \in EntityFile : scanStatus[f] \in {"clean", "infected"}
              => scanStatus'[f] = scanStatus[f]]_vars
  BY <1>1
<1>3. QED
  BY <1>2, InvAlways, PTL DEF Spec, VerdictIsFinal

-----------------------------------------------------------------------------
(* Rows and objects                                                        *)

ObjectInv ==
  \A f \in File :
    /\ upc[f] = "put" => f \in object
    /\ row[f] = "live" => f \in object
    /\ upc[f] # "over" => row[f] = "absent"
    /\ f \in dropping => row[f] = "deleted"

LEMMA NextObjectInv ==
  ASSUME "lost commit" \notin Faults, TypeOK, ObjectInv, [Next]_vars
  PROVE  ObjectInv'
<1> USE DEF TypeOK, ObjectInv
<1>1. ASSUME NEW f \in File, UploadStep(f) PROVE ObjectInv'
  <2>1. CASE Put(f)
    BY <2>1 DEF Put, UploadMoves
  <2>2. CASE CreateRecord(f)
    BY <2>2 DEF CreateRecord, UploadMoves, InsertRows
  <2>3. CASE CreateRecordFails(f)
    BY <2>3 DEF CreateRecordFails, UploadMoves
  <2>4. CASE Cleanup(f)
    BY <2>4 DEF Cleanup, UploadMoves, DeleteObject
  <2>5. QED
    BY <1>1, <2>1, <2>2, <2>3, <2>4 DEF UploadStep
<1>2. ASSUME NEW f \in File, RequestStep(f) PROVE ObjectInv'
  <2>1. CASE Check(f) \/ Open(f) \/ \E s \in ScanStatus : SetScanStatus(f, s)
    BY <2>1 DEF Check, Open, SetScanStatus, requestVars
  <2>2. CASE SoftDelete(f)
    BY <2>2 DEF SoftDelete
  <2>3. CASE DeleteTransaction(f)
    BY <2>3 DEF DeleteTransaction, requestVars
  <2>4. CASE RemoveObject(f)
    BY <2>4 DEF RemoveObject, DeleteObject
  <2>5. QED
    BY <1>2, <2>1, <2>2, <2>3, <2>4 DEF RequestStep
<1>3. CASE CrashAPI
  BY <1>3 DEF CrashAPI
<1>4. ASSUME NEW w \in Worker, ProcessNext(w) \/ ClaimLost(w) \/ OutcomeLost(w) \/ CrashWorker(w)
      PROVE  ObjectInv'
  BY <1>4 DEF ProcessNext, Claim, ClaimLost, Scan, MarkDone, MarkFailure, OutcomeLost,
       CrashWorker, requestVars
<1>5. CASE UNCHANGED vars
  BY <1>5 DEF vars, requestVars
<1>6. QED
  BY <1>1, <1>2, <1>3, <1>4, <1>5 DEF Next

(* While no commit loses its answer, a visible attachment has its object,  *)
(* whatever else fails and whoever crashes.                                *)
THEOREM LiveRowsHaveObjects ==
  ASSUME "lost commit" \notin Faults
  PROVE  Spec => []LiveHasObject
<1>1. Init => ObjectInv
  BY DEF Init, ObjectInv
<1>2. TypeOK /\ ObjectInv /\ [Next]_vars => ObjectInv'
  BY NextObjectInv
<1>3. ObjectInv => LiveHasObject
  BY DEF ObjectInv, LiveHasObject
<1>4. QED
  BY <1>1, <1>2, <1>3, TypeCorrect, PTL DEF Spec

-----------------------------------------------------------------------------
(* The scan queue implements the abstract job queue                        *)

GrantsOf(f) == IF job[f] = "queued" THEN attempts[f] + 1 ELSE attempts[f]

LEMMA InitJobQueue == Init => JQ!JQInit
BY DEF Init, JQ!JQInit, PhaseOf

(* A step that leaves the queue alone is a stutter of the abstract queue.  *)
LEMMA Stutter == UNCHANGED jobVars => UNCHANGED JQ!jqVars
BY DEF jobVars, JQ!jqVars, PhaseOf

(* A step that changes one job is a step of the abstract queue when phase, *)
(* grants and runs of that job change as the abstract action says.         *)
LEMMA OneJob ==
  ASSUME TypeOK, NEW f \in File,
         job' \in [File -> {"none", "queued", "processing", "done", "failed"}],
         attempts' \in [File -> Nat],
         \A g \in File \ {f} : job'[g] = job[g] /\ attempts'[g] = attempts[g],
         \/ /\ job[f] = "none" /\ job'[f] = "queued" /\ attempts'[f] = attempts[f]
         \/ /\ job[f] = "queued" /\ job'[f] = "processing" /\ attempts'[f] = attempts[f] + 1
         \/ /\ job[f] = "processing" /\ job'[f] \in {"done", "failed", "queued"}
            /\ attempts'[f] = attempts[f]
  PROVE  JQ!JQNext
<1>1. [g \in File |-> PhaseOf(g)]' = [[g \in File |-> PhaseOf(g)] EXCEPT ![f] = PhaseOf(f)']
  BY DEF PhaseOf
<1>2. [g \in File |-> GrantsOf(g)]' = [[g \in File |-> GrantsOf(g)] EXCEPT ![f] = GrantsOf(f)']
  BY DEF GrantsOf
<1>3. attempts' = [attempts EXCEPT ![f] = attempts'[f]]
  BY DEF TypeOK
<1>4. attempts[f] \in Nat /\ attempts'[f] \in Nat
  BY DEF TypeOK
<1>5. CASE job[f] = "none" /\ job'[f] = "queued" /\ attempts'[f] = attempts[f]
  <2>1. PhaseOf(f) = "absent" /\ PhaseOf(f)' = "waiting" /\ GrantsOf(f)' = GrantsOf(f) + 1
    BY <1>5 DEF PhaseOf, GrantsOf
  <2>2. attempts' = attempts
    BY <1>3, <1>5 DEF TypeOK
  <2>3. JQ!Submit(f)
    BY <1>1, <1>2, <2>1, <2>2 DEF JQ!Submit, GrantsOf
  <2>4. QED
    BY <2>3 DEF JQ!JQNext
<1>6. CASE job[f] = "queued" /\ job'[f] = "processing" /\ attempts'[f] = attempts[f] + 1
  <2>1. PhaseOf(f) = "waiting" /\ PhaseOf(f)' = "running" /\ GrantsOf(f)' = GrantsOf(f)
    BY <1>6 DEF PhaseOf, GrantsOf
  <2>2. [g \in File |-> GrantsOf(g)]' = [g \in File |-> GrantsOf(g)]
    BY <1>2, <2>1
  <2>3. JQ!Start(f)
    BY <1>1, <2>1, <2>2, <1>3, <1>6 DEF JQ!Start, GrantsOf
  <2>4. QED
    BY <2>3 DEF JQ!JQNext
<1>7. CASE job[f] = "processing" /\ job'[f] \in {"done", "failed"} /\ attempts'[f] = attempts[f]
  <2>1. PhaseOf(f) = "running" /\ PhaseOf(f)' = "closed" /\ GrantsOf(f)' = GrantsOf(f)
    BY <1>7 DEF PhaseOf, GrantsOf
  <2>2. attempts' = attempts
    BY <1>3, <1>7 DEF TypeOK
  <2>3. [g \in File |-> GrantsOf(g)]' = [g \in File |-> GrantsOf(g)]
    BY <1>2, <2>1
  <2>4. JQ!Close(f)
    BY <1>1, <2>1, <2>2, <2>3 DEF JQ!Close, GrantsOf
  <2>5. QED
    BY <2>4 DEF JQ!JQNext
<1>8. CASE job[f] = "processing" /\ job'[f] = "queued" /\ attempts'[f] = attempts[f]
  <2>1. PhaseOf(f) # "absent" /\ PhaseOf(f)' = "waiting" /\ GrantsOf(f)' = GrantsOf(f) + 1
    BY <1>8 DEF PhaseOf, GrantsOf
  <2>2. attempts' = attempts
    BY <1>3, <1>8 DEF TypeOK
  <2>3. JQ!Reopen(f)
    BY <1>1, <1>2, <2>1, <2>2 DEF JQ!Reopen, GrantsOf
  <2>4. QED
    BY <2>3 DEF JQ!JQNext
<1>9. QED
  BY <1>5, <1>6, <1>7, <1>8

LEMMA NextJobQueue ==
  ASSUME Inv, Inv', [Next]_vars
  PROVE  [JQ!JQNext]_(JQ!jqVars)
<1> USE DEF Inv, TypeOK
<1>1. ASSUME NEW f \in File, UploadStep(f) PROVE [JQ!JQNext]_(JQ!jqVars)
  <2>1. UNCHANGED jobVars \/ (upc[f] = "put" /\ InsertRows(f) /\ UNCHANGED attempts)
    BY <1>1 DEF UploadStep, Put, CreateRecord, CreateRecordFails, Cleanup, UploadMoves, jobVars
  <2>2. CASE UNCHANGED jobVars
    BY <2>2, Stutter
  <2>3. CASE upc[f] = "put" /\ InsertRows(f) /\ UNCHANGED attempts
    <3>1. job[f] = "none"
      BY <2>3 DEF Unborn
    <3>2. CASE f \in ProofFile
      <4>1. job' = job
        BY <2>3, <3>1, <3>2 DEF InsertRows
      <4>2. QED
        BY <4>1, <2>3, Stutter DEF jobVars
    <3>3. CASE f \notin ProofFile
      <4>1. job'[f] = "queued" /\ attempts'[f] = attempts[f]
        BY <2>3, <3>3 DEF InsertRows
      <4>2. \A g \in File \ {f} : job'[g] = job[g] /\ attempts'[g] = attempts[g]
        BY <2>3 DEF InsertRows
      <4>3. QED
        BY <3>1, <4>1, <4>2, OneJob
    <3>4. QED
      BY <3>2, <3>3
  <2>4. QED
    BY <2>1, <2>2, <2>3
<1>2. ASSUME NEW w \in Worker, ProcessNext(w) \/ ClaimLost(w) \/ OutcomeLost(w) \/ CrashWorker(w)
      PROVE  [JQ!JQNext]_(JQ!jqVars)
  <2>1. CASE Claim(w) \/ ClaimLost(w)
    <3>1. PICK f \in File : TakeJob(f)
      BY <2>1 DEF Claim, ClaimLost
    <3>2. job[f] = "queued"
      BY <2>1, <3>1, TakeJobInv DEF Claim, ClaimLost
    <3>3. /\ job'[f] = "processing" /\ attempts'[f] = attempts[f] + 1
          /\ \A g \in File \ {f} : job'[g] = job[g] /\ attempts'[g] = attempts[g]
      BY <3>1 DEF TakeJob
    <3>4. QED
      BY <3>2, <3>3, OneJob
  <2>2. CASE MarkDone(w) \/ MarkFailure(w)
    <3>1. wfile[w] \in File /\ job[wfile[w]] = "processing"
      BY <2>2 DEF Held, MarkDone, MarkFailure
    <3>2. /\ job'[wfile[w]] \in {"done", "failed", "queued"} /\ UNCHANGED attempts
          /\ \A g \in File \ {wfile[w]} : job'[g] = job[g]
      BY <2>2, <3>1 DEF MarkDone, MarkFailure
    <3>3. QED
      BY <3>1, <3>2, OneJob
  <2>3. CASE Scan(w) \/ OutcomeLost(w) \/ CrashWorker(w)
    BY <2>3, Stutter DEF Scan, OutcomeLost, CrashWorker
  <2>4. QED
    BY <1>2, <2>1, <2>2, <2>3 DEF ProcessNext
<1>3. ASSUME NEW f \in File, RequestStep(f) PROVE UNCHANGED jobVars
  BY <1>3 DEF RequestStep, Check, Open, SoftDelete, RemoveObject, DeleteTransaction,
       SetScanStatus, jobVars
<1>4. CrashAPI \/ UNCHANGED vars => UNCHANGED jobVars
  BY DEF CrashAPI, vars, jobVars
<1>5. QED
  BY <1>1, <1>2, <1>3, <1>4, Stutter DEF Next

(* For every set of workers the scan queue implements the job queue: the   *)
(* claim in one statement makes the difference to the chatbot queue.       *)
THEOREM ScanQueueImplementsJobQueue == Spec => ImplementsJobQueue
BY InitJobQueue, NextJobQueue, InvAlways, PTL DEF Spec, ImplementsJobQueue, JQ!JQSpec
=============================================================================
