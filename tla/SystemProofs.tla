---------------------------- MODULE SystemProofs ----------------------------
(***************************************************************************)
(* Proofs about the machine: the update of the installation, the backups   *)
(* of a workspace and the connections to its database, for any number of   *)
(* updates, jobs, rows, files, callers and connections.                    *)
(***************************************************************************)
EXTENDS SystemUpdate, Backups, ConnPool, FiniteSetTheorems, TLAPS

-----------------------------------------------------------------------------
(***************************************************************************)
(* Updates: no process runs code newer than the schema but for the         *)
(* recorded causes, and an api that is behind is offered an update.        *)
(***************************************************************************)
(* Between the start of an update and its last step.                       *)
Active(u) == upd[u] \notin {"idle", "exit"}

(* The status keeps a second update out until the first one has ended or   *)
(* said success.                                                           *)
OneActive ==
  /\ \A u \in Updater : Active(u) => status = "running"
  /\ \A u, v \in Updater : Active(u) /\ Active(v) => u = v

(* Nothing is newer than the sources.                                      *)
NoneNewer ==
  /\ tree <= remote /\ schema <= tree
  /\ \A p \in Program : binary[p] <= tree /\ running[p] <= tree

BinaryExplained == \A p \in Program : binary[p] > schema => ahead \/ Exposed

(* A program older than the tree is being built, was cut short, or ends.   *)
BuildExplained ==
  /\ binary["api"] < tree => cutShort \/ \E u \in Updater : upd[u] = "buildApi"
  /\ running["api"] < tree => cutShort \/ \E u \in Updater : upd[u] # "idle"

UpdateInv ==
  /\ UpdateTypeOK /\ OneActive /\ NoneNewer
  /\ BinaryExplained /\ CodeNotAheadOfSchema /\ BuildExplained

(* At first everything runs the version that the repository has.           *)
LEMMA UpdateInitInv == UpdateInit => UpdateInv
<1> SUFFICES ASSUME UpdateInit PROVE UpdateInv
  OBVIOUS
<1>1. 0 \in Version
  BY UpdateConstants DEF Version
<1>2. UpdateTypeOK
  BY <1>1 DEF UpdateInit, UpdateTypeOK, Program
<1>3. OneActive
  BY DEF UpdateInit, OneActive, Active
<1>4. NoneNewer /\ BinaryExplained /\ CodeNotAheadOfSchema /\ BuildExplained
  BY DEF UpdateInit, NoneNewer, BinaryExplained, CodeNotAheadOfSchema, BuildExplained, Program
<1> QED
  BY <1>2, <1>3, <1>4 DEF UpdateInv

(* Every action keeps the types.                                           *)
LEMMA UpdateTypeStep == UpdateTypeOK /\ [UpdateNext]_updateVars => UpdateTypeOK'
<1> SUFFICES ASSUME UpdateTypeOK, [UpdateNext]_updateVars PROVE UpdateTypeOK'
  OBVIOUS
<1> USE DEF UpdateTypeOK, Version, Program
<1>1. CASE VersionReleased
  BY <1>1, UpdateConstants DEF VersionReleased
<1>2. ASSUME NEW u \in Updater, ApplyUpdate(u) PROVE UpdateTypeOK'
  BY <1>2 DEF ApplyUpdate
<1>3. ASSUME NEW u \in Updater, FetchSources(u) PROVE UpdateTypeOK'
  BY <1>3 DEF FetchSources
<1>4. ASSUME NEW u \in Updater, BuildApi(u) PROVE UpdateTypeOK'
  <2>1. CASE status' = "failed" /\ UNCHANGED binary
    BY <1>4, <2>1 DEF BuildApi
  <2>2. CASE cutShort' = FALSE /\ binary' = [binary EXCEPT !["api"] = tree]
    <3>1. binary' \in [Program -> Version]
      BY <2>2
    <3> QED
      BY <1>4, <2>2, <3>1 DEF BuildApi
  <2> QED
    BY <1>4, <2>1, <2>2 DEF BuildApi
<1>5. ASSUME NEW u \in Updater, BuildOthers(u) PROVE UpdateTypeOK'
  BY <1>5 DEF BuildOthers
<1>6. ASSUME NEW u \in Updater, MigrateSchema(u) PROVE UpdateTypeOK'
  BY <1>6 DEF MigrateSchema
<1>7. ASSUME NEW u \in Updater, BuildWeb(u) PROVE UpdateTypeOK'
  BY <1>7 DEF BuildWeb
<1>8. ASSUME NEW u \in Updater, RestartOthers(u) PROVE UpdateTypeOK'
  BY <1>8 DEF RestartOthers
<1>9. CASE ApiRestarts
  BY <1>9 DEF ApiRestarts, Exposed
<1>10. CASE OtherRestarts
  BY <1>10 DEF OtherRestarts, Exposed
<1>11. CASE UNCHANGED updateVars
  BY <1>11 DEF updateVars
<1> QED
  BY <1>1, <1>2, <1>3, <1>4, <1>5, <1>6, <1>7, <1>8, <1>9, <1>10, <1>11 DEF UpdateNext

(* What a step has to show, action by action.                              *)
Explained == NoneNewer /\ BinaryExplained /\ CodeNotAheadOfSchema /\ BuildExplained

(* At most one update is between its start and its last step.              *)
LEMMA OneActiveStep == UpdateTypeOK /\ OneActive /\ [UpdateNext]_updateVars => OneActive'
<1> SUFFICES ASSUME UpdateTypeOK, OneActive, [UpdateNext]_updateVars PROVE OneActive'
  OBVIOUS
<1> USE DEF UpdateTypeOK, OneActive, Active
<1>1. ASSUME NEW u \in Updater, ApplyUpdate(u) PROVE OneActive'
  BY <1>1 DEF ApplyUpdate
<1>2. ASSUME NEW u \in Updater, FetchSources(u) PROVE OneActive'
  BY <1>2 DEF FetchSources
<1>3. ASSUME NEW u \in Updater, BuildApi(u) PROVE OneActive'
  BY <1>3 DEF BuildApi
<1>4. ASSUME NEW u \in Updater, BuildOthers(u) PROVE OneActive'
  BY <1>4 DEF BuildOthers
<1>5. ASSUME NEW u \in Updater, MigrateSchema(u) PROVE OneActive'
  BY <1>5 DEF MigrateSchema
<1>6. ASSUME NEW u \in Updater, BuildWeb(u) PROVE OneActive'
  BY <1>6 DEF BuildWeb
<1>7. ASSUME NEW u \in Updater, RestartOthers(u) PROVE OneActive'
  BY <1>7 DEF RestartOthers
<1>8. CASE ApiRestarts
  BY <1>8 DEF ApiRestarts
<1>9. CASE VersionReleased \/ OtherRestarts \/ UNCHANGED updateVars
  BY <1>9 DEF VersionReleased, OtherRestarts, updateVars
<1> QED
  BY <1>1, <1>2, <1>3, <1>4, <1>5, <1>6, <1>7, <1>8, <1>9 DEF UpdateNext

(* Every action keeps code behind its schema, or records why not.          *)
LEMMA ExplainedStep == UpdateInv /\ [UpdateNext]_updateVars => Explained'
<1> SUFFICES ASSUME UpdateInv, [UpdateNext]_updateVars PROVE Explained'
  OBVIOUS
<1>types. /\ remote \in Nat /\ tree \in Nat /\ schema \in Nat
          /\ binary \in [Program -> Nat] /\ running \in [Program -> Nat]
          /\ ahead \in BOOLEAN /\ cutShort \in BOOLEAN
          /\ upd \in [Updater -> {"idle", "fetch", "buildApi", "buildOthers", "migrate",
                                  "buildWeb", "restart", "exit"}]
  BY UpdateConstants DEF UpdateInv, UpdateTypeOK, Version
<1>now. OneActive /\ Explained
  BY DEF UpdateInv, Explained
<1> USE <1>types, <1>now DEF Explained, NoneNewer, BinaryExplained, CodeNotAheadOfSchema,
        BuildExplained, Exposed, Program
<1>1. CASE VersionReleased
  BY <1>1 DEF VersionReleased
<1>2. ASSUME NEW u \in Updater, ApplyUpdate(u) PROVE Explained'
  BY <1>2 DEF ApplyUpdate
<1>3. ASSUME NEW u \in Updater, FetchSources(u) PROVE Explained'
  BY <1>3 DEF FetchSources
<1>4. ASSUME NEW u \in Updater, BuildApi(u) PROVE Explained'
  BY <1>4 DEF BuildApi
<1>5. ASSUME NEW u \in Updater, BuildOthers(u) PROVE Explained'
  BY <1>5 DEF BuildOthers
<1>6. ASSUME NEW u \in Updater, MigrateSchema(u) PROVE Explained'
  BY <1>6 DEF MigrateSchema
<1>7. ASSUME NEW u \in Updater, BuildWeb(u) PROVE Explained'
  BY <1>7 DEF BuildWeb
<1>8. ASSUME NEW u \in Updater, RestartOthers(u) PROVE Explained'
  <2>1. ~Exposed
    BY <1>8 DEF RestartOthers, OneActive, Active
  <2> QED
    BY <1>8, <2>1 DEF RestartOthers
<1>9. CASE ApiRestarts
  BY <1>9 DEF ApiRestarts
<1>10. CASE OtherRestarts
  BY <1>10 DEF OtherRestarts
<1>11. CASE UNCHANGED updateVars
  BY <1>11 DEF updateVars
<1> QED
  BY <1>1, <1>2, <1>3, <1>4, <1>5, <1>6, <1>7, <1>8, <1>9, <1>10, <1>11 DEF UpdateNext

(* Every action keeps the invariant of the updates,                        *)
LEMMA UpdateInvStep == UpdateInv /\ [UpdateNext]_updateVars => UpdateInv'
BY UpdateTypeStep, OneActiveStep, ExplainedStep DEF UpdateInv, Explained

(* which is more than the property.                                        *)
LEMMA UpdateInvSound == UpdateInv => UpdatesAreSound
<1> SUFFICES ASSUME UpdateInv PROVE UpdatesAreSound
  OBVIOUS
<1>1. ASSUME running["api"] < remote, remote = tree, \A u \in Updater : upd[u] = "idle"
      PROVE  cutShort
  BY <1>1 DEF UpdateInv, BuildExplained
<1> QED
  BY <1>1 DEF UpdateInv, UpdatesAreSound, UpdateIsOffered, UpdateAvailable

(* For any number of updates and of versions: no process runs code newer   *)
(* than the schema but for a failed migration or a restart in the middle   *)
(* of an update, and an api that is behind is offered an update unless the *)
(* last one was cut short (ApplyUpdate, CheckUpdate).                      *)
THEOREM UpdatesSound == UpdateSpec => []UpdatesAreSound
<1>1. UpdateInit => UpdateInv
  BY UpdateInitInv
<1>2. UpdateInv /\ [UpdateNext]_updateVars => UpdateInv'
  BY UpdateInvStep
<1>3. UpdateInv => UpdatesAreSound
  BY UpdateInvSound
<1> QED
  BY <1>1, <1>2, <1>3, PTL DEF UpdateSpec

-----------------------------------------------------------------------------
(***************************************************************************)
(* Backups: what a restore brings back has its objects.                    *)
(***************************************************************************)
(* What a job is about to load, or a file would bring, has its objects.    *)
HasObjects(some) == some \subseteq pieceObjects \cup bare

(* A dump that is being written was taken from rows with their objects,    *)
JobsSound ==
  \A j \in BackupJob :
    /\ jobs[j].step = "write" => HasObjects(jobs[j].rows)
    /\ jobs[j].step \in {"clean", "load"} =>
         /\ jobs[j].file \in BackupFile /\ files[jobs[j].file].state = "whole"
         /\ files[jobs[j].file].packed => HasObjects(jobs[j].rows)

(* and a file that was packed after its dump has the objects of its rows.  *)
FilesSound ==
  \A f \in BackupFile : files[f].packed => files[f].rows \subseteq files[f].objects \cup bare

BackupsInv == BackupTypeOK /\ JobsSound /\ FilesSound /\ RowsKeepTheirObjects

(* At first there is no backup, and every row has its object.              *)
LEMMA BackupInitInv == BackupInit => BackupsInv
BY DEF BackupInit, BackupsInv, BackupTypeOK, JobsSound, FilesSound, RowsKeepTheirObjects,
       HasObjects, NoFile, BackupIdle, BackupKind

(* Every action keeps the types of jobs, files and rows.                   *)
LEMMA BackupTypeStep ==
  BackupTypeOK /\ [BackupNext]_backupVars => BackupTypeOK'
<1> SUFFICES ASSUME BackupTypeOK, [BackupNext]_backupVars PROVE BackupTypeOK'
  OBVIOUS
<1> USE DEF BackupTypeOK, NoFile, BackupIdle, BackupKind, PiecesOf, BackupJobEnds
<1>1. ASSUME NEW x \in Piece, AddPiece(x) PROVE BackupTypeOK'
  BY <1>1 DEF AddPiece
<1>2. ASSUME NEW x \in Piece, RemovePiece(x) PROVE BackupTypeOK'
  BY <1>2 DEF RemovePiece
<1>3. ASSUME NEW j \in BackupJob, NEW kind \in BackupKind, NEW scope \in SUBSET Workspace,
             NEW global \in BOOLEAN, DumpSchemas(j, kind, scope, global)
      PROVE  BackupTypeOK'
  BY <1>3 DEF DumpSchemas
<1>4. ASSUME NEW j \in BackupJob, NEW f \in BackupFile, WriteBackup(j, f) PROVE BackupTypeOK'
  <2>1. PICK archive \in Archives(jobs[j]) : files' = [files EXCEPT ![f] = archive]
    BY <1>4 DEF WriteBackup
  <2>2. archive \in [state : {"none", "whole", "cut"}, kind : BackupKind, scope : SUBSET Workspace,
                    global : BOOLEAN, rows : SUBSET Piece, objects : SUBSET Piece, packed : BOOLEAN]
    <3>1. Packs(jobs[j]) \in BOOLEAN
      BY DEF Packs
    <3>2. \/ archive = [state |-> "whole", kind |-> jobs[j].kind, scope |-> jobs[j].scope,
                       global |-> jobs[j].global, rows |-> jobs[j].rows,
                       objects |-> IF Packs(jobs[j]) THEN pieceObjects ELSE {},
                       packed |-> Packs(jobs[j])]
          \/ \E objects \in SUBSET Piece :
               archive = [NoFile EXCEPT !.state = "cut", !.objects = objects]
      BY <2>1 DEF Archives
    <3>3. pieceObjects \in SUBSET Piece /\ jobs[j] \in
            [step : {"idle", "write", "clean", "load"}, kind : BackupKind,
             scope : SUBSET Workspace, global : BOOLEAN, rows : SUBSET Piece,
             file : BackupFile \cup {NoBackup}]
      OBVIOUS
    <3>4. CASE \E objects \in SUBSET Piece :
                 archive = [NoFile EXCEPT !.state = "cut", !.objects = objects]
      BY <3>4
    <3>5. CASE archive = [state |-> "whole", kind |-> jobs[j].kind, scope |-> jobs[j].scope,
                       global |-> jobs[j].global, rows |-> jobs[j].rows,
                       objects |-> IF Packs(jobs[j]) THEN pieceObjects ELSE {},
                       packed |-> Packs(jobs[j])]
      <4>1. (IF Packs(jobs[j]) THEN pieceObjects ELSE {}) \in SUBSET Piece
        BY <3>3
      <4> QED
        BY <3>1, <3>3, <3>5, <4>1
    <3> QED
      BY <3>2, <3>4, <3>5
  <2>3. copied' \in SUBSET Workspace
    <3>1. jobs[j].scope \in SUBSET Workspace
      OBVIOUS
    <3> QED
      BY <1>4, <3>1 DEF WriteBackup
  <2>4. jobs' = [jobs EXCEPT ![j] = BackupIdle] /\ UNCHANGED <<present, pieceRows, pieceObjects, bare>>
    BY <1>4 DEF WriteBackup
  <2> QED
    BY <2>1, <2>2, <2>3, <2>4
<1>5. ASSUME NEW j \in BackupJob, NEW f \in BackupFile, UnpackBackup(j, f) PROVE BackupTypeOK'
  BY <1>5 DEF UnpackBackup, RestoreBegins
<1>6. ASSUME NEW j \in BackupJob, DropSchemas(j) PROVE BackupTypeOK'
  <2>1. /\ present' \subseteq present /\ pieceRows' \subseteq pieceRows
        /\ jobs' = [jobs EXCEPT ![j].step = "load"]
        /\ UNCHANGED <<pieceObjects, copied, files, bare>>
    BY <1>6 DEF DropSchemas
  <2> QED
    BY <2>1
<1>7. ASSUME NEW j \in BackupJob, LoadDump(j) PROVE BackupTypeOK'
  BY <1>7 DEF LoadDump
<1>8. ASSUME NEW j \in BackupJob, BackupJobDies(j) PROVE BackupTypeOK'
  BY <1>8 DEF BackupJobDies
<1>9. CASE UNCHANGED backupVars
  BY <1>9 DEF backupVars
<1> HIDE DEF BackupTypeOK
<1> QED
  BY <1>1, <1>2, <1>3, <1>4, <1>5, <1>6, <1>7, <1>8, <1>9 DEF BackupNext

BackupSound == JobsSound /\ FilesSound /\ RowsKeepTheirObjects

(* Every action keeps the objects of what a restore would bring.           *)
LEMMA BackupsStep == BackupsInv /\ [BackupNext]_backupVars => BackupSound'
<1> SUFFICES ASSUME BackupsInv, [BackupNext]_backupVars PROVE BackupSound'
  OBVIOUS
<1> USE DEF BackupsInv, BackupSound, BackupTypeOK, JobsSound, FilesSound, RowsKeepTheirObjects,
       HasObjects, NoFile, BackupIdle, BackupKind, BackupJobEnds
<1>1. ASSUME NEW x \in Piece, AddPiece(x) PROVE BackupSound'
  BY <1>1 DEF AddPiece
<1>2. ASSUME NEW x \in Piece, RemovePiece(x) PROVE BackupSound'
  BY <1>2 DEF RemovePiece
<1>3. ASSUME NEW j \in BackupJob, NEW kind \in BackupKind, NEW scope \in SUBSET Workspace,
             NEW global \in BOOLEAN, DumpSchemas(j, kind, scope, global)
      PROVE  BackupSound'
  BY <1>3 DEF DumpSchemas
<1>4. ASSUME NEW j \in BackupJob, NEW f \in BackupFile, WriteBackup(j, f) PROVE BackupSound'
  <2>1. PICK archive \in Archives(jobs[j]) : files' = [files EXCEPT ![f] = archive]
    BY <1>4 DEF WriteBackup
  <2>2. archive.packed => archive.rows = jobs[j].rows /\ archive.objects = pieceObjects
    <3>1. Packs(jobs[j]) \in BOOLEAN
      BY DEF Packs
    <3>2. CASE archive = [NoFile EXCEPT !.state = "cut", !.objects =
                            IF Packs(jobs[j]) THEN pieceObjects ELSE {}]
      BY <3>2
    <3>3. CASE archive = [state |-> "whole", kind |-> jobs[j].kind, scope |-> jobs[j].scope,
                       global |-> jobs[j].global, rows |-> jobs[j].rows,
                       objects |-> IF Packs(jobs[j]) THEN pieceObjects ELSE {},
                       packed |-> Packs(jobs[j])]
      <4>1. archive.packed = Packs(jobs[j]) /\ archive.rows = jobs[j].rows
            /\ archive.objects = (IF Packs(jobs[j]) THEN pieceObjects ELSE {})
        BY <3>1, <3>3
      <4> QED
        BY <3>1, <4>1
    <3> QED
      BY <2>1, <3>2, <3>3 DEF Archives
  <2>3. /\ jobs[j].step = "write" /\ files[f].state = "none"
        /\ jobs' = [jobs EXCEPT ![j] = BackupIdle]
        /\ UNCHANGED <<present, pieceRows, pieceObjects, bare>>
    BY <1>4 DEF WriteBackup
  <2> QED
    BY <2>1, <2>2, <2>3
<1>5. ASSUME NEW j \in BackupJob, NEW f \in BackupFile, UnpackBackup(j, f) PROVE BackupSound'
  BY <1>5 DEF UnpackBackup, RestoreBegins
<1>6. ASSUME NEW j \in BackupJob, DropSchemas(j) PROVE BackupSound'
  BY <1>6 DEF DropSchemas
<1>7. ASSUME NEW j \in BackupJob, LoadDump(j) PROVE BackupSound'
  BY <1>7 DEF LoadDump
<1>8. ASSUME NEW j \in BackupJob, BackupJobDies(j) PROVE BackupSound'
  BY <1>8 DEF BackupJobDies
<1>9. CASE UNCHANGED backupVars
  BY <1>9 DEF backupVars
<1> HIDE DEF BackupSound
<1> QED
  BY <1>1, <1>2, <1>3, <1>4, <1>5, <1>6, <1>7, <1>8, <1>9 DEF BackupNext

(* For any workspaces, jobs, files and rows, and a job that dies anywhere: *)
(* a row has its object unless it was removed while a backup or restore    *)
(* was under way, or came from a file without objects (the order of        *)
(* pg_dump, pack, unpack and load).                                        *)
THEOREM RowsHaveTheirObjects == BackupSpec => []RowsKeepTheirObjects
<1>1. BackupInit => BackupsInv
  BY BackupInitInv
<1>2. BackupsInv /\ [BackupNext]_backupVars => BackupsInv'
  BY BackupTypeStep, BackupsStep DEF BackupsInv, BackupSound
<1>3. BackupsInv => RowsKeepTheirObjects
  BY DEF BackupsInv
<1> QED
  BY <1>1, <1>2, <1>3, PTL DEF BackupSpec

-----------------------------------------------------------------------------
(***************************************************************************)
(* The pool: no connection is lost, and none is free while somebody waits. *)
(***************************************************************************)
(* Callers that have a connection, and those that have two.                *)
WithOne(at) == {c \in Caller : at[c] \in {"holds", "waitsInner", "holdsInner"}}

WithTwo(at) == {c \in Caller : at[c] = "holdsInner"}

InUse(at) == Cardinality(WithOne(at)) + Cardinality(WithTwo(at))

(* The inductive invariant: no connection is lost, none is free while      *)
(* somebody waits, and only those who said so wait for a second.           *)
PoolInv ==
  /\ PoolTypeOK
  /\ free + InUse(call) = MaxOpen
  /\ free > 0 => Waiting(call) = {}
  /\ \A c \in Caller : call[c] \in {"waitsInner", "holdsInner"} => c \in nests

(* A set of callers can be counted.                                        *)
LEMMA CallersFinite ==
  ASSUME NEW S \in SUBSET Caller
  PROVE  IsFiniteSet(S) /\ Cardinality(S) \in Nat
BY PoolConstants, FS_Subset, FS_CardinalityType

(* The members of two sets without a common one add up.                    *)
LEMMA DisjointParts ==
  ASSUME NEW S, NEW T, IsFiniteSet(S), IsFiniteSet(T), S \cap T = {}
  PROVE  Cardinality(S \cup T) = Cardinality(S) + Cardinality(T)
<1>1. Cardinality(S) \in Nat /\ Cardinality(T) \in Nat
  BY FS_CardinalityType
<1>2. Cardinality(S \cup T) = Cardinality(S) + Cardinality(T) - Cardinality({})
  BY FS_Union
<1> QED
  BY <1>1, <1>2, FS_EmptySet

(* One caller moves.                                                       *)
LEMMA OneCaller ==
  ASSUME NEW at \in [Caller -> CallStep], NEW c \in Caller, NEW step \in CallStep
  PROVE  /\ InUse(at) \in Nat
         /\ InUse([at EXCEPT ![c] = step]) = InUse(at) - Held(at[c]) + Held(step)
<1> DEFINE new == [at EXCEPT ![c] = step]
<1>1. /\ WithOne(at) \in SUBSET Caller /\ WithTwo(at) \in SUBSET Caller
      /\ WithOne(new) \in SUBSET Caller /\ WithTwo(new) \in SUBSET Caller
  BY DEF WithOne, WithTwo
<1>2. /\ Cardinality(WithOne(at)) \in Nat /\ Cardinality(WithTwo(at)) \in Nat
      /\ IsFiniteSet(WithOne(at)) /\ IsFiniteSet(WithTwo(at))
  BY <1>1, CallersFinite
<1>3. WithOne(new) = IF step \in {"holds", "waitsInner", "holdsInner"}
                     THEN WithOne(at) \cup {c} ELSE WithOne(at) \ {c}
  BY DEF WithOne
<1>4. WithTwo(new) = IF step = "holdsInner" THEN WithTwo(at) \cup {c} ELSE WithTwo(at) \ {c}
  BY DEF WithTwo
<1>5. /\ c \in WithOne(at) <=> at[c] \in {"holds", "waitsInner", "holdsInner"}
      /\ c \in WithTwo(at) <=> at[c] = "holdsInner"
  BY DEF WithOne, WithTwo
<1>6. /\ Cardinality(WithOne(at) \cup {c}) =
           IF c \in WithOne(at) THEN Cardinality(WithOne(at)) ELSE Cardinality(WithOne(at)) + 1
      /\ Cardinality(WithOne(at) \ {c}) =
           IF c \in WithOne(at) THEN Cardinality(WithOne(at)) - 1 ELSE Cardinality(WithOne(at))
  BY <1>2, FS_AddElement, FS_RemoveElement
<1>7. /\ Cardinality(WithTwo(at) \cup {c}) =
           IF c \in WithTwo(at) THEN Cardinality(WithTwo(at)) ELSE Cardinality(WithTwo(at)) + 1
      /\ Cardinality(WithTwo(at) \ {c}) =
           IF c \in WithTwo(at) THEN Cardinality(WithTwo(at)) - 1 ELSE Cardinality(WithTwo(at))
  BY <1>2, FS_AddElement, FS_RemoveElement
<1>8. InUse(at) = Cardinality(WithOne(at)) + Cardinality(WithTwo(at))
      /\ InUse(new) = Cardinality(WithOne(new)) + Cardinality(WithTwo(new))
  BY DEF InUse
<1>9. at[c] \in CallStep
  OBVIOUS
<1> HIDE DEF new
<1>10. Cardinality(WithOne(new)) = Cardinality(WithOne(at))
         - (IF at[c] \in {"holds", "waitsInner", "holdsInner"} THEN 1 ELSE 0)
         + (IF step \in {"holds", "waitsInner", "holdsInner"} THEN 1 ELSE 0)
  BY <1>2, <1>3, <1>5, <1>6
<1>11. Cardinality(WithTwo(new)) = Cardinality(WithTwo(at))
         - (IF at[c] = "holdsInner" THEN 1 ELSE 0) + (IF step = "holdsInner" THEN 1 ELSE 0)
  BY <1>2, <1>4, <1>5, <1>7
<1>12. \A s \in CallStep : Held(s) = (IF s \in {"holds", "waitsInner", "holdsInner"} THEN 1 ELSE 0)
                                     + (IF s = "holdsInner" THEN 1 ELSE 0)
  BY DEF Held, CallStep
<1>13. InUse(new) = InUse(at) - Held(at[c]) + Held(step)
  BY <1>2, <1>8, <1>9, <1>10, <1>11, <1>12
<1> QED
  BY <1>2, <1>8, <1>13 DEF new

(* Some who wait are served, one connection each.                          *)
LEMMA Served ==
  ASSUME NEW at \in [Caller -> CallStep], NEW S \in SUBSET Waiting(at)
  PROVE  LET new == [d \in Caller |-> IF d \in S THEN AfterWait(at[d]) ELSE at[d]] IN
         /\ new \in [Caller -> CallStep]
         /\ InUse(new) = InUse(at) + Cardinality(S)
         /\ Waiting(new) = Waiting(at) \ S
         /\ \A d \in Caller : new[d] \in {"waitsInner", "holdsInner"}
                                <=> at[d] \in {"waitsInner", "holdsInner"}
<1> DEFINE new == [d \in Caller |-> IF d \in S THEN AfterWait(at[d]) ELSE at[d]]
           first == {d \in S : at[d] = "waits"}
           second == {d \in S : at[d] = "waitsInner"}
<1>1. \A d \in S : d \in Caller /\ at[d] \in {"waits", "waitsInner"}
  BY DEF Waiting
<1>2. \A d \in Caller : /\ d \in first => new[d] = "holds" /\ at[d] = "waits"
                        /\ d \in second => new[d] = "holdsInner" /\ at[d] = "waitsInner"
                        /\ d \notin first \cup second => new[d] = at[d]
                        /\ d \in first \cup second <=> d \in S
  BY <1>1 DEF AfterWait
<1>3. new \in [Caller -> CallStep]
  BY <1>1 DEF AfterWait, CallStep
<1>4. /\ WithOne(new) = WithOne(at) \cup first /\ WithOne(at) \cap first = {}
      /\ WithTwo(new) = WithTwo(at) \cup second /\ WithTwo(at) \cap second = {}
      /\ S = first \cup second /\ first \cap second = {}
  <2> HIDE DEF new
  <2>1. first \subseteq Caller /\ second \subseteq Caller
    BY <1>1
  <2>2. S = first \cup second /\ first \cap second = {}
    BY <1>1
  <2> HIDE DEF first, second
  <2> QED
    BY <1>2, <2>1, <2>2 DEF WithOne, WithTwo
<1>5. /\ Waiting(new) = Waiting(at) \ S
      /\ \A d \in Caller : new[d] \in {"waitsInner", "holdsInner"}
                             <=> at[d] \in {"waitsInner", "holdsInner"}
  <2> HIDE DEF new, first, second
  <2> QED
    BY <1>2 DEF Waiting
<1>6. /\ WithOne(at) \in SUBSET Caller /\ WithTwo(at) \in SUBSET Caller
      /\ first \in SUBSET Caller /\ second \in SUBSET Caller /\ {} \in SUBSET Caller
  BY <1>1 DEF WithOne, WithTwo
<1>7. /\ IsFiniteSet(WithOne(at)) /\ IsFiniteSet(WithTwo(at)) /\ IsFiniteSet(first) /\ IsFiniteSet(second)
      /\ Cardinality(WithOne(at)) \in Nat /\ Cardinality(WithTwo(at)) \in Nat
      /\ Cardinality(first) \in Nat /\ Cardinality(second) \in Nat
  BY <1>6, CallersFinite
<1> HIDE DEF new, first, second
<1>9. Cardinality(WithOne(new)) = Cardinality(WithOne(at)) + Cardinality(first)
  BY <1>4, <1>7, DisjointParts
<1>10. Cardinality(WithTwo(new)) = Cardinality(WithTwo(at)) + Cardinality(second)
  BY <1>4, <1>7, DisjointParts
<1>11. Cardinality(S) = Cardinality(first) + Cardinality(second)
  BY <1>4, <1>7, DisjointParts
<1>12. InUse(new) = InUse(at) + Cardinality(S)
  BY <1>7, <1>9, <1>10, <1>11 DEF InUse
<1> QED
  BY <1>3, <1>5, <1>12 DEF new

(* A connection or two come back and go to those who wait.                 *)
LEMMA GivesBack ==
  ASSUME PoolInv, NEW c \in Caller, NEW next \in {"idle", "holds"},
         GiveBack(c, Held(call[c]) - Held(next), next), Held(call[c]) >= Held(next),
         nests' = nests \ {c}
  PROVE  PoolInv'
<1> DEFINE at == [call EXCEPT ![c] = next]
           others == Waiting(at)
           back == Held(call[c]) - Held(next)
           given == IF Cardinality(others) < back THEN Cardinality(others) ELSE back
<1>1. at \in [Caller -> CallStep] /\ next \in CallStep /\ call \in [Caller -> CallStep]
      /\ free \in Nat /\ free + InUse(call) = MaxOpen
  BY DEF PoolInv, PoolTypeOK, CallStep
<1>2. InUse(at) = InUse(call) - back /\ InUse(call) \in Nat /\ back \in Nat
  <2>1. Held(call[c]) \in Nat /\ Held(next) \in Nat
    BY <1>1 DEF Held, CallStep
  <2>2. InUse(at) = InUse(call) - Held(call[c]) + Held(next) /\ InUse(call) \in Nat
    BY <1>1, OneCaller
  <2> QED
    BY <2>1, <2>2
<1>3. PICK S \in SUBSET others :
        /\ Cardinality(S) = given
        /\ call' = [d \in Caller |-> IF d \in S THEN AfterWait(at[d]) ELSE at[d]]
        /\ free' = free + back - given
  BY DEF GiveBack
<1>4. others \in SUBSET Caller /\ IsFiniteSet(others) /\ Cardinality(others) \in Nat
  BY CallersFinite DEF Waiting
<1>5. /\ call' \in [Caller -> CallStep]
      /\ InUse(call') = InUse(at) + Cardinality(S)
      /\ Waiting(call') = others \ S
      /\ \A d \in Caller : call'[d] \in {"waitsInner", "holdsInner"}
                             <=> at[d] \in {"waitsInner", "holdsInner"}
  BY <1>1, <1>3, Served
<1>6. given \in Nat /\ given <= back
  BY <1>2, <1>4
<1>7. free' \in Nat /\ free' + InUse(call') = MaxOpen
  <2> HIDE DEF given, back, at
  <2> QED
    BY <1>1, <1>2, <1>3, <1>5, <1>6
<1>8. InUse(call') \in Nat /\ MaxOpen \in Nat
  BY <1>5, OneCaller, PoolConstants, <1>1
<1>9. free' \in 0 .. MaxOpen
  BY <1>7, <1>8
<1>10. free' > 0 => Waiting(call') = {}
  <2>1. CASE free > 0
    <3>1. others = {}
      BY <1>1, <2>1 DEF PoolInv, Waiting
    <3> QED
      BY <1>5, <3>1
  <2>2. CASE free = 0 /\ given < back
    <3>0. Cardinality(S) = Cardinality(others)
      BY <1>2, <1>3, <1>4, <2>2
    <3>1. S = others
      BY <1>4, <3>0, FS_Subset
    <3> QED
      BY <1>5, <3>1
  <2> QED
    BY <1>1, <1>2, <1>3, <1>6, <2>1, <2>2
<1>11. \A d \in Caller : call'[d] \in {"waitsInner", "holdsInner"} => d \in nests'
  <2>1. \A d \in Caller : at[d] \in {"waitsInner", "holdsInner"} => d # c /\ d \in nests
    BY <1>1 DEF PoolInv
  <2> QED
    BY <1>5, <2>1
<1>12. nests' \in SUBSET Caller
  BY DEF PoolInv, PoolTypeOK
<1>13. PoolTypeOK'
  BY <1>5, <1>9, <1>12 DEF PoolTypeOK
<1> QED
  BY <1>7, <1>10, <1>11, <1>13 DEF PoolInv, InUse, WithOne, WithTwo, Waiting

(* A caller asks for a connection.                                         *)
LEMMA Asks ==
  ASSUME PoolInv, NEW c \in Caller, NEW wait \in {"waits", "waitsInner"},
         Ask(c, wait), Held(call[c]) = Held(wait),
         nests \subseteq nests', nests' \subseteq Caller, wait = "waitsInner" => c \in nests'
  PROVE  PoolInv'
<1>1. call \in [Caller -> CallStep] /\ free \in Nat /\ free + InUse(call) = MaxOpen
      /\ MaxOpen \in Nat
  BY PoolConstants DEF PoolInv, PoolTypeOK
<1>2. AfterWait(wait) \in CallStep /\ wait \in CallStep /\ Held(AfterWait(wait)) = Held(wait) + 1
      /\ Held(wait) \in Nat /\ AfterWait(wait) \in {"holds", "holdsInner"}
      /\ (AfterWait(wait) = "holdsInner" <=> wait = "waitsInner")
  BY DEF AfterWait, CallStep, Held
<1>3. CASE free > 0 /\ free' = free - 1 /\ call' = [call EXCEPT ![c] = AfterWait(wait)]
  <2>1. InUse(call') = InUse(call) + 1 /\ InUse(call) \in Nat
    <3>1. InUse([call EXCEPT ![c] = AfterWait(wait)])
            = InUse(call) - Held(call[c]) + Held(AfterWait(wait)) /\ InUse(call) \in Nat
      BY <1>1, <1>2, OneCaller
    <3> QED
      BY <1>2, <1>3, <3>1
  <2>2. free' \in 0 .. MaxOpen /\ free' + InUse(call') = MaxOpen
    BY <1>1, <1>3, <2>1
  <2>3. Waiting(call') = {}
    BY <1>1, <1>2, <1>3 DEF PoolInv, Waiting
  <2>4. PoolTypeOK'
    BY <1>1, <1>2, <1>3, <2>2 DEF PoolTypeOK
  <2>5. \A d \in Caller : call'[d] \in {"waitsInner", "holdsInner"} => d \in nests'
    BY <1>1, <1>2, <1>3 DEF PoolInv
  <2> QED
    BY <2>2, <2>3, <2>4, <2>5 DEF PoolInv, InUse, WithOne, WithTwo, Waiting
<1>4. CASE free = 0 /\ call' = [call EXCEPT ![c] = wait] /\ UNCHANGED free
  <2>1. InUse(call') = InUse(call)
    <3>1. InUse([call EXCEPT ![c] = wait])
            = InUse(call) - Held(call[c]) + Held(wait) /\ InUse(call) \in Nat
      BY <1>1, <1>2, OneCaller
    <3> QED
      BY <1>2, <1>4, <3>1
  <2>2. PoolTypeOK'
    BY <1>1, <1>2, <1>4 DEF PoolTypeOK, PoolInv
  <2>3. \A d \in Caller : call'[d] \in {"waitsInner", "holdsInner"} => d \in nests'
    BY <1>1, <1>4 DEF PoolInv
  <2>4. ~(free' > 0) /\ free' + InUse(call') = MaxOpen
    BY <1>1, <1>4, <2>1
  <2> QED
    BY <2>2, <2>3, <2>4 DEF PoolInv, InUse, WithOne, WithTwo, Waiting
<1> QED
  BY <1>3, <1>4 DEF Ask

(* At first every connection is free and nobody waits.                     *)
LEMMA PoolInitInv == PoolInit => PoolInv
<1> SUFFICES ASSUME PoolInit PROVE PoolInv
  OBVIOUS
<1>1. WithOne(call) = {} /\ WithTwo(call) = {} /\ Waiting(call) = {}
  BY DEF PoolInit, WithOne, WithTwo, Waiting
<1>2. InUse(call) = 0
  BY <1>1, FS_EmptySet DEF InUse
<1> QED
  BY <1>1, <1>2, PoolConstants DEF PoolInit, PoolInv, PoolTypeOK, CallStep

(* Every action keeps the invariant of the pool.                           *)
LEMMA PoolInvStep == PoolInv /\ [PoolNext]_poolVars => PoolInv'
<1> SUFFICES ASSUME PoolInv, [PoolNext]_poolVars PROVE PoolInv'
  OBVIOUS
<1>steps. \A c \in Caller : call[c] \in CallStep
  BY DEF PoolInv, PoolTypeOK
<1>1. ASSUME NEW c \in Caller, NEW inner \in BOOLEAN, BeginTx(c, inner) PROVE PoolInv'
  <2>1. Held(call[c]) = Held("waits") /\ Ask(c, "waits")
    BY <1>1 DEF BeginTx, Held
  <2>2. nests \subseteq nests' /\ nests' \subseteq Caller
    BY <1>1 DEF BeginTx, PoolInv, PoolTypeOK
  <2> QED
    BY <2>1, <2>2, Asks
<1>2. ASSUME NEW c \in Caller, BeginInner(c) PROVE PoolInv'
  <2>1. Held(call[c]) = Held("waitsInner") /\ Ask(c, "waitsInner")
    BY <1>2 DEF BeginInner, Held
  <2>2. nests' = nests /\ nests \subseteq Caller /\ c \in nests
    BY <1>2 DEF BeginInner, PoolInv, PoolTypeOK
  <2> QED
    BY <2>1, <2>2, Asks
<1>3. ASSUME NEW c \in Caller, EndInner(c) PROVE PoolInv'
  <2>1. Held(call[c]) = 2 /\ Held("holds") = 1
    BY <1>3 DEF EndInner, Held
  <2>2. GiveBack(c, Held(call[c]) - Held("holds"), "holds") /\ Held(call[c]) >= Held("holds")
    BY <1>3, <2>1 DEF EndInner
  <2> QED
    BY <1>3, <2>2, GivesBack DEF EndInner
<1>4. ASSUME NEW c \in Caller, EndTx(c) PROVE PoolInv'
  <2>1. Held(call[c]) = 1 /\ Held("idle") = 0
    BY <1>4 DEF EndTx, Held
  <2>2. GiveBack(c, Held(call[c]) - Held("idle"), "idle") /\ Held(call[c]) >= Held("idle")
    BY <1>4, <2>1 DEF EndTx
  <2> QED
    BY <1>4, <2>2, GivesBack DEF EndTx
<1>5. ASSUME NEW c \in Caller, RequestTimesOut(c) PROVE PoolInv'
  <2>1. Held(call[c]) \in Nat /\ Held("idle") = 0
    BY <1>steps DEF Held, CallStep
  <2>2. GiveBack(c, Held(call[c]) - Held("idle"), "idle") /\ Held(call[c]) >= Held("idle")
    BY <1>5, <2>1 DEF RequestTimesOut
  <2> QED
    BY <1>5, <2>2, GivesBack DEF RequestTimesOut
<1>6. CASE UNCHANGED poolVars
  BY <1>6 DEF poolVars, PoolInv, PoolTypeOK, InUse, WithOne, WithTwo, Waiting
<1> HIDE DEF PoolInv
<1> QED
  BY <1>1, <1>2, <1>3, <1>4, <1>5, <1>6 DEF PoolNext

(* For any number of callers and connections: nothing is lost, nothing is  *)
(* free while somebody waits, and who waits without end waits for as many  *)
(* that hold one connection and want another.                              *)
THEOREM ConnectionsAreSound == PoolSpec => []PoolIsSound
<1>1. ASSUME PoolInv PROVE PoolIsSound
  <2> DEFINE holding(step) == {c \in Caller : call[c] \in step}
  <2>1. /\ holding({"holds", "waitsInner", "holdsInner"}) = WithOne(call)
        /\ holding({"holdsInner"}) = WithTwo(call)
    BY DEF WithOne, WithTwo
  <2>2. /\ Cardinality(WithOne(call)) \in Nat /\ Cardinality(WithTwo(call)) \in Nat
        /\ free \in Nat /\ MaxOpen \in Nat
    BY <1>1, CallersFinite, PoolConstants DEF PoolInv, PoolTypeOK, WithOne, WithTwo
  <2>3. free + Cardinality(WithOne(call)) + Cardinality(WithTwo(call)) = MaxOpen
    BY <1>1, <2>2 DEF PoolInv, InUse
  <2>4. ASSUME Waiting(call) # {}, holding({"holds", "holdsInner"}) = {}
        PROVE  Cardinality(nests) >= MaxOpen /\ Cardinality(holding({"waitsInner"})) = MaxOpen
    <3>1. free = 0
      BY <1>1, <2>2, <2>4 DEF PoolInv
    <3>2. WithTwo(call) = {} /\ WithOne(call) = holding({"waitsInner"})
      BY <2>4 DEF WithOne, WithTwo
    <3>3. Cardinality(holding({"waitsInner"})) = MaxOpen
      BY <2>2, <2>3, <3>1, <3>2, FS_EmptySet
    <3>4. holding({"waitsInner"}) \in SUBSET nests /\ nests \in SUBSET Caller
      BY <1>1 DEF PoolInv, PoolTypeOK
    <3>5. IsFiniteSet(nests) /\ Cardinality(nests) \in Nat
      BY <3>4, CallersFinite
    <3>6. Cardinality(holding({"waitsInner"})) <= Cardinality(nests)
      BY <3>4, <3>5, FS_Subset
    <3> QED
      BY <2>2, <3>3, <3>5, <3>6
  <2> QED
    BY <1>1, <2>1, <2>3, <2>4 DEF PoolIsSound, PoolInv
<1> QED
  BY <1>1, PoolInitInv, PoolInvStep, PTL DEF PoolSpec
=============================================================================
