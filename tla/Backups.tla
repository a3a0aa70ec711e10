------------------------------ MODULE Backups -------------------------------
(***************************************************************************)
(* Backup and restore from the administration pages.  A backup dumps the   *)
(* schemas and, when it is full, packs the storage directory afterwards; a *)
(* restore unpacks the files, drops the schemas and loads the dump.  None  *)
(* of them excludes another or the workspaces' own requests.  Objects are  *)
(* kept by the local provider, whose directory is the one that is packed.  *)
(***************************************************************************)
EXTENDS FiniteSets

CONSTANTS Workspace, Item, BackupFile, BackupJob, NoBackup

ASSUME BackupConstants == NoBackup \notin BackupFile

Piece == Workspace \X Item   \* an attachment: a row of a workspace and its object

VARIABLES
  present,       \* workspaces whose schema exists
  pieceRows,     \* their rows
  pieceObjects,  \* the storage directory
  copied,        \* workspaces with a directory tenants/<code>: their uploaded backups
  files,         \* backup files
  jobs,          \* backups and restores between their steps
  bare           \* pieces removed while a job was between its steps, or loaded from a
                 \* file without objects, for the property

backupVars == <<present, pieceRows, pieceObjects, copied, files, jobs, bare>>

BackupKind == {"full", "data", "schema"}
NoFile == [state |-> "none", kind |-> "full", scope |-> {}, global |-> FALSE, rows |-> {},
           objects |-> {}, packed |-> FALSE]
BackupIdle == [step |-> "idle", kind |-> "full", scope |-> {}, global |-> FALSE, rows |-> {},
               file |-> NoBackup]

BackupTypeOK ==
  /\ present \in SUBSET Workspace
  /\ {pieceRows, pieceObjects, bare} \subseteq SUBSET Piece
  /\ copied \in SUBSET Workspace
  /\ files \in [BackupFile ->
        [state : {"none", "whole", "cut"}, kind : BackupKind, scope : SUBSET Workspace,
         global : BOOLEAN, rows : SUBSET Piece, objects : SUBSET Piece, packed : BOOLEAN]]
  /\ jobs \in [BackupJob ->
        [step : {"idle", "write", "clean", "load"}, kind : BackupKind,
         scope : SUBSET Workspace, global : BOOLEAN, rows : SUBSET Piece,
         file : BackupFile \cup {NoBackup}]]

BackupInit ==
  /\ present = Workspace
  /\ pieceRows \in SUBSET Piece
  /\ pieceObjects = pieceRows
  /\ copied = {}
  /\ files = [f \in BackupFile |-> NoFile]
  /\ jobs = [j \in BackupJob |-> BackupIdle]
  /\ bare = {}

PiecesOf(scope) == {x \in Piece : x[1] \in scope}

BackupJobEnds(j) == jobs' = [jobs EXCEPT ![j] = BackupIdle]

-----------------------------------------------------------------------------
(* The workspaces' requests                                                *)

AddPiece(x) ==
  /\ x[1] \in present
  /\ x \notin pieceRows \cup pieceObjects \cup bare
  /\ \A f \in BackupFile : x \notin files[f].rows
  /\ pieceRows' = pieceRows \cup {x}
  /\ pieceObjects' = pieceObjects \cup {x}
  /\ UNCHANGED <<present, copied, files, jobs, bare>>

RemovePiece(x) ==
  /\ x[1] \in present
  /\ x \in pieceRows
  /\ pieceRows' = pieceRows \ {x}
  /\ pieceObjects' = pieceObjects \ {x}
  /\ bare' = IF \E j \in BackupJob : jobs[j].step # "idle" THEN bare \cup {x} ELSE bare
  /\ UNCHANGED <<present, copied, files, jobs>>

-----------------------------------------------------------------------------
(* CreateBackup                                                            *)

(* pg_dump of everything, or of one workspace's schema.                    *)
DumpSchemas(j, kind, scope, global) ==
  /\ jobs[j].step = "idle"
  /\ IF global THEN scope = present ELSE scope \subseteq present /\ Cardinality(scope) = 1
  /\ jobs' = [jobs EXCEPT ![j] =
        [step |-> "write", kind |-> kind, scope |-> scope, global |-> global,
         rows |-> IF kind = "schema" THEN {} ELSE pieceRows \cap PiecesOf(scope),
         file |-> NoBackup]]
  /\ UNCHANGED <<present, pieceRows, pieceObjects, copied, files, bare>>

(* A full backup packs the storage directory, for a workspace that has a   *)
(* directory of its own only that one, which holds no more than copies.    *)
Packs(job) == job.kind = "full" /\ (job.global \/ job.scope \cap copied = {})

(* createBackupArchive ignores errors of writing: the archive may end      *)
(* early, and no more than its objects can be used.                        *)
Archives(job) ==
  LET objects == IF Packs(job) THEN pieceObjects ELSE {}
  IN  {[state |-> "whole", kind |-> job.kind, scope |-> job.scope, global |-> job.global,
        rows |-> job.rows, objects |-> objects, packed |-> Packs(job)],
       [NoFile EXCEPT !.state = "cut", !.objects = objects]}

(* A copy of the file is put into the storage, its error ignored.          *)
WriteBackup(j, f) ==
  LET job == jobs[j]
  IN  /\ job.step = "write"
      /\ files[f].state = "none"
      /\ \E archive \in Archives(job) : files' = [files EXCEPT ![f] = archive]
      /\ copied' \in {copied, IF job.global THEN copied ELSE copied \cup job.scope}
      /\ BackupJobEnds(j)
      /\ UNCHANGED <<present, pieceRows, pieceObjects, bare>>

-----------------------------------------------------------------------------
(* RestoreBackup                                                           *)

RestoreBegins(j, f) ==
  jobs' = [jobs EXCEPT ![j] =
    [step |-> "clean", kind |-> files[f].kind, scope |-> files[f].scope,
     global |-> files[f].global, rows |-> files[f].rows, file |-> f]]

(* Mutant: only the dump is unpacked. *)
UnpackBackup_SqlOnly(j, f) ==
  /\ jobs[j].step = "idle"
  /\ files[f].state = "whole"
  /\ RestoreBegins(j, f)
  /\ UNCHANGED <<present, pieceRows, pieceObjects, copied, files, bare>>

(* Files are written over those that are there, none is removed.  An       *)
(* archive that ends early is refused after what it had was unpacked.      *)
UnpackBackup(j, f) ==
  /\ jobs[j].step = "idle"
  /\ \/ /\ files[f].state = "whole"
        /\ pieceObjects' = pieceObjects \cup files[f].objects
        /\ RestoreBegins(j, f)
     \/ /\ files[f].state = "cut"
        /\ \E part \in SUBSET files[f].objects : pieceObjects' = pieceObjects \cup part
        /\ UNCHANGED jobs
  /\ UNCHANGED <<present, pieceRows, copied, files, bare>>

(* The clean slate: every schema, or the workspace's.  An error is logged  *)
(* and the restore goes on.                                                *)
DropSchemas(j) ==
  LET gone == IF jobs[j].global THEN Workspace ELSE jobs[j].scope
  IN  /\ jobs[j].step = "clean"
      /\ \/ /\ present' = present \ gone
            /\ pieceRows' = pieceRows \ PiecesOf(gone)
         \/ UNCHANGED <<present, pieceRows>>
      /\ jobs' = [jobs EXCEPT ![j].step = "load"]
      /\ UNCHANGED <<pieceObjects, copied, files, bare>>

(* psql goes on after a failing statement and reports success: a dump of   *)
(* data alone loads nothing into schemas that were dropped, and into       *)
(* others what does not collide; any load may stop half way.               *)
LoadDump(j) ==
  LET job == jobs[j]
      into == PiecesOf(IF job.kind = "data" THEN job.scope \cap present ELSE job.scope)
  IN  /\ job.step = "load"
      /\ present' = IF job.kind = "data" THEN present ELSE present \cup job.scope
      /\ \E part \in SUBSET (job.rows \cap into) :
           /\ pieceRows' =
                IF job.kind = "data" THEN pieceRows \cup part ELSE (pieceRows \ into) \cup part
           /\ bare' = IF files[job.file].packed THEN bare ELSE bare \cup part
      /\ BackupJobEnds(j)
      /\ UNCHANGED <<pieceObjects, copied, files>>

(* The request is cut off or the process stops between two steps.          *)
BackupJobDies(j) ==
  /\ jobs[j].step # "idle"
  /\ BackupJobEnds(j)
  /\ UNCHANGED <<present, pieceRows, pieceObjects, copied, files, bare>>

BackupNext ==
  \/ \E x \in Piece : AddPiece(x) \/ RemovePiece(x)
  \/ \E j \in BackupJob, kind \in BackupKind, scope \in SUBSET Workspace, global \in BOOLEAN :
       DumpSchemas(j, kind, scope, global)
  \/ \E j \in BackupJob, f \in BackupFile : WriteBackup(j, f) \/ UnpackBackup(j, f)
  \/ \E j \in BackupJob : DropSchemas(j) \/ LoadDump(j) \/ BackupJobDies(j)

BackupSpec == BackupInit /\ [][BackupNext]_backupVars

-----------------------------------------------------------------------------
(* Properties                                                              *)

(* Rows first, objects second when a backup is made, objects first, rows   *)
(* second when it is restored: a row has its object unless it was removed  *)
(* while a backup or restore was under way, or came from a file without    *)
(* objects, which includes every full backup of a workspace after the one  *)
(* whose copy made the workspace a directory in the storage.               *)
RowsKeepTheirObjects == pieceRows \subseteq pieceObjects \cup bare
=============================================================================
