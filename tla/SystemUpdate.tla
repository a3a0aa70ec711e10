---------------------------- MODULE SystemUpdate ----------------------------
(***************************************************************************)
(* The update of the program by itself.  ApplyUpdate starts a goroutine    *)
(* that resets the sources, builds the binaries in their place, migrates   *)
(* the database, builds the web pages, restarts the other processes, says  *)
(* success and ends its own process a second later.  A status in memory    *)
(* keeps a second update out while one is running.  Most failures are      *)
(* logged and the update goes on.                                          *)
(***************************************************************************)
EXTENDS Naturals, FiniteSets

CONSTANTS
  Updater,      \* update goroutines
  MaxVersion    \* bound on the versions of the sources

ASSUME UpdateConstants == MaxVersion \in Nat

Program == {"api", "other"}   \* other: pekan-worker and pekan-ai

Version == 0 .. MaxVersion

VARIABLES
  remote,      \* the version origin/main has
  tree,        \* the version of the working tree
  binary,      \* the binaries on disk
  running,     \* what the processes run
  schema,      \* the version the database is migrated to
  status,      \* updateState.Status
  upd,         \* update goroutines by their next step
  ahead,       \* binaries may be newer than the schema, for the properties
  cutShort     \* the last update ended before its end, likewise

updateVars == <<remote, tree, binary, running, schema, status, upd, ahead,
                cutShort>>

UpdateTypeOK ==
  /\ {remote, tree, schema} \subseteq Version
  /\ {binary, running} \subseteq [Program -> Version]
  /\ status \in {"idle", "running", "failed", "success"}
  /\ upd \in [Updater -> {"idle", "fetch", "buildApi", "buildOthers", "migrate", "buildWeb",
                          "restart", "exit"}]
  /\ {ahead, cutShort} \subseteq BOOLEAN

UpdateInit ==
  /\ remote = 0 /\ tree = 0 /\ schema = 0
  /\ binary = [p \in Program |-> 0]
  /\ running = [p \in Program |-> 0]
  /\ status = "idle"
  /\ upd = [u \in Updater |-> "idle"]
  /\ ahead = FALSE /\ cutShort = FALSE

(* Between the first binary and the migrations.                            *)
Exposed == \E u \in Updater : upd[u] \in {"buildOthers", "migrate"}

VersionReleased ==
  /\ remote < MaxVersion
  /\ remote' = remote + 1
  /\ UNCHANGED <<tree, binary, running, schema, status, upd, ahead, cutShort>>

(* ApplyUpdate refuses while an update is running, and fails when the log  *)
(* file cannot be opened.                                                  *)
ApplyUpdate(u) ==
  /\ upd[u] = "idle"
  /\ status # "running"
  /\ \/ status' = "running" /\ upd' = [upd EXCEPT ![u] = "fetch"]
     \/ status' = "failed" /\ UNCHANGED upd
  /\ UNCHANGED <<remote, tree, binary, running, schema, ahead, cutShort>>

(* A failing fetch or reset is logged: the old sources are built again.    *)
FetchSources(u) ==
  /\ upd[u] = "fetch"
  /\ tree' \in {tree, remote}
  /\ upd' = [upd EXCEPT ![u] = "buildApi"]
  /\ UNCHANGED <<remote, binary, running, schema, status, ahead, cutShort>>

(* A failing build of the api, or below of the web pages, ends the update. *)
BuildApi(u) ==
  /\ upd[u] = "buildApi"
  /\ \/ /\ binary' = [binary EXCEPT !["api"] = tree]
        /\ upd' = [upd EXCEPT ![u] = "buildOthers"]
        /\ cutShort' = FALSE
        /\ UNCHANGED status
     \/ /\ status' = "failed"
        /\ upd' = [upd EXCEPT ![u] = "idle"]
        /\ cutShort' = TRUE
        /\ UNCHANGED binary
  /\ UNCHANGED <<remote, tree, running, schema, ahead>>

(* The worker and the ai process: errors ignored.                          *)
BuildOthers(u) ==
  /\ upd[u] = "buildOthers"
  /\ binary' \in {binary, [binary EXCEPT !["other"] = tree]}
  /\ upd' = [upd EXCEPT ![u] = "migrate"]
  /\ UNCHANGED <<remote, tree, running, schema, status, ahead, cutShort>>

(* Mutant: a script that is not found counts as one that ran. *)
MigrateSchema_Skipped(u) ==
  /\ upd[u] = "migrate"
  /\ ahead' = FALSE
  /\ upd' = [upd EXCEPT ![u] = "buildWeb"]
  /\ UNCHANGED <<remote, tree, binary, running, schema, status, cutShort>>

(* The public migrations and the workspaces' own; a failure is a warning.  *)
MigrateSchema(u) ==
  /\ upd[u] = "migrate"
  /\ \/ schema' = tree /\ ahead' = FALSE
     \/ ahead' = TRUE /\ UNCHANGED schema
  /\ upd' = [upd EXCEPT ![u] = "buildWeb"]
  /\ UNCHANGED <<remote, tree, binary, running, status, cutShort>>

BuildWeb(u) ==
  /\ upd[u] = "buildWeb"
  /\ \/ upd' = [upd EXCEPT ![u] = "restart"] /\ UNCHANGED <<status, cutShort>>
     \/ upd' = [upd EXCEPT ![u] = "idle"] /\ status' = "failed" /\ cutShort' = TRUE
  /\ UNCHANGED <<remote, tree, binary, running, schema, ahead>>

(* pkill, whose failure is ignored: systemd starts what is on disk.  Then  *)
(* success, and from here a second update may begin.                       *)
RestartOthers(u) ==
  /\ upd[u] = "restart"
  /\ running' \in {running, [running EXCEPT !["other"] = binary["other"]]}
  /\ status' = "success"
  /\ upd' = [upd EXCEPT ![u] = "exit"]
  /\ UNCHANGED <<remote, tree, binary, schema, ahead, cutShort>>

(* The end of the api process takes every update with it, and the status;  *)
(* it is planned after a success, and otherwise a crash or a redeployment. *)
ApiRestarts ==
  /\ running' = [running EXCEPT !["api"] = binary["api"]]
  /\ status' = "idle"
  /\ upd' = [u \in Updater |-> "idle"]
  /\ ahead' = (ahead \/ Exposed)
  /\ cutShort' = (cutShort \/ \E u \in Updater : upd[u] = "buildApi")
  /\ UNCHANGED <<remote, tree, binary, schema>>

OtherRestarts ==
  /\ running' = [running EXCEPT !["other"] = binary["other"]]
  /\ ahead' = (ahead \/ Exposed)
  /\ UNCHANGED <<remote, tree, binary, schema, status, upd, cutShort>>

UpdateNext ==
  \/ VersionReleased
  \/ \E u \in Updater :
       \/ ApplyUpdate(u) \/ FetchSources(u) \/ BuildApi(u) \/ BuildOthers(u)
       \/ MigrateSchema(u) \/ BuildWeb(u) \/ RestartOthers(u)
  \/ ApiRestarts
  \/ OtherRestarts

UpdateSpec == UpdateInit /\ [][UpdateNext]_updateVars

-----------------------------------------------------------------------------
(* CheckUpdate compares the working tree with the newest commit it sees,   *)
(* at GitHub or by a fetch, and offers nothing when it sees none.          *)
UpdateAvailable(seen) == seen # tree

-----------------------------------------------------------------------------
(* Properties                                                              *)

(* No process runs code newer than the schema unless the last migration    *)
(* failed, or a process restarted while an update was between its first    *)
(* binary and its migrations: also when the update later fails, or a       *)
(* second one begins in the second before the api's end.                   *)
CodeNotAheadOfSchema == \A p \in Program : running[p] > schema => ahead

(* An api that is behind the sources is offered an update when none is     *)
(* under way, unless the last one was cut short after its reset: then the  *)
(* tree is new, the program old, and the check sees no difference.         *)
UpdateIsOffered ==
  running["api"] < remote /\ ~UpdateAvailable(remote) /\ (\A u \in Updater : upd[u] = "idle")
    => cutShort

(* Both, of every update.                                                 *)
UpdatesAreSound == CodeNotAheadOfSchema /\ UpdateIsOffered
=============================================================================
