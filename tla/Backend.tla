------------------------------ MODULE Backend -------------------------------
(***************************************************************************)
(* The parts of the api process and of the chat that share no state in     *)
(* these models.  A behaviour of all of them at once is a behaviour of     *)
(* each, interleaved with steps that leave its variables alone: what holds *)
(* of each on its own holds of the whole.  A behaviour here follows one of *)
(* them, the focus, and holds the others still.                            *)
(***************************************************************************)
EXTENDS AuthSessions, Tenants, ReminderPayments, Categories, WaLink, WaChat,
        ChatCommands, AiProviders, Members, Documents, Backups, SystemUpdate,
        LedgerViews, LoginLockout, RateLimits, WaIntake, ConnPool

VARIABLE focus

Part == {"sessions", "tenants", "reminders", "categories", "link", "chat", "commands",
         "providers", "members", "documents", "backups", "update", "views",
         "lockout", "limits", "intake", "pool"}

BackendTypeOK ==
  /\ focus \in Part
  /\ AuthTypeOK /\ TenantTypeOK /\ PayTypeOK /\ CategoryTypeOK /\ LinkTypeOK /\ ChatTypeOK
  /\ CommandTypeOK /\ AiTypeOK /\ MemberTypeOK /\ DocumentTypeOK
  /\ BackupTypeOK /\ UpdateTypeOK /\ ViewsTypeOK /\ LockoutTypeOK /\ RateTypeOK /\ IntakeTypeOK
  /\ PoolTypeOK

(* A part that starts in one of several states has all of them when it is  *)
(* in focus, and one otherwise.                                            *)
BackendInit ==
  /\ focus \in Part
  /\ AuthInit /\ TenantInit /\ CategoryInit /\ LinkInit /\ ChatInit /\ CommandInit
  /\ DocumentInit /\ UpdateInit /\ LockoutInit /\ RateInit /\ IntakeInit /\ PoolInit
  /\ PayInit /\ (focus = "reminders" \/ \A m \in Reminder : reminders[m].tenor = "none")
  /\ MemberInit /\ (focus = "members" \/ roles = {})
  /\ BackupInit /\ (focus = "backups" \/ pieceRows = {})
  /\ ViewsInit /\ (focus = "views" \/ view = "chat")
  /\ AiInit /\ (focus = "providers" \/ legacy)

-----------------------------------------------------------------------------
(* Who stands still                                                        *)

StillPeople == UNCHANGED <<authVars, tenantVars, memberVars, lockoutVars, rateVars>>

StillLedger == UNCHANGED <<payVars, categoryVars, documentVars, viewsVars>>

StillChat == UNCHANGED <<linkVars, chatVars, commandVars, aiVars, intakeVars>>

StillSystem == UNCHANGED <<backupVars, updateVars, poolVars>>

PeopleNext ==
  \/ focus = "sessions" /\ AuthNext /\ UNCHANGED <<tenantVars, memberVars, lockoutVars, rateVars>>
  \/ focus = "tenants" /\ TenantNext /\ UNCHANGED <<authVars, memberVars, lockoutVars, rateVars>>
  \/ focus = "members" /\ MemberNext /\ UNCHANGED <<authVars, tenantVars, lockoutVars, rateVars>>
  \/ focus = "lockout" /\ LockoutNext /\ UNCHANGED <<authVars, tenantVars, memberVars, rateVars>>
  \/ focus = "limits" /\ RateNext /\ UNCHANGED <<authVars, tenantVars, memberVars, lockoutVars>>

LedgerNext ==
  \/ focus = "reminders" /\ PayNext /\ UNCHANGED <<categoryVars, documentVars, viewsVars>>
  \/ focus = "categories" /\ CategoryNext /\ UNCHANGED <<payVars, documentVars, viewsVars>>
  \/ focus = "documents" /\ DocumentNext /\ UNCHANGED <<payVars, categoryVars, viewsVars>>
  \/ focus = "views" /\ ViewsNext /\ UNCHANGED <<payVars, categoryVars, documentVars>>

ChatPartsNext ==
  \/ focus = "link" /\ LinkNext /\ UNCHANGED <<chatVars, commandVars, aiVars, intakeVars>>
  \/ focus = "chat" /\ ChatNext /\ UNCHANGED <<linkVars, commandVars, aiVars, intakeVars>>
  \/ focus = "commands" /\ CommandNext /\ UNCHANGED <<linkVars, chatVars, aiVars, intakeVars>>
  \/ focus = "providers" /\ AiNext /\ UNCHANGED <<linkVars, chatVars, commandVars, intakeVars>>
  \/ focus = "intake" /\ IntakeNext /\ UNCHANGED <<linkVars, chatVars, commandVars, aiVars>>

SystemNext ==
  \/ focus = "backups" /\ BackupNext /\ UNCHANGED <<updateVars, poolVars>>
  \/ focus = "update" /\ UpdateNext /\ UNCHANGED <<backupVars, poolVars>>
  \/ focus = "pool" /\ PoolNext /\ UNCHANGED <<backupVars, updateVars>>

BackendNext ==
  /\ UNCHANGED focus
  /\ \/ PeopleNext /\ StillLedger /\ StillChat /\ StillSystem
     \/ LedgerNext /\ StillPeople /\ StillChat /\ StillSystem
     \/ ChatPartsNext /\ StillPeople /\ StillLedger /\ StillSystem
     \/ SystemNext /\ StillPeople /\ StillLedger /\ StillChat

backendVars == <<focus, authVars, tenantVars, payVars, categoryVars, linkVars, chatVars,
                 commandVars, aiVars, memberVars, documentVars, backupVars, updateVars, viewsVars,
                 lockoutVars, rateVars, intakeVars, poolVars>>

BackendSpec == BackendInit /\ [][BackendNext]_backendVars

-----------------------------------------------------------------------------
(* A property of three parts                                               *)

(* A sign-in is refused by a limit or a lock only for a cause the limits   *)
(* have, and neither these nor the count of a registration's wrong codes   *)
(* let more through than their number and the requests under way explain.  *)
LimitsAreExplained == SignInsAreLimited /\ LockIsExplained /\ AttemptsBounded
=============================================================================
