--------------------------- MODULE BackendProofs ---------------------------
(***************************************************************************)
(* Proofs about Backend: a behaviour of the whole is one of each part, so  *)
(* what the parts promise holds of the whole, for every value of the       *)
(* constants and whatever is in focus.                                     *)
(***************************************************************************)
EXTENDS Backend, PeopleProofs, SystemProofs, WhatsappProofs, RecordsProofs

(* Each step of the whole is one of a part that it moves, and leaves every *)
(* other part as it is.                                                    *)
LEMMA AuthInTheBackend == BackendSpec => AuthSpec
<1>1. BackendInit => AuthInit
  BY DEF BackendInit
<1>2. [BackendNext]_backendVars => [AuthNext]_authVars
  BY DEF BackendNext, PeopleNext, LedgerNext, ChatPartsNext, SystemNext, StillPeople, StillLedger,
         StillChat, StillSystem, backendVars
<1> QED
  BY <1>1, <1>2, PTL DEF BackendSpec, AuthSpec

(* The same for each of the other parts.                                   *)
LEMMA TenantInTheBackend == BackendSpec => TenantSpec
<1>1. BackendInit => TenantInit
  BY DEF BackendInit
<1>2. [BackendNext]_backendVars => [TenantNext]_tenantVars
  BY DEF BackendNext, PeopleNext, LedgerNext, ChatPartsNext, SystemNext, StillPeople, StillLedger,
         StillChat, StillSystem, backendVars
<1> QED
  BY <1>1, <1>2, PTL DEF BackendSpec, TenantSpec

LEMMA MemberInTheBackend == BackendSpec => MemberSpec
<1>1. BackendInit => MemberInit
  BY DEF BackendInit
<1>2. [BackendNext]_backendVars => [MemberNext]_memberVars
  BY DEF BackendNext, PeopleNext, LedgerNext, ChatPartsNext, SystemNext, StillPeople, StillLedger,
         StillChat, StillSystem, backendVars
<1> QED
  BY <1>1, <1>2, PTL DEF BackendSpec, MemberSpec

LEMMA LockoutInTheBackend == BackendSpec => LockoutSpec
<1>1. BackendInit => LockoutInit
  BY DEF BackendInit
<1>2. [BackendNext]_backendVars => [LockoutNext]_lockoutVars
  BY DEF BackendNext, PeopleNext, LedgerNext, ChatPartsNext, SystemNext, StillPeople, StillLedger,
         StillChat, StillSystem, backendVars
<1> QED
  BY <1>1, <1>2, PTL DEF BackendSpec, LockoutSpec

LEMMA RateInTheBackend == BackendSpec => RateSpec
<1>1. BackendInit => RateInit
  BY DEF BackendInit
<1>2. [BackendNext]_backendVars => [RateNext]_rateVars
  BY DEF BackendNext, PeopleNext, LedgerNext, ChatPartsNext, SystemNext, StillPeople, StillLedger,
         StillChat, StillSystem, backendVars
<1> QED
  BY <1>1, <1>2, PTL DEF BackendSpec, RateSpec

LEMMA PayInTheBackend == BackendSpec => PaySpec
<1>1. BackendInit => PayInit
  BY DEF BackendInit
<1>2. [BackendNext]_backendVars => [PayNext]_payVars
  BY DEF BackendNext, PeopleNext, LedgerNext, ChatPartsNext, SystemNext, StillPeople, StillLedger,
         StillChat, StillSystem, backendVars
<1> QED
  BY <1>1, <1>2, PTL DEF BackendSpec, PaySpec

LEMMA CategoryInTheBackend == BackendSpec => CategorySpec
<1>1. BackendInit => CategoryInit
  BY DEF BackendInit
<1>2. [BackendNext]_backendVars => [CategoryNext]_categoryVars
  BY DEF BackendNext, PeopleNext, LedgerNext, ChatPartsNext, SystemNext, StillPeople, StillLedger,
         StillChat, StillSystem, backendVars
<1> QED
  BY <1>1, <1>2, PTL DEF BackendSpec, CategorySpec

LEMMA DocumentInTheBackend == BackendSpec => DocumentSpec
<1>1. BackendInit => DocumentInit
  BY DEF BackendInit
<1>2. [BackendNext]_backendVars => [DocumentNext]_documentVars
  BY DEF BackendNext, PeopleNext, LedgerNext, ChatPartsNext, SystemNext, StillPeople, StillLedger,
         StillChat, StillSystem, backendVars
<1> QED
  BY <1>1, <1>2, PTL DEF BackendSpec, DocumentSpec

LEMMA ViewsInTheBackend == BackendSpec => ViewsSpec
<1>1. BackendInit => ViewsInit
  BY DEF BackendInit
<1>2. [BackendNext]_backendVars => [ViewsNext]_viewsVars
  BY DEF BackendNext, PeopleNext, LedgerNext, ChatPartsNext, SystemNext, StillPeople, StillLedger,
         StillChat, StillSystem, backendVars
<1> QED
  BY <1>1, <1>2, PTL DEF BackendSpec, ViewsSpec

LEMMA LinkInTheBackend == BackendSpec => LinkSpec
<1>1. BackendInit => LinkInit
  BY DEF BackendInit
<1>2. [BackendNext]_backendVars => [LinkNext]_linkVars
  BY DEF BackendNext, PeopleNext, LedgerNext, ChatPartsNext, SystemNext, StillPeople, StillLedger,
         StillChat, StillSystem, backendVars
<1> QED
  BY <1>1, <1>2, PTL DEF BackendSpec, LinkSpec

LEMMA ChatInTheBackend == BackendSpec => ChatSpec
<1>1. BackendInit => ChatInit
  BY DEF BackendInit
<1>2. [BackendNext]_backendVars => [ChatNext]_chatVars
  BY DEF BackendNext, PeopleNext, LedgerNext, ChatPartsNext, SystemNext, StillPeople, StillLedger,
         StillChat, StillSystem, backendVars
<1> QED
  BY <1>1, <1>2, PTL DEF BackendSpec, ChatSpec

LEMMA CommandInTheBackend == BackendSpec => CommandSpec
<1>1. BackendInit => CommandInit
  BY DEF BackendInit
<1>2. [BackendNext]_backendVars => [CommandNext]_commandVars
  BY DEF BackendNext, PeopleNext, LedgerNext, ChatPartsNext, SystemNext, StillPeople, StillLedger,
         StillChat, StillSystem, backendVars
<1> QED
  BY <1>1, <1>2, PTL DEF BackendSpec, CommandSpec

LEMMA AiInTheBackend == BackendSpec => AiSpec
<1>1. BackendInit => AiInit
  BY DEF BackendInit
<1>2. [BackendNext]_backendVars => [AiNext]_aiVars
  BY DEF BackendNext, PeopleNext, LedgerNext, ChatPartsNext, SystemNext, StillPeople, StillLedger,
         StillChat, StillSystem, backendVars
<1> QED
  BY <1>1, <1>2, PTL DEF BackendSpec, AiSpec

LEMMA IntakeInTheBackend == BackendSpec => IntakeSpec
<1>1. BackendInit => IntakeInit
  BY DEF BackendInit
<1>2. [BackendNext]_backendVars => [IntakeNext]_intakeVars
  BY DEF BackendNext, PeopleNext, LedgerNext, ChatPartsNext, SystemNext, StillPeople, StillLedger,
         StillChat, StillSystem, backendVars
<1> QED
  BY <1>1, <1>2, PTL DEF BackendSpec, IntakeSpec

LEMMA BackupInTheBackend == BackendSpec => BackupSpec
<1>1. BackendInit => BackupInit
  BY DEF BackendInit
<1>2. [BackendNext]_backendVars => [BackupNext]_backupVars
  BY DEF BackendNext, PeopleNext, LedgerNext, ChatPartsNext, SystemNext, StillPeople, StillLedger,
         StillChat, StillSystem, backendVars
<1> QED
  BY <1>1, <1>2, PTL DEF BackendSpec, BackupSpec

LEMMA UpdateInTheBackend == BackendSpec => UpdateSpec
<1>1. BackendInit => UpdateInit
  BY DEF BackendInit
<1>2. [BackendNext]_backendVars => [UpdateNext]_updateVars
  BY DEF BackendNext, PeopleNext, LedgerNext, ChatPartsNext, SystemNext, StillPeople, StillLedger,
         StillChat, StillSystem, backendVars
<1> QED
  BY <1>1, <1>2, PTL DEF BackendSpec, UpdateSpec

LEMMA PoolInTheBackend == BackendSpec => PoolSpec
<1>1. BackendInit => PoolInit
  BY DEF BackendInit
<1>2. [BackendNext]_backendVars => [PoolNext]_poolVars
  BY DEF BackendNext, PeopleNext, LedgerNext, ChatPartsNext, SystemNext, StillPeople, StillLedger,
         StillChat, StillSystem, backendVars
<1> QED
  BY <1>1, <1>2, PTL DEF BackendSpec, PoolSpec

(* Each part alone keeps its types, by its invariant.                      *)
LEMMA AuthIsTyped == AuthSpec => []AuthTypeOK
<1>1. SessionsInv => AuthTypeOK
  BY DEF SessionsInv
<1> QED
  BY <1>1, SessionsInvariant, PTL

LEMMA TenantIsTyped == TenantSpec => []TenantTypeOK
<1>1. TenantsInv => TenantTypeOK
  BY DEF TenantsInv
<1> QED
  BY <1>1, TenantsInvariant, PTL

LEMMA MemberIsTyped == MemberSpec => []MemberTypeOK
<1>1. MembersInv => MemberTypeOK
  BY DEF MembersInv
<1> QED
  BY <1>1, MemberInitInv, MembersInvStep, PTL DEF MemberSpec

LEMMA LockoutIsTyped == LockoutSpec => []LockoutTypeOK
<1>1. LockInv => LockoutTypeOK
  BY DEF LockInv
<1> QED
  BY <1>1, LockInitInv, LockInvStep, PTL DEF LockoutSpec

LEMMA RateIsTyped == RateSpec => []RateTypeOK
<1>1. RateInv => RateTypeOK
  BY DEF RateInv
<1> QED
  BY <1>1, RateInitInv, RateInvStep, PTL DEF RateSpec

LEMMA PayIsTyped == PaySpec => []PayTypeOK
<1>1. PayInv => PayTypeOK
  BY DEF PayInv
<1> QED
  BY <1>1, PayInitInv, PayStepInv, PTL DEF PaySpec

LEMMA CategoryIsTyped == CategorySpec => []CategoryTypeOK
<1>1. TwinsInv => CategoryTypeOK
  BY DEF TwinsInv
<1> QED
  BY <1>1, TwinsInitInv, TwinsInvStep, PTL DEF CategorySpec

LEMMA DocumentIsTyped == DocumentSpec => []DocumentTypeOK
<1>1. DocumentsInv => DocumentTypeOK
  BY DEF DocumentsInv
<1>2. DocumentsInv /\ [DocumentNext]_documentVars => DocumentsInv'
  BY DocumentTypeStep, DocumentsStep DEF DocumentsInv
<1> QED
  BY <1>1, <1>2, DocumentInitInv, PTL DEF DocumentSpec

LEMMA ViewsIsTyped == ViewsSpec => []ViewsTypeOK
<1>1. ViewsInv => ViewsTypeOK
  BY DEF ViewsInv
<1> QED
  BY <1>1, ViewsInitInv, ViewsInvStep, PTL DEF ViewsSpec

LEMMA LinkIsTyped == LinkSpec => []LinkTypeOK
<1>1. LinkInv => LinkTypeOK
  BY DEF LinkInv
<1>2. LinkInv /\ [LinkNext]_linkVars => LinkInv'
  BY LinkTypeStep, RowsStep DEF LinkInv, RowsOK, Typed
<1> QED
  BY <1>1, <1>2, LinkInitInv, PTL DEF LinkSpec

LEMMA CommandIsTyped == CommandSpec => []CommandTypeOK
<1>1. CommandsInv => CommandTypeOK
  BY DEF CommandsInv
<1> QED
  BY <1>1, CommandInitInv, CommandsStep, PTL DEF CommandSpec

LEMMA AiIsTyped == AiSpec => []AiTypeOK
<1>1. AiInit => AiTypeOK
  BY DEF AiInit, AiTypeOK, KeyState
<1> QED
  BY <1>1, AiTypeCorrect, PTL DEF AiSpec

LEMMA IntakeIsTyped == IntakeSpec => []IntakeTypeOK
<1>1. IntakeInv => IntakeTypeOK
  BY DEF IntakeInv
<1> QED
  BY <1>1, IntakeInitInv, IntakeInvStep, PTL DEF IntakeSpec

LEMMA BackupIsTyped == BackupSpec => []BackupTypeOK
<1>1. BackupsInv => BackupTypeOK
  BY DEF BackupsInv
<1>2. BackupsInv /\ [BackupNext]_backupVars => BackupsInv'
  BY BackupTypeStep, BackupsStep DEF BackupsInv, BackupSound
<1> QED
  BY <1>1, <1>2, BackupInitInv, PTL DEF BackupSpec

LEMMA UpdateIsTyped == UpdateSpec => []UpdateTypeOK
<1>1. UpdateInv => UpdateTypeOK
  BY DEF UpdateInv
<1> QED
  BY <1>1, UpdateInitInv, UpdateInvStep, PTL DEF UpdateSpec

LEMMA PoolIsTyped == PoolSpec => []PoolTypeOK
<1>1. PoolInv => PoolTypeOK
  BY DEF PoolInv
<1> QED
  BY <1>1, PoolInitInv, PoolInvStep, PTL DEF PoolSpec

(* In the whole, too, every part keeps the types of its tables, caches and *)
(* requests, and whoever waits for what is one of those there are.         *)
THEOREM BackendIsTyped == BackendSpec => []BackendTypeOK
<1>1. BackendSpec => [](focus \in Part)
  <2>1. BackendInit => focus \in Part
    BY DEF BackendInit
  <2>2. focus \in Part /\ [BackendNext]_backendVars => (focus \in Part)'
    BY DEF BackendNext, backendVars
  <2> QED
    BY <2>1, <2>2, PTL DEF BackendSpec
<1>2. BackendSpec => []AuthTypeOK
  BY AuthInTheBackend, AuthIsTyped, PTL
<1>3. BackendSpec => []TenantTypeOK
  BY TenantInTheBackend, TenantIsTyped, PTL
<1>4. BackendSpec => []MemberTypeOK
  BY MemberInTheBackend, MemberIsTyped, PTL
<1>5. BackendSpec => []LockoutTypeOK
  BY LockoutInTheBackend, LockoutIsTyped, PTL
<1>6. BackendSpec => []RateTypeOK
  BY RateInTheBackend, RateIsTyped, PTL
<1>7. BackendSpec => []PayTypeOK
  BY PayInTheBackend, PayIsTyped, PTL
<1>8. BackendSpec => []CategoryTypeOK
  BY CategoryInTheBackend, CategoryIsTyped, PTL
<1>9. BackendSpec => []DocumentTypeOK
  BY DocumentInTheBackend, DocumentIsTyped, PTL
<1>10. BackendSpec => []ViewsTypeOK
  BY ViewsInTheBackend, ViewsIsTyped, PTL
<1>11. BackendSpec => []LinkTypeOK
  BY LinkInTheBackend, LinkIsTyped, PTL
<1>12. BackendSpec => []ChatTypeOK
  BY ChatInTheBackend, ChatIsTyped, PTL
<1>13. BackendSpec => []CommandTypeOK
  BY CommandInTheBackend, CommandIsTyped, PTL
<1>14. BackendSpec => []AiTypeOK
  BY AiInTheBackend, AiIsTyped, PTL
<1>15. BackendSpec => []IntakeTypeOK
  BY IntakeInTheBackend, IntakeIsTyped, PTL
<1>16. BackendSpec => []BackupTypeOK
  BY BackupInTheBackend, BackupIsTyped, PTL
<1>17. BackendSpec => []UpdateTypeOK
  BY UpdateInTheBackend, UpdateIsTyped, PTL
<1>18. BackendSpec => []PoolTypeOK
  BY PoolInTheBackend, PoolIsTyped, PTL
<1>19. focus \in Part /\ AuthTypeOK /\ TenantTypeOK /\ MemberTypeOK /\ LockoutTypeOK /\ RateTypeOK
      /\ PayTypeOK /\ CategoryTypeOK /\ DocumentTypeOK /\ ViewsTypeOK /\ LinkTypeOK
      /\ ChatTypeOK /\ CommandTypeOK /\ AiTypeOK /\ IntakeTypeOK /\ BackupTypeOK
      /\ UpdateTypeOK /\ PoolTypeOK
     => BackendTypeOK
  BY DEF BackendTypeOK
<1> QED
  BY <1>1, <1>2, <1>3, <1>4, <1>5, <1>6, <1>7, <1>8, <1>9, <1>10, <1>11, <1>12, <1>13, <1>14, <1>15, <1>16, <1>17, <1>18, <1>19, PTL

(* The lock, the limits and the count of wrong codes, in one process with  *)
(* everything else: none refuses or lets through more than it should.      *)
THEOREM LimitsHoldTogether == BackendSpec => []LimitsAreExplained
<1>1. SignInsAreLimited /\ LockIsExplained /\ AttemptsBounded => LimitsAreExplained
  BY DEF LimitsAreExplained
<1> QED
  BY <1>1, RateInTheBackend, SignInsAreLimitedByBoth, LockoutInTheBackend, LocksAreExplained,
     TenantInTheBackend, AttemptsAreBounded, PTL

(* What the whole promises, all that is checked of it on the instance.     *)
BackendPromise ==
  /\ BackendTypeOK /\ LimitsAreExplained
  /\ RevokedSessionHasNoToken /\ ReuseIsExplained /\ OldTokenIsDead
  /\ SharedSchemaIsExplained /\ UnusableIsExplained /\ EntriesAccounted
  /\ TwinsAreExplained /\ FoundAsCounted /\ LinkedTwiceIsExplained
  /\ ScanAccounted /\ ProvidersAgree
  /\ ViewsAreExplained /\ RolesAsAsked /\ DocumentsAccounted
  /\ RowsKeepTheirObjects /\ UpdatesAreSound /\ IntakeIsRight
  /\ PoolIsSound

(* Every promise of every part holds of the whole, for any value of the    *)
(* constants: the bounds and the one focus of the instance hide nothing.   *)
THEOREM BackendIsSound == BackendSpec => []BackendPromise /\ UnaskedChangeIsExplained
<1>1. BackendSpec => []RevokedSessionHasNoToken
  BY AuthInTheBackend, RevokedSessionsAreDead, PTL
<1>2. BackendSpec => []ReuseIsExplained
  BY AuthInTheBackend, ReusesAreExplained, PTL
<1>3. BackendSpec => []OldTokenIsDead
  BY AuthInTheBackend, OldTokensAreDead, PTL
<1>4. BackendSpec => []SharedSchemaIsExplained
  BY TenantInTheBackend, SharedSchemasExplained, PTL
<1>5. BackendSpec => []UnusableIsExplained
  BY TenantInTheBackend, UnusableExplained, PTL
<1>6. BackendSpec => []EntriesAccounted
  BY PayInTheBackend, EntriesAreAccounted, PTL
<1>7. BackendSpec => []TwinsAreExplained
  BY CategoryInTheBackend, CategoriesAreExplained, PTL
<1>8. BackendSpec => []FoundAsCounted
  BY CategoryInTheBackend, BudgetsAreFoundAsCounted, PTL
<1>9. BackendSpec => []LinkedTwiceIsExplained
  BY LinkInTheBackend, LinkedTwiceExplained, PTL
<1>10. BackendSpec => []ScanAccounted
  BY ChatInTheBackend, ScansAccounted, PTL
<1>11. BackendSpec => UnaskedChangeIsExplained
  BY CommandInTheBackend, UnaskedChangesExplained, PTL
<1>12. BackendSpec => []ProvidersAgree
  BY AiInTheBackend, ProvidersDoAgree, PTL
<1>13. BackendSpec => []ViewsAreExplained
  BY ViewsInTheBackend, ViewsAreAccounted, PTL
<1>14. BackendSpec => []RolesAsAsked
  BY MemberInTheBackend, RolesAreAsAsked, PTL
<1>15. BackendSpec => []DocumentsAccounted
  BY DocumentInTheBackend, DocumentsAreAccounted, PTL
<1>16. BackendSpec => []RowsKeepTheirObjects
  BY BackupInTheBackend, RowsHaveTheirObjects, PTL
<1>17. BackendSpec => []UpdatesAreSound
  BY UpdateInTheBackend, UpdatesSound, PTL
<1>18. BackendSpec => []IntakeIsRight
  BY IntakeInTheBackend, IntakeDoesRight, PTL
<1>19. BackendSpec => []PoolIsSound
  BY PoolInTheBackend, ConnectionsAreSound, PTL
<1>20. /\ BackendTypeOK /\ LimitsAreExplained
       /\ RevokedSessionHasNoToken /\ ReuseIsExplained /\ OldTokenIsDead
       /\ SharedSchemaIsExplained /\ UnusableIsExplained /\ EntriesAccounted
       /\ TwinsAreExplained /\ FoundAsCounted /\ LinkedTwiceIsExplained
       /\ ScanAccounted /\ ProvidersAgree
       /\ ViewsAreExplained /\ RolesAsAsked /\ DocumentsAccounted
       /\ RowsKeepTheirObjects /\ UpdatesAreSound /\ IntakeIsRight
       /\ PoolIsSound
       => BackendPromise
  BY DEF BackendPromise
<1> QED
  BY BackendIsTyped, LimitsHoldTogether,
     <1>1, <1>2, <1>3, <1>4, <1>5, <1>6, <1>7, <1>8, <1>9, <1>10,
     <1>11, <1>12, <1>13, <1>14, <1>15, <1>16, <1>17, <1>18, <1>19, <1>20, PTL
=============================================================================
