------------------------------ MODULE Tenants ------------------------------
(***************************************************************************)
(* Workspaces are made in two ways: an administrator bootstraps one, or a  *)
(* visitor registers and confirms a code.  Both provision the schema, then *)
(* commit the rows of the public schema, then seed the workspace's own     *)
(* schema in a second transaction.  The administrator's code is stored in  *)
(* lower case, the visitor's in upper case; the schema's name is lower     *)
(* case for both.                                                          *)
(***************************************************************************)
EXTENDS Naturals, FiniteSets

CONSTANTS
  Tenant,          \* ids that uuid may yield
  Code,            \* workspace codes as people say them, without their case
  Schema,
  SchemaName,      \* GetSchemaName: it sends two special codes to one schema
  Email,
  Otp,             \* registration sessions
  TenantRequest,
  NoTenant, NoOtp,
  MaxOtpAttempts

ASSUME TenantConstants ==
  /\ Code # {} /\ Email # {}
  /\ SchemaName \in [Code -> Schema]
  /\ NoTenant \notin Tenant
  /\ NoOtp \notin Otp
  /\ MaxOtpAttempts \in Nat \ {0}
  /\ IsFiniteSet(TenantRequest)

VARIABLES
  tenants,     \* public.tenants with its owner: users, tenant_memberships
  schemas,     \* the schemas that exist
  seeded,      \* tenants whose membership, roles and data are in their schema
  otps,        \* public.registration_otps
  treq,        \* bootstraps and verifications in progress
  halfMade,    \* tenants whose second transaction failed, for the properties
  bereft       \* tenants whose schema another tenant's deletion dropped

tenantVars == <<tenants, schemas, seeded, otps, treq, halfMade, bereft>>

(* The case in which a code is stored, by who made the workspace.          *)
Case == {"lower", "upper"}

TenantIdle == [step |-> "idle", op |-> "admin", tenant |-> NoTenant, otp |-> NoOtp,
               code |-> CHOOSE c \in Code : TRUE, case |-> "lower",
               email |-> CHOOSE e \in Email : TRUE]

NoTenantRow == [state |-> "none", code |-> TenantIdle.code, case |-> "lower",
                email |-> TenantIdle.email, by |-> "admin"]

NoOtpRow == [state |-> "none", code |-> TenantIdle.code, email |-> TenantIdle.email,
             attempts |-> 0]

TenantTypeOK ==
  /\ tenants \in [Tenant -> [state : {"none", "live", "deleted"}, code : Code, case : Case,
                             email : Email, by : {"admin", "register"}]]
  /\ schemas \in SUBSET Schema
  /\ seeded \in SUBSET Tenant
  /\ otps \in [Otp -> [state : {"none", "open", "verified", "expired"}, code : Code,
                       email : Email, attempts : Nat]]
  /\ treq \in [TenantRequest ->
        [step : {"idle", "check", "wrong", "provision", "rows", "seed", "mark"},
         op : {"admin", "register"}, tenant : Tenant \cup {NoTenant}, otp : Otp \cup {NoOtp},
         code : Code, case : Case, email : Email]]
  /\ halfMade \in SUBSET Tenant
  /\ bereft \in SUBSET Tenant

TenantInit ==
  /\ tenants = [t \in Tenant |-> NoTenantRow]
  /\ schemas = {}
  /\ seeded = {}
  /\ otps = [o \in Otp |-> NoOtpRow]
  /\ treq = [r \in TenantRequest |-> TenantIdle]
  /\ halfMade = {}
  /\ bereft = {}

Live == {t \in Tenant : tenants[t].state = "live"}

SchemaOfTenant(t) == SchemaName[tenants[t].code]

CodeTaken(c, case) == \E t \in Live : tenants[t].code = c /\ tenants[t].case = case

EmailTaken(e) == \E t \in Live : tenants[t].email = e

TenantGoTo(r, step) == treq' = [treq EXCEPT ![r].step = step]

TenantDone(r) == treq' = [treq EXCEPT ![r] = TenantIdle]

-----------------------------------------------------------------------------
(* Registration                                                            *)

(* RegisterInit: the code is compared in the case registration stores.     *)
RegisterInit(o, c, e) ==
  /\ otps[o].state = "none"
  /\ ~CodeTaken(c, "upper") /\ ~EmailTaken(e)
  /\ otps' = [otps EXCEPT ![o] = [state |-> "open", code |-> c, email |-> e, attempts |-> 0]]
  /\ UNCHANGED <<tenants, schemas, seeded, treq, halfMade, bereft>>

ExpireOtp(o) ==
  /\ otps[o].state = "open"
  /\ otps' = [otps EXCEPT ![o].state = "expired"]
  /\ UNCHANGED <<tenants, schemas, seeded, treq, halfMade, bereft>>

(* RegisterVerify reads the record once; what follows relies on it.        *)
CheckOtp(r, o, right) ==
  /\ treq[r].step = "idle"
  /\ otps[o].state = "open" /\ otps[o].attempts < MaxOtpAttempts
  /\ treq' = [treq EXCEPT ![r] =
        [step |-> IF right THEN "provision" ELSE "wrong", op |-> "register",
         tenant |-> NoTenant, otp |-> o, code |-> otps[o].code, case |-> "upper",
         email |-> otps[o].email]]
  /\ UNCHANGED <<tenants, schemas, seeded, otps, halfMade, bereft>>

(* IncrementOTPAttempts                                                    *)
CountWrong(r) ==
  /\ treq[r].step = "wrong"
  /\ otps' = [otps EXCEPT ![treq[r].otp].attempts = @ + 1]
  /\ TenantDone(r)
  /\ UNCHANGED <<tenants, schemas, seeded, halfMade, bereft>>

(* MarkOTPVerified: its error is ignored.                                  *)
MarkVerified(r) ==
  /\ treq[r].step = "mark"
  /\ \E marked \in BOOLEAN :
       otps' = IF marked THEN [otps EXCEPT ![treq[r].otp].state = "verified"] ELSE otps
  /\ TenantDone(r)
  /\ UNCHANGED <<tenants, schemas, seeded, halfMade, bereft>>

-----------------------------------------------------------------------------
(* Mutant: the administrator's code is stored as it was typed. *)
AdminCase_AsTyped == Case

AdminCase == {"lower"}

(* BootstrapTenant of the administrator: the code is stored in lower case. *)
AdminBootstrap(r, c, e) ==
  /\ treq[r].step = "idle"
  /\ \E case \in AdminCase :
       treq' = [treq EXCEPT ![r] = [TenantIdle EXCEPT !.step = "provision", !.code = c,
                                                      !.case = case, !.email = e]]
  /\ UNCHANGED <<tenants, schemas, seeded, otps, halfMade, bereft>>

(* MigrateTenantSchema creates what is not there.                          *)
Provision(r) ==
  /\ treq[r].step = "provision"
  /\ schemas' = schemas \cup {SchemaName[treq[r].code]}
  /\ TenantGoTo(r, "rows")
  /\ UNCHANGED <<tenants, seeded, otps, halfMade, bereft>>

(* Mutant: a registration is over with the rows of the public schema. *)
InsertTenant_NoSeed(r) ==
  LET q == treq[r] IN
  /\ q.step = "rows"
  /\ IF CodeTaken(q.code, q.case) \/ EmailTaken(q.email)
     THEN TenantDone(r) /\ UNCHANGED tenants
     ELSE \E t \in Tenant :
            /\ tenants[t].state = "none"
            /\ tenants' = [tenants EXCEPT ![t] =
                  [state |-> "live", code |-> q.code, case |-> q.case, email |-> q.email,
                   by |-> q.op]]
            /\ treq' = [treq EXCEPT ![r].step = IF q.op = "admin" THEN "seed" ELSE "mark",
                                    ![r].tenant = t]
  /\ UNCHANGED <<schemas, seeded, otps, halfMade, bereft>>

(* The first transaction: tenant, user and membership in the public        *)
(* schema, where the code and the email are unique.                        *)
InsertTenant(r) ==
  LET q == treq[r] IN
  /\ q.step = "rows"
  /\ IF CodeTaken(q.code, q.case) \/ EmailTaken(q.email)
     THEN TenantDone(r) /\ UNCHANGED tenants
     ELSE \E t \in Tenant :
            /\ tenants[t].state = "none"
            /\ tenants' = [tenants EXCEPT ![t] =
                  [state |-> "live", code |-> q.code, case |-> q.case, email |-> q.email,
                   by |-> q.op]]
            /\ treq' = [treq EXCEPT ![r].step = "seed", ![r].tenant = t]
  /\ UNCHANGED <<schemas, seeded, otps, halfMade, bereft>>

(* The second transaction needs the tenant's row and schema.               *)
SeedSchema(r) ==
  LET t == treq[r].tenant IN
  /\ treq[r].step = "seed"
  /\ t \in Live /\ SchemaOfTenant(t) \in schemas
  /\ seeded' = seeded \cup {t}
  /\ IF treq[r].op = "register" THEN TenantGoTo(r, "mark") ELSE TenantDone(r)
  /\ UNCHANGED <<tenants, schemas, otps, halfMade, bereft>>

(* An error or the end of the process at any step.  After the first        *)
(* transaction the rows stay, and with them code and email stay taken.     *)
BootstrapFails(r) ==
  /\ treq[r].step \in {"wrong", "provision", "rows", "seed", "mark"}
  /\ halfMade' = IF treq[r].step = "seed" THEN halfMade \cup {treq[r].tenant} ELSE halfMade
  /\ TenantDone(r)
  /\ UNCHANGED <<tenants, schemas, seeded, otps, bereft>>

-----------------------------------------------------------------------------
(* DeleteTenant: rows, owner and schema go in one transaction, whoever     *)
(* else has his data in that schema.                                       *)
DeleteTenant(t) ==
  LET housemates == {u \in Live \ {t} : SchemaOfTenant(u) = SchemaOfTenant(t)} IN
  /\ t \in Live
  /\ tenants' = [tenants EXCEPT ![t].state = "deleted"]
  /\ schemas' = schemas \ {SchemaOfTenant(t)}
  /\ seeded' = seeded \ ({t} \cup housemates)
  /\ bereft' = bereft \cup housemates
  /\ UNCHANGED <<otps, treq, halfMade>>

TenantNext ==
  \/ \E o \in Otp, c \in Code, e \in Email : RegisterInit(o, c, e)
  \/ \E r \in TenantRequest, o \in Otp, right \in BOOLEAN : CheckOtp(r, o, right)
  \/ \E r \in TenantRequest, c \in Code, e \in Email : AdminBootstrap(r, c, e)
  \/ \E r \in TenantRequest :
       CountWrong(r) \/ MarkVerified(r) \/ Provision(r) \/ InsertTenant(r) \/ SeedSchema(r)
       \/ BootstrapFails(r)
  \/ \E o \in Otp : ExpireOtp(o)
  \/ \E t \in Tenant : DeleteTenant(t)

TenantSpec == TenantInit /\ [][TenantNext]_tenantVars

-----------------------------------------------------------------------------
(* Properties                                                              *)

(* Two workspaces have one schema only if an administrator made one and a  *)
(* visitor the other, or their codes are the two special ones: in any      *)
(* other case the unique code in the public schema keeps them apart, also  *)
(* between bootstraps that run at once.                                    *)
SharedSchemaIsExplained ==
  \A t, u \in Live :
    t # u /\ SchemaOfTenant(t) = SchemaOfTenant(u)
      => tenants[t].by # tenants[u].by \/ tenants[t].code # tenants[u].code

(* A workspace that is listed and not being made has its schema with its   *)
(* owner and data, unless its second transaction failed or the deletion of *)
(* a workspace that shares the schema took it away.                        *)
UnusableIsExplained ==
  \A t \in Live \ (halfMade \cup bereft) :
    \/ t \in seeded /\ SchemaOfTenant(t) \in schemas
    \/ \E r \in TenantRequest : treq[r].step = "seed" /\ treq[r].tenant = t

(* Wrong codes are counted after they were let through: as many more than  *)
(* the limit are compared as requests run at once, less one.               *)
AttemptsBounded ==
  \A o \in Otp : otps[o].attempts < MaxOtpAttempts + Cardinality(TenantRequest)
=============================================================================
