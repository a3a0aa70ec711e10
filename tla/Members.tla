------------------------------ MODULE Members -------------------------------
(***************************************************************************)
(* The roles of a workspace's members.  Two pages replace them: the list   *)
(* of roles (ReplaceMembershipRoles) and the user's form                   *)
(* (UpdateTenantUser); each deletes the member's rows of membership_roles  *)
(* and inserts the asked ones in one READ COMMITTED transaction, modelled  *)
(* statement by statement with the database's row locks.  The form writes  *)
(* the user's row first, so that two forms wait for each other; the list   *)
(* locks nothing that its rival needs.                                     *)
(* The role that getPermissions would add to a member without permissions  *)
(* is left out: the database refuses its INSERT, for want of a column.     *)
(***************************************************************************)
EXTENDS Naturals, FiniteSets

CONSTANTS Membership, Role, MemberRequest, NoMember

ASSUME MemberConstants == NoMember \notin Membership

VARIABLES
  members,     \* tenant_memberships
  roles,       \* roles that are not system roles
  roleRows,    \* membership_roles, committed
  memreq,      \* open transactions
  asked,       \* the roles last asked for and committed, for the property
  mixed        \* members with the roles of two requests at once, for the property

memberVars == <<members, roles, roleRows, memreq, asked, mixed>>

MemberIdle == [step |-> "idle", kind |-> "list", member |-> NoMember, ask |-> {}, gone |-> {}]

MemberTypeOK ==
  /\ members \in SUBSET Membership
  /\ roles \in SUBSET Role
  /\ roleRows \in [Membership -> SUBSET Role]
  /\ memreq \in [MemberRequest ->
        [step : {"idle", "checked", "begun", "waiting", "cleared"}, kind : {"list", "form"},
         member : Membership \cup {NoMember}, ask : SUBSET Role, gone : SUBSET Role]]
  /\ asked \in [Membership -> SUBSET Role]
  /\ mixed \in SUBSET Membership

MemberInit ==
  /\ members = {}
  /\ roles \in SUBSET Role
  /\ roleRows = [m \in Membership |-> {}]
  /\ memreq = [r \in MemberRequest |-> MemberIdle]
  /\ asked = [m \in Membership |-> {}]
  /\ mixed = {}

MemberEnds(r) == memreq' = [memreq EXCEPT ![r] = MemberIdle]

(* Another open transaction on r's member has reached one of the steps.    *)
Rivals(r, steps) ==
  {q \in MemberRequest \ {r} : memreq[q].member = memreq[r].member /\ memreq[q].step \in steps}

(* The rows an open transaction has deleted stay locked.                   *)
LockedRoles(m) ==
  UNION {memreq[r].gone :
           r \in {r \in MemberRequest : memreq[r].member = m /\ memreq[r].step = "cleared"}}

-----------------------------------------------------------------------------
(* Members and roles come and go                                           *)

(* CreateTenantUser: user, membership and roles in one transaction.        *)
CreateTenantUser(m, ask) ==
  /\ m \notin members
  /\ \A r \in MemberRequest : memreq[r].member # m
  /\ ask \subseteq roles
  /\ members' = members \cup {m}
  /\ roleRows' = [roleRows EXCEPT ![m] = ask]
  /\ asked' = [asked EXCEPT ![m] = ask]
  /\ mixed' = mixed \ {m}
  /\ UNCHANGED <<roles, memreq>>

(* DeleteTenantUser waits for the rows others have deleted.                *)
DeleteTenantUser(m) ==
  /\ m \in members
  /\ LockedRoles(m) = {}
  /\ members' = members \ {m}
  /\ roleRows' = [roleRows EXCEPT ![m] = {}]
  /\ asked' = [asked EXCEPT ![m] = {}]
  /\ UNCHANGED <<roles, memreq, mixed>>

CreateRole(x) ==
  /\ x \notin roles
  /\ roles' = roles \cup {x}
  /\ UNCHANGED <<members, roleRows, memreq, asked, mixed>>

(* DeleteRole takes the role from every member.                            *)
DeleteRole(x) ==
  /\ x \in roles
  /\ \A m \in members : x \notin LockedRoles(m)
  /\ roles' = roles \ {x}
  /\ roleRows' = [m \in Membership |-> roleRows[m] \ {x}]
  /\ asked' = [m \in Membership |-> asked[m] \ {x}]
  /\ UNCHANGED <<members, memreq, mixed>>

-----------------------------------------------------------------------------
(* Replacing the roles of a member                                         *)

(* The membership and the asked roles exist, each taken once.              *)
CheckRoles(r, kind, m, ask) ==
  /\ memreq[r].step = "idle"
  /\ m \in members
  /\ ask \subseteq roles
  /\ memreq' = [memreq EXCEPT ![r] = [step |-> "checked", kind |-> kind, member |-> m,
                                      ask |-> ask, gone |-> {}]]
  /\ UNCHANGED <<members, roles, roleRows, asked, mixed>>

AskFromList(r, m, ask) == CheckRoles(r, "list", m, ask)

AskFromForm(r, m, ask) == CheckRoles(r, "form", m, ask)

(* The form's UPDATE of public.users holds the row until the end; the list *)
(* writes nothing first.                                                   *)
WriteUser(r) ==
  /\ memreq[r].step = "checked"
  /\ memreq[r].kind = "form" =>
       \A q \in Rivals(r, {"begun", "waiting", "cleared"}) : memreq[q].kind = "list"
  /\ memreq' = [memreq EXCEPT ![r].step = "begun"]
  /\ UNCHANGED <<members, roles, roleRows, asked, mixed>>

(* Mutant: the asked roles are added to those the member has. *)
StartDelete_Nothing(r) ==
  /\ memreq[r].step = "begun"
  /\ memreq' = [memreq EXCEPT ![r].step = "waiting"]
  /\ UNCHANGED <<members, roles, roleRows, asked, mixed>>

(* The DELETE starts: its snapshot fixes the rows it will delete.          *)
StartDelete(r) ==
  /\ memreq[r].step = "begun"
  /\ memreq' = [memreq EXCEPT ![r].step = "waiting", ![r].gone = roleRows[memreq[r].member]]
  /\ UNCHANGED <<members, roles, roleRows, asked, mixed>>

(* It waits for rows that another transaction deletes; those are gone when *)
(* it goes on, and rows inserted meanwhile are not in its snapshot.        *)
DeleteRows(r) ==
  LET m == memreq[r].member
  IN  /\ memreq[r].step = "waiting"
      /\ memreq[r].gone \cap LockedRoles(m) = {}
      /\ memreq' = [memreq EXCEPT ![r].step = "cleared", ![r].gone = @ \cap roleRows[m]]
      /\ UNCHANGED <<members, roles, roleRows, asked, mixed>>

(* The inserts and the commit.  The key refuses a row that another has     *)
(* committed, the foreign keys a role or member that is gone.              *)
InsertRoles(r) ==
  LET m == memreq[r].member
      rest == roleRows[m] \ memreq[r].gone
  IN  /\ memreq[r].step = "cleared"
      /\ m \in members
      /\ memreq[r].ask \subseteq roles \ rest
      /\ roleRows' = [roleRows EXCEPT ![m] = rest \cup memreq[r].ask]
      /\ asked' = [asked EXCEPT ![m] = memreq[r].ask]
      /\ mixed' = IF \E q \in Rivals(r, {"waiting", "cleared"}) :
                       "list" \in {memreq[q].kind, memreq[r].kind}
                  THEN mixed \cup {m}
                  ELSE IF rest = {} THEN mixed \ {m} ELSE mixed
      /\ MemberEnds(r)
      /\ UNCHANGED <<members, roles>>

(* A refused insert, a failed statement or a lost connection.              *)
RollBackRoles(r) ==
  /\ memreq[r].step # "idle"
  /\ MemberEnds(r)
  /\ UNCHANGED <<members, roles, roleRows, asked, mixed>>

MemberNext ==
  \/ \E m \in Membership, ask \in SUBSET Role : CreateTenantUser(m, ask)
  \/ \E m \in Membership : DeleteTenantUser(m)
  \/ \E x \in Role : CreateRole(x) \/ DeleteRole(x)
  \/ \E r \in MemberRequest, m \in Membership, ask \in SUBSET Role :
       AskFromList(r, m, ask) \/ AskFromForm(r, m, ask)
  \/ \E r \in MemberRequest :
       WriteUser(r) \/ StartDelete(r) \/ DeleteRows(r) \/ InsertRoles(r) \/ RollBackRoles(r)

MemberSpec == MemberInit /\ [][MemberNext]_memberVars

-----------------------------------------------------------------------------
(* What the pages show: for each role, how often                           *)

(* A member without roles is one row of the join, without a role.          *)
JoinedRows(m, copies) == {<<x, k>> : x \in roleRows[m], k \in 1 .. copies}

ShownOf(joined) == [x \in Role |-> Cardinality({row \in joined : row[1] = x})]

(* The page of roles, and the answer to the form.                          *)
ListMembershipsWithRoles(m) == ShownOf(JoinedRows(m, 1))

TenantUserByMembership(m) == ShownOf(JoinedRows(m, 1))

(* The page of users joins whatsapp_sessions, which may link an account    *)
(* more than once.                                                         *)
ListTenantUsers(m, links) == ShownOf(JoinedRows(m, IF links = 0 THEN 1 ELSE links))

(* Bound on the numbers linked to an account.                              *)
MostLinks == 2

Once(set) == [x \in Role |-> IF x \in set THEN 1 ELSE 0]

-----------------------------------------------------------------------------
(* Properties                                                              *)

(* A member has exactly the roles that were last asked for, less those     *)
(* deleted since, unless a list replaced them while another request did    *)
(* and no later replacement found them alone.  Two forms never mix.  The   *)
(* pages show them, each once unless several numbers are linked.           *)
RolesAsAsked ==
  \A m \in members \ mixed :
    /\ ListMembershipsWithRoles(m) = Once(asked[m])
    /\ TenantUserByMembership(m) = Once(asked[m])
    /\ \A links \in 0 .. MostLinks : \A x \in Role :
         LET shown == ListTenantUsers(m, links)[x] IN
         IF links <= 1 THEN shown = Once(asked[m])[x] ELSE shown > 0 <=> x \in asked[m]
=============================================================================
