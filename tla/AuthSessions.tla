---------------------------- MODULE AuthSessions ----------------------------
(***************************************************************************)
(* Sign-in sessions: login, refresh, workspace switch, logout, logout of   *)
(* all devices and password change, as the HTTP handlers of the auth       *)
(* module run them.  A session is a row of auth_sessions and the one row   *)
(* of auth_refresh_tokens created with it; a refresh revokes the old pair  *)
(* and creates a new one.                                                  *)
(*                                                                         *)
(* Each request is one goroutine; a SELECT, one UPDATE of a transaction, a *)
(* commit and the HTTP answer are its steps.  Row locks are PostgreSQL's:  *)
(* an UPDATE waits for the rows that another open transaction has written. *)
(***************************************************************************)
EXTENDS Naturals

CONSTANTS
  AuthUser,      \* accounts
  Browser,       \* clients with a cookie jar
  UserOf,        \* the account each browser signs in to
  Session,       \* session ids that newRefreshToken and uuid may yield
  AuthRequest,   \* requests the server handles at a time
  NoSession, NoBrowser,
  AuthFaults     \* kinds of failure that may happen, see AuthFaultKind

AuthFaultKind == {"lost answer", "create error", "revoke error", "api crash"}

ASSUME AuthConstants ==
  /\ UserOf \in [Browser -> AuthUser]
  /\ NoSession \notin Session
  /\ NoBrowser \notin Browser
  /\ AuthFaults \subseteq AuthFaultKind

VARIABLES
  active,      \* users that are active with an active membership
  sessionRow,  \* auth_sessions: is the row there, is revoked_at set
  tokenRow,    \* auth_refresh_tokens, likewise
  issuedTo,    \* the browser a session was created for: its user_id
  expired,     \* sessions past expires_at
  cookie,      \* the session whose tokens the browser's cookies hold
  areq,        \* what each request is and where it is
  excused      \* sessions that a client may find revoked through no bug, for
               \* the properties

authVars == <<active, sessionRow, tokenRow, issuedTo, expired, cookie,
              areq, excused>>

(* What a request does after its arrival; a switch does what a login does. *)
AuthOp == {"login", "refresh", "logout", "logoutAll", "password"}

AuthStep == {"idle", "lookup", "check", "revokeOne", "revokeOneSession",
             "revokeAll", "revokeAllTokens", "create", "answer", "refuse"}

RowState == {"none", "live", "revoked"}

NoRequest == [op |-> "login", step |-> "idle", browser |-> NoBrowser,
              token |-> NoSession, issued |-> NoSession,
              lockedSessions |-> {}, lockedTokens |-> {}]

AuthTypeOK ==
  /\ active \in SUBSET AuthUser
  /\ sessionRow \in [Session -> RowState]
  /\ tokenRow \in [Session -> RowState]
  /\ issuedTo \in [Session -> Browser \cup {NoBrowser}]
  /\ expired \in SUBSET Session
  /\ cookie \in [Browser -> Session \cup {NoSession}]
  /\ areq \in [AuthRequest ->
        [op : AuthOp, step : AuthStep, browser : Browser \cup {NoBrowser},
         token : Session \cup {NoSession}, issued : Session \cup {NoSession},
         lockedSessions : SUBSET Session, lockedTokens : SUBSET Session]]
  /\ excused \in SUBSET Session

AuthInit ==
  /\ active = AuthUser
  /\ sessionRow = [s \in Session |-> "none"]
  /\ tokenRow = [s \in Session |-> "none"]
  /\ issuedTo = [s \in Session |-> NoBrowser]
  /\ expired = {}
  /\ cookie = [b \in Browser |-> NoSession]
  /\ areq = [r \in AuthRequest |-> NoRequest]
  /\ excused = {}

-----------------------------------------------------------------------------
(* Requests arrive                                                         *)

Busy(r) == areq[r].step # "idle"

Requester(r) == UserOf[areq[r].browser]

SessionsOf(u) == {s \in Session : issuedTo[s] \in Browser /\ UserOf[issuedTo[s]] = u}

FirstStep(op) ==
  CASE op = "login"                      -> "check"
    [] op = "refresh"                    -> "lookup"
    [] op = "logout"                     -> "revokeOne"
    [] op \in {"logoutAll", "password"}  -> "revokeAll"

(* Switch and both logouts need an access token, which comes and goes with *)
(* the refresh token of the cookies.  The denylist in Redis, which a       *)
(* logout fills and the middleware asks, is not modelled: it may refuse a  *)
(* request, and any error of it lets the request through.  (A password is  *)
(* also set from a mailed link, without a token.)                          *)
Authenticated(b) == cookie[b] # NoSession

(* The handler reads the refresh cookie if the operation needs it.  Two    *)
(* requests with one token (two tabs) excuse that one finds it revoked.    *)
Arrive(r, b, op, switch) ==
  LET token == IF op \in {"refresh", "logout"} THEN cookie[b] ELSE NoSession IN
  /\ ~Busy(r)
  /\ op = "refresh" => cookie[b] # NoSession
  /\ switch => op = "login"
  /\ switch \/ op \in {"logout", "logoutAll"} => Authenticated(b)
  /\ areq' = [areq EXCEPT ![r] = [NoRequest EXCEPT !.op = op, !.browser = b,
                                    !.step = FirstStep(op), !.token = token]]
  /\ excused' = excused \cup {s \in Session : s = token /\
                                \E q \in AuthRequest : Busy(q) /\ areq[q].token = s}
  /\ UNCHANGED <<active, sessionRow, tokenRow, issuedTo, expired, cookie>>

GoTo(r, step) == areq' = [areq EXCEPT ![r].step = step]

-----------------------------------------------------------------------------
(* Refresh, Login and SwitchTenant up to their writes                      *)

(* Mutant: an expired token is taken for stolen too. *)
LookupRefresh_ExpiredIsStolen(r) ==
  /\ areq[r].step = "lookup" /\ areq[r].op = "refresh"
  /\ GoTo(r, IF tokenRow[areq[r].token] = "revoked" \/ areq[r].token \in expired
             THEN "revokeAll" ELSE "check")
  /\ UNCHANGED <<active, sessionRow, tokenRow, issuedTo, expired, cookie, excused>>

(* GetSessionByRefreshHash: a token that has been revoked before is taken  *)
(* for stolen, and all sessions of its user are revoked.                   *)
LookupRefresh(r) ==
  /\ areq[r].step = "lookup" /\ areq[r].op = "refresh"
  /\ GoTo(r, IF tokenRow[areq[r].token] = "revoked" THEN "revokeAll"
             ELSE IF areq[r].token \in expired THEN "refuse" ELSE "check")
  /\ UNCHANGED <<active, sessionRow, tokenRow, issuedTo, expired, cookie, excused>>

(* Mutant: a refresh issues new tokens before it revokes the old one. *)
CheckAccess_IssueFirst(r) ==
  /\ areq[r].step = "check"
  /\ \/ GoTo(r, "refuse")
     \/ Requester(r) \in active /\ GoTo(r, "create")
  /\ UNCHANGED <<active, sessionRow, tokenRow, issuedTo, expired, cookie, excused>>

(* Password and lockout of a login, user, membership and access profile    *)
(* are read before anything is written.                                    *)
CheckAccess(r) ==
  /\ areq[r].step = "check"
  /\ \/ GoTo(r, "refuse")
     \/ /\ Requester(r) \in active
        /\ GoTo(r, IF areq[r].op = "refresh" THEN "revokeOne" ELSE "create")
  /\ UNCHANGED <<active, sessionRow, tokenRow, issuedTo, expired, cookie, excused>>

-----------------------------------------------------------------------------
(* The two revocations                                                     *)

HeldByOthers(r, rows, lock) ==
  \E q \in AuthRequest \ {r} : areq[q][lock] \cap rows # {}

LiveTokens(rows) == {s \in rows : tokenRow[s] = "live"}

LiveSessions(rows) == {s \in rows : sessionRow[s] = "live"}

Revoke(row, rows) == [s \in Session |-> IF s \in rows THEN "revoked" ELSE row[s]]

(* RevokeSessionByRefreshHash: first the token rows of the session.        *)
RevokeOneTokens(r) ==
  LET rows == LiveTokens({areq[r].token}) IN
  /\ areq[r].step = "revokeOne"
  /\ ~HeldByOthers(r, rows, "lockedTokens")
  /\ areq' = [areq EXCEPT ![r].step = "revokeOneSession", ![r].lockedTokens = rows]
  /\ UNCHANGED <<active, sessionRow, tokenRow, issuedTo, expired, cookie, excused>>

(* Then its session row, and the commit.  A logout may be followed by      *)
(* anything, a refresh has its answer to bring the client a new token.     *)
RevokeOneSession(r) ==
  LET rows == LiveSessions({areq[r].token}) IN
  /\ areq[r].step = "revokeOneSession"
  /\ ~HeldByOthers(r, rows, "lockedSessions")
  /\ tokenRow' = Revoke(tokenRow, areq[r].lockedTokens)
  /\ sessionRow' = Revoke(sessionRow, rows)
  /\ areq' = [areq EXCEPT ![r].step = IF areq[r].op = "refresh" THEN "create" ELSE "answer",
                          ![r].lockedTokens = {}]
  /\ excused' = IF areq[r].op = "logout" THEN excused \cup {areq[r].token} ELSE excused
  /\ UNCHANGED <<active, issuedTo, expired, cookie>>

(* RevokeAllSessionsByUser: first the user's session rows.                 *)
RevokeAllSessions(r) ==
  LET rows == LiveSessions(SessionsOf(Requester(r))) IN
  /\ areq[r].step = "revokeAll"
  /\ ~HeldByOthers(r, rows, "lockedSessions")
  /\ areq' = [areq EXCEPT ![r].step = "revokeAllTokens", ![r].lockedSessions = rows]
  /\ UNCHANGED <<active, sessionRow, tokenRow, issuedTo, expired, cookie, excused>>

(* After a revocation of all sessions a refresh is refused; the others are *)
(* answered with success.                                                  *)
AfterRevokeAll(r) == IF areq[r].op = "refresh" THEN "refuse" ELSE "answer"

(* Mutant: the two UPDATEs swapped, tokens first. *)
RevokeAllTokens_TokensFirst(r) ==
  LET mine == SessionsOf(Requester(r)) IN
  /\ areq[r].step = "revokeAllTokens"
  /\ tokenRow' = Revoke(tokenRow, areq[r].lockedSessions)
  /\ sessionRow' = Revoke(sessionRow, LiveSessions(mine))
  /\ areq' = [areq EXCEPT ![r].step = AfterRevokeAll(r), ![r].lockedSessions = {}]
  /\ excused' = excused \cup mine
  /\ UNCHANGED <<active, issuedTo, expired, cookie>>

(* Then all their token rows, and the commit.  It excuses the other        *)
(* devices, unless it was set off by a token that nothing had excused.     *)
RevokeAllTokens(r) ==
  LET mine == SessionsOf(Requester(r))
      rows == LiveTokens(mine) IN
  /\ areq[r].step = "revokeAllTokens"
  /\ ~HeldByOthers(r, rows, "lockedTokens")
  /\ tokenRow' = Revoke(tokenRow, rows)
  /\ sessionRow' = Revoke(sessionRow, areq[r].lockedSessions)
  /\ areq' = [areq EXCEPT ![r].step = AfterRevokeAll(r), ![r].lockedSessions = {}]
  /\ excused' = IF areq[r].op = "refresh" /\ areq[r].token \notin excused
                THEN excused ELSE excused \cup mine
  /\ UNCHANGED <<active, issuedTo, expired, cookie>>

(* An error of the database, or PostgreSQL ends a deadlock by rolling back *)
(* one of its transactions (ended is external).  A failed revocation of    *)
(* all sessions is ignored by password change and by the reuse check.      *)
RollBack(r) ==
  /\ areq' = [areq EXCEPT ![r].lockedSessions = {}, ![r].lockedTokens = {},
                ![r].step = IF areq[r].op = "password" THEN "answer" ELSE "refuse"]
  /\ UNCHANGED <<active, sessionRow, tokenRow, issuedTo, expired, cookie, excused>>

RevokeFails(r) ==
  /\ "revoke error" \in AuthFaults
  /\ areq[r].step \in {"revokeOne", "revokeOneSession", "revokeAll", "revokeAllTokens"}
  /\ RollBack(r)

(* One request holds the token row and waits for the session row, another  *)
(* holds the session row and waits for the token row.                      *)
Deadlocked(r, q) ==
  /\ areq[r].step = "revokeOneSession" /\ areq[q].step = "revokeAllTokens"
  /\ areq[r].token \in areq[q].lockedSessions
  /\ areq[r].lockedTokens \cap LiveTokens(SessionsOf(Requester(q))) # {}

BreakDeadlock(r) ==
  /\ \E q \in AuthRequest \ {r} : Deadlocked(r, q) \/ Deadlocked(q, r)
  /\ RollBack(r)

-----------------------------------------------------------------------------
(* New tokens and the answer                                               *)

(* issueTokens: CreateSession inserts both rows in one transaction.        *)
CreateSession(r) ==
  /\ areq[r].step = "create"
  /\ \E s \in Session :
       /\ sessionRow[s] = "none"
       /\ sessionRow' = [sessionRow EXCEPT ![s] = "live"]
       /\ tokenRow' = [tokenRow EXCEPT ![s] = "live"]
       /\ issuedTo' = [issuedTo EXCEPT ![s] = areq[r].browser]
       /\ areq' = [areq EXCEPT ![r].step = "answer", ![r].issued = s]
  /\ UNCHANGED <<active, expired, cookie, excused>>

(* A refresh whose client will not get the new token has revoked the old   *)
(* one all the same.                                                       *)
Orphaned(r) ==
  {s \in Session : s = areq[r].token /\ areq[r].op = "refresh"
                   /\ areq[r].step \in {"create", "answer"}}

CreateFails(r) ==
  /\ "create error" \in AuthFaults
  /\ areq[r].step = "create"
  /\ GoTo(r, "refuse")
  /\ excused' = excused \cup Orphaned(r)
  /\ UNCHANGED <<active, sessionRow, tokenRow, issuedTo, expired, cookie>>

(* setAuthCookies, clearAuthCookies: the browser follows the answer.       *)
AnswerOk(r) ==
  /\ areq[r].step = "answer"
  /\ cookie' = [cookie EXCEPT ![areq[r].browser] =
       CASE areq[r].op \in {"login", "refresh"}     -> areq[r].issued
         [] areq[r].op \in {"logout", "logoutAll"}  -> NoSession
         [] areq[r].op = "password"                 -> @]
  /\ areq' = [areq EXCEPT ![r] = NoRequest]
  /\ UNCHANGED <<active, sessionRow, tokenRow, issuedTo, expired, excused>>

(* writeAuthError leaves the cookies.                                      *)
AnswerError(r) ==
  /\ areq[r].step = "refuse"
  /\ areq' = [areq EXCEPT ![r] = NoRequest]
  /\ UNCHANGED <<active, sessionRow, tokenRow, issuedTo, expired, cookie, excused>>

LoseAnswer(r) ==
  /\ "lost answer" \in AuthFaults
  /\ areq[r].step = "answer"
  /\ areq' = [areq EXCEPT ![r] = NoRequest]
  /\ excused' = excused \cup Orphaned(r)
  /\ UNCHANGED <<active, sessionRow, tokenRow, issuedTo, expired, cookie>>

(* The process ends: open transactions are rolled back.                    *)
ApiCrash ==
  /\ "api crash" \in AuthFaults
  /\ areq' = [r \in AuthRequest |-> NoRequest]
  /\ excused' = excused \cup UNION {Orphaned(r) : r \in AuthRequest}
  /\ UNCHANGED <<active, sessionRow, tokenRow, issuedTo, expired, cookie>>

-----------------------------------------------------------------------------
(* Time and the settings pages (UpdateTenantUser, external to this module) *)

(* The expiry of a revoked token changes nothing: revoked_at comes first.  *)
Expire(s) ==
  /\ tokenRow[s] = "live" /\ s \notin expired
  /\ expired' = expired \cup {s}
  /\ UNCHANGED <<active, sessionRow, tokenRow, issuedTo, cookie, areq, excused>>

SetActive(u) ==
  /\ active' = IF u \in active THEN active \ {u} ELSE active \cup {u}
  /\ UNCHANGED <<sessionRow, tokenRow, issuedTo, expired, cookie, areq, excused>>

AuthRequestStep(r) ==
  \/ LookupRefresh(r) \/ CheckAccess(r)
  \/ RevokeOneTokens(r) \/ RevokeOneSession(r)
  \/ RevokeAllSessions(r) \/ RevokeAllTokens(r) \/ BreakDeadlock(r)
  \/ CreateSession(r) \/ AnswerOk(r) \/ AnswerError(r)

AuthNext ==
  \/ \E r \in AuthRequest, b \in Browser, op \in AuthOp, switch \in BOOLEAN :
       Arrive(r, b, op, switch)
  \/ \E r \in AuthRequest : AuthRequestStep(r)
  \/ \E r \in AuthRequest : RevokeFails(r) \/ CreateFails(r) \/ LoseAnswer(r)
  \/ ApiCrash
  \/ \E s \in Session : Expire(s)
  \/ \E u \in AuthUser : SetActive(u)

AuthSpec == AuthInit /\ [][AuthNext]_authVars

-----------------------------------------------------------------------------
(* Properties                                                              *)

(* Refresh looks at the token row only.  A session row that is marked      *)
(* revoked must therefore never come with a live token, whatever two       *)
(* revocations and a login do in between: the order of the two UPDATEs of  *)
(* RevokeAllSessionsByUser matters, a session may be created between them. *)
RevokedSessionHasNoToken ==
  \A s \in Session : sessionRow[s] = "revoked" => tokenRow[s] = "revoked"

(* A client that got all its answers and did not use a token twice at a    *)
(* time is never taken for a thief: a refresh finds its token revoked only *)
(* if something excuses it (logout, a password change, logout of all       *)
(* devices, two tabs, a lost answer, an error between revoke and create).  *)
ReuseIsExplained ==
  \A r \in AuthRequest :
    areq[r].op = "refresh" /\ areq[r].step \in {"revokeAll", "revokeAllTokens"}
      => areq[r].token \in excused

(* Rotation leaves no two generations usable: while a refresh that issued  *)
(* a new session waits to answer, the token it was given is dead.          *)
OldTokenIsDead ==
  \A r \in AuthRequest :
    areq[r].op = "refresh" /\ areq[r].step \in {"create", "answer"}
      => tokenRow[areq[r].token] = "revoked"
=============================================================================
