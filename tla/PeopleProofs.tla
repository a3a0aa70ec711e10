---------------------------- MODULE PeopleProofs ----------------------------
(***************************************************************************)
(* Proofs about who may come in and what they may do: the sessions, the    *)
(* workspaces and registrations, the roles of the members, and the two     *)
(* that keep guessers out, the lock and the limits.  For any number of     *)
(* browsers, accounts, workspaces, members, requests and sign-ins, and for *)
(* any failure at any moment.                                              *)
(***************************************************************************)
EXTENDS AuthSessions, Tenants, Members, LoginLockout, RateLimits, FiniteSetTheorems,
        TLAPS

-----------------------------------------------------------------------------
(***************************************************************************)
(* Sessions: a session that is marked revoked has no live token, a refresh *)
(* that has gone on has killed the token it was given, and a token is      *)
(* found revoked only if something excuses it.                             *)
(***************************************************************************)
(* What cookies and requests hold has been issued.                         *)
Issued(s) == s = NoSession \/ (s \in Session /\ sessionRow[s] # "none")

CookiesIssued == \A b \in Browser : Issued(cookie[b])

(* The two rows of a session are created together.                         *)
RowsTogether == \A s \in Session : sessionRow[s] = "none" <=> tokenRow[s] = "none"

(* The operations on one token have a token.                               *)
TokenThere(q) ==
  q.op = "refresh" \/ q.step \in {"lookup", "revokeOne", "revokeOneSession"}
    => q.token \in Session

(* A request locks rows that are there, and sessions of its own account.   *)
LocksSound(q) ==
  /\ \A s \in q.lockedTokens : tokenRow[s] # "none"
  /\ \A s \in q.lockedSessions :
       sessionRow[s] # "none" /\ issuedTo[s] \in Browser /\ UserOf[issuedTo[s]] = UserOf[q.browser]

(* Between the two UPDATEs of RevokeSessionByRefreshHash the token, if it  *)
(* lives, is locked.                                                       *)
TokenLocked(q) ==
  q.step = "revokeOneSession" /\ tokenRow[q.token] = "live" => q.token \in q.lockedTokens

TokenDead(q) ==
  q.op = "refresh" /\ q.step \in {"create", "answer"} => tokenRow[q.token] = "revoked"

RequestSound(q) ==
  /\ Issued(q.token) /\ Issued(q.issued)
  /\ TokenThere(q) /\ LocksSound(q) /\ TokenLocked(q) /\ TokenDead(q)

(* The inductive invariant.  RevokedSessionHasNoToken alone is not: it     *)
(* needs what the request between the two UPDATEs holds locked.            *)
RowsAndRequests ==
  /\ CookiesIssued /\ RowsTogether
  /\ \A r \in AuthRequest : RequestSound(areq[r])
  /\ RevokedSessionHasNoToken

SessionsInv == AuthTypeOK /\ RowsAndRequests

(* At first there is no session, no token and no request.                  *)
LEMMA AuthInitInv == AuthInit => SessionsInv
<1> SUFFICES ASSUME AuthInit PROVE SessionsInv
  OBVIOUS
<1>1. AuthTypeOK
  BY DEF AuthInit, AuthTypeOK, NoRequest, AuthOp, AuthStep, RowState
<1>2. RequestSound(NoRequest)
  BY DEF RequestSound, Issued, TokenThere, LocksSound, TokenLocked, TokenDead, NoRequest
<1>3. CookiesIssued /\ RowsTogether /\ RevokedSessionHasNoToken
  BY DEF AuthInit, CookiesIssued, Issued, RowsTogether, RevokedSessionHasNoToken
<1> QED
  BY <1>1, <1>2, <1>3 DEF SessionsInv, RowsAndRequests, AuthInit

(* The requests of the type invariant, and how the actions change one.     *)
AuthReq ==
  [op : AuthOp, step : AuthStep, browser : Browser \cup {NoBrowser},
   token : Session \cup {NoSession}, issued : Session \cup {NoSession},
   lockedSessions : SUBSET Session, lockedTokens : SUBSET Session]

(* A request whose step or locks are replaced is a request,                *)
LEMMA ReqFields ==
  ASSUME NEW q \in AuthReq, NEW step \in AuthStep,
         NEW sessions \in SUBSET Session, NEW tokens \in SUBSET Session
  PROVE  /\ [q EXCEPT !.step = step] \in AuthReq
         /\ [q EXCEPT !.step = step, !.lockedTokens = tokens] \in AuthReq
         /\ [q EXCEPT !.step = step, !.lockedSessions = sessions] \in AuthReq
         /\ [q EXCEPT !.lockedSessions = sessions, !.lockedTokens = tokens, !.step = step]
              \in AuthReq
<1>1. [q EXCEPT !.step = step] \in AuthReq
  BY DEF AuthReq
<1>2. ASSUME NEW p \in AuthReq PROVE [p EXCEPT !.lockedTokens = tokens] \in AuthReq
  BY DEF AuthReq
<1>3. ASSUME NEW p \in AuthReq PROVE [p EXCEPT !.lockedSessions = sessions] \in AuthReq
  BY DEF AuthReq
<1>4. ASSUME NEW p \in AuthReq PROVE [p EXCEPT !.step = step] \in AuthReq
  BY DEF AuthReq
<1>5. /\ [q EXCEPT !.step = step, !.lockedTokens = tokens]
           = [[q EXCEPT !.step = step] EXCEPT !.lockedTokens = tokens]
      /\ [q EXCEPT !.step = step, !.lockedSessions = sessions]
           = [[q EXCEPT !.step = step] EXCEPT !.lockedSessions = sessions]
      /\ [q EXCEPT !.lockedSessions = sessions, !.lockedTokens = tokens, !.step = step]
           = [[[q EXCEPT !.lockedSessions = sessions] EXCEPT !.lockedTokens = tokens]
                EXCEPT !.step = step]
  OBVIOUS
<1> QED
  BY <1>1, <1>2, <1>3, <1>4, <1>5

(* and so are all of them when one is replaced.                            *)
LEMMA ReqTyped ==
  ASSUME NEW all \in [AuthRequest -> AuthReq], NEW r \in AuthRequest, NEW q \in AuthReq
  PROVE  [all EXCEPT ![r] = q] \in [AuthRequest -> AuthReq]
OBVIOUS

(* Every action keeps the types.                                           *)
LEMMA AuthTypeStep == SessionsInv /\ [AuthNext]_authVars => AuthTypeOK'
<1> SUFFICES ASSUME SessionsInv, [AuthNext]_authVars PROVE AuthTypeOK'
  OBVIOUS
<1>type. AuthTypeOK /\ \A r \in AuthRequest : TokenThere(areq[r])
  BY DEF SessionsInv, RowsAndRequests, RequestSound
<1>req. areq \in [AuthRequest -> AuthReq]
  BY <1>type DEF AuthTypeOK, AuthReq
<1>fields. \A r \in AuthRequest : areq[r] \in AuthReq
  BY <1>req
<1>steps. {"revokeAll", "refuse", "check", "revokeOne", "create", "answer",
           "revokeOneSession", "revokeAllTokens"} \subseteq AuthStep
  BY DEF AuthStep
<1>empty. {} \in SUBSET Session
  OBVIOUS
<1>1. ASSUME NEW r \in AuthRequest, NEW b \in Browser, NEW op \in AuthOp, NEW switch \in BOOLEAN,
             Arrive(r, b, op, switch)
      PROVE  AuthTypeOK'
  <2>1. FirstStep(op) \in AuthStep
    BY DEF FirstStep, AuthOp, AuthStep
  <2> DEFINE q == [NoRequest EXCEPT !.op = op, !.browser = b, !.step = FirstStep(op),
                     !.token = IF op \in {"refresh", "logout"} THEN cookie[b] ELSE NoSession]
  <2>2. q \in AuthReq
    BY <2>1, <1>type DEF AuthTypeOK, AuthReq, NoRequest
  <2>3. areq' = [areq EXCEPT ![r] = q]
    BY <1>1 DEF Arrive
  <2>4. areq' \in [AuthRequest -> AuthReq]
    BY <1>req, <2>2, <2>3, ReqTyped
  <2> QED
    BY <1>1, <2>4, <1>type DEF Arrive, AuthTypeOK, AuthReq
<1>2. ASSUME NEW r \in AuthRequest, LookupRefresh(r) PROVE AuthTypeOK'
  <2> DEFINE step == IF tokenRow[areq[r].token] = "revoked" THEN "revokeAll"
                      ELSE IF areq[r].token \in expired THEN "refuse" ELSE "check"
  <2>a. step \in AuthStep
    BY <1>steps
  <2>b. areq' = [areq EXCEPT ![r] = [areq[r] EXCEPT !.step = step]]
    BY <1>2 DEF LookupRefresh, GoTo
  <2>c. [areq[r] EXCEPT !.step = step] \in AuthReq
    BY <1>fields, <1>empty, <2>a, ReqFields
  <2>1. areq' \in [AuthRequest -> AuthReq]
    BY <1>req, <2>b, <2>c, ReqTyped
  <2> QED
    BY <1>2, <2>1, <1>type DEF LookupRefresh, AuthTypeOK, AuthReq
<1>3. ASSUME NEW r \in AuthRequest, CheckAccess(r) PROVE AuthTypeOK'
  <2>1. PICK step \in {"refuse", "revokeOne", "create"} : GoTo(r, step)
    BY <1>3 DEF CheckAccess
  <2>2. [areq[r] EXCEPT !.step = step] \in AuthReq
    BY <1>fields, <1>steps, <1>empty, ReqFields
  <2>3. areq' \in [AuthRequest -> AuthReq]
    BY <1>req, <2>1, <2>2, ReqTyped DEF GoTo
  <2> QED
    BY <1>3, <2>3, <1>type DEF CheckAccess, AuthTypeOK, AuthReq
<1>4. ASSUME NEW r \in AuthRequest, RevokeOneTokens(r) PROVE AuthTypeOK'
  <2> DEFINE step == "revokeOneSession"
  <2> DEFINE rows == LiveTokens({areq[r].token})
  <2>s. rows \in SUBSET Session
    BY <1>4, <1>type DEF RevokeOneTokens, TokenThere, LiveTokens
  <2>a. step \in AuthStep
    BY <1>steps
  <2>b. areq' = [areq EXCEPT ![r] = [areq[r] EXCEPT !.step = step, !.lockedTokens = rows]]
    BY <1>4 DEF RevokeOneTokens
  <2>c. [areq[r] EXCEPT !.step = step, !.lockedTokens = rows] \in AuthReq
    BY <1>fields, <1>empty, <2>s, <2>a, ReqFields
  <2>1. areq' \in [AuthRequest -> AuthReq]
    BY <1>req, <2>b, <2>c, ReqTyped
  <2> QED
    BY <1>4, <2>1, <1>type DEF RevokeOneTokens, AuthTypeOK, AuthReq
<1>5. ASSUME NEW r \in AuthRequest, RevokeOneSession(r) PROVE AuthTypeOK'
  <2> DEFINE step == IF areq[r].op = "refresh" THEN "create" ELSE "answer"
  <2>a. step \in AuthStep
    BY <1>steps
  <2>b. areq' = [areq EXCEPT ![r] = [areq[r] EXCEPT !.step = step, !.lockedTokens = {}]]
    BY <1>5 DEF RevokeOneSession
  <2>c. [areq[r] EXCEPT !.step = step, !.lockedTokens = {}] \in AuthReq
    BY <1>fields, <1>empty, <2>a, ReqFields
  <2>1. areq' \in [AuthRequest -> AuthReq]
    BY <1>req, <2>b, <2>c, ReqTyped
  <2>2. tokenRow' \in [Session -> RowState] /\ sessionRow' \in [Session -> RowState]
    BY <1>5, <1>type DEF RevokeOneSession, Revoke, RowState, AuthTypeOK
  <2>3. excused' \in SUBSET Session
    BY <1>5, <1>type DEF RevokeOneSession, TokenThere, AuthTypeOK
  <2> QED
    BY <1>5, <2>1, <2>2, <2>3, <1>type DEF RevokeOneSession, AuthTypeOK, AuthReq
<1>6. ASSUME NEW r \in AuthRequest, RevokeAllSessions(r) PROVE AuthTypeOK'
  <2> DEFINE step == "revokeAllTokens"
  <2> DEFINE rows == LiveSessions(SessionsOf(Requester(r)))
  <2>s. rows \in SUBSET Session
    BY DEF LiveSessions, SessionsOf
  <2>a. step \in AuthStep
    BY <1>steps
  <2>b. areq' = [areq EXCEPT ![r] = [areq[r] EXCEPT !.step = step, !.lockedSessions = rows]]
    BY <1>6 DEF RevokeAllSessions
  <2>c. [areq[r] EXCEPT !.step = step, !.lockedSessions = rows] \in AuthReq
    BY <1>fields, <1>empty, <2>s, <2>a, ReqFields
  <2>1. areq' \in [AuthRequest -> AuthReq]
    BY <1>req, <2>b, <2>c, ReqTyped
  <2> QED
    BY <1>6, <2>1, <1>type DEF RevokeAllSessions, AuthTypeOK, AuthReq
<1>7. ASSUME NEW r \in AuthRequest, RevokeAllTokens(r) PROVE AuthTypeOK'
  <2> DEFINE step == AfterRevokeAll(r)
  <2>a. step \in AuthStep
    BY <1>steps DEF AfterRevokeAll
  <2>b. areq' = [areq EXCEPT ![r] = [areq[r] EXCEPT !.step = step, !.lockedSessions = {}]]
    BY <1>7 DEF RevokeAllTokens, AfterRevokeAll
  <2>c. [areq[r] EXCEPT !.step = step, !.lockedSessions = {}] \in AuthReq
    BY <1>fields, <1>empty, <2>a, ReqFields
  <2>1. areq' \in [AuthRequest -> AuthReq]
    BY <1>req, <2>b, <2>c, ReqTyped
  <2> QED
    BY <1>7, <2>1, <1>type DEF RevokeAllTokens, Revoke, SessionsOf, RowState, AuthTypeOK, AuthReq
<1>8. ASSUME NEW r \in AuthRequest, RollBack(r) PROVE AuthTypeOK'
  <2> DEFINE step == IF areq[r].op = "password" THEN "answer" ELSE "refuse"
  <2>a. step \in AuthStep
    BY <1>steps
  <2>b. areq' = [areq EXCEPT ![r] = [areq[r] EXCEPT !.lockedSessions = {}, !.lockedTokens = {}, !.step = step]]
    BY <1>8 DEF RollBack
  <2>c. [areq[r] EXCEPT !.lockedSessions = {}, !.lockedTokens = {}, !.step = step] \in AuthReq
    BY <1>fields, <1>empty, <2>a, ReqFields
  <2>1. areq' \in [AuthRequest -> AuthReq]
    BY <1>req, <2>b, <2>c, ReqTyped
  <2> QED
    BY <1>8, <2>1, <1>type DEF RollBack, AuthTypeOK, AuthReq
<1>9. ASSUME NEW r \in AuthRequest, CreateSession(r) PROVE AuthTypeOK'
  <2>1. PICK s \in Session :
          /\ sessionRow' = [sessionRow EXCEPT ![s] = "live"]
          /\ tokenRow' = [tokenRow EXCEPT ![s] = "live"]
          /\ issuedTo' = [issuedTo EXCEPT ![s] = areq[r].browser]
          /\ areq' = [areq EXCEPT ![r].step = "answer", ![r].issued = s]
    BY <1>9 DEF CreateSession
  <2>0. areq' = [areq EXCEPT ![r] = [areq[r] EXCEPT !.step = "answer", !.issued = s]]
    BY <2>1, <1>req
  <2>2. [areq[r] EXCEPT !.step = "answer", !.issued = s] \in AuthReq
    BY <1>fields DEF AuthReq, AuthStep
  <2>3. areq' \in [AuthRequest -> AuthReq]
    BY <1>req, <2>0, <2>2, ReqTyped
  <2>4. areq[r].browser \in Browser \cup {NoBrowser}
    BY <1>fields DEF AuthReq
  <2>5. issuedTo' \in [Session -> Browser \cup {NoBrowser}]
    BY <1>type, <2>1, <2>4 DEF AuthTypeOK
  <2>6. tokenRow' \in [Session -> RowState] /\ sessionRow' \in [Session -> RowState]
    BY <1>type, <2>1 DEF AuthTypeOK, RowState
  <2> QED
    BY <1>9, <1>type, <2>3, <2>5, <2>6 DEF CreateSession, AuthTypeOK, AuthReq
<1>10. ASSUME NEW r \in AuthRequest, AnswerOk(r) PROVE AuthTypeOK'
  BY <1>10, <1>type DEF AnswerOk, AuthTypeOK, AuthOp, AuthStep, RowState, NoRequest
<1>11. ASSUME NEW r \in AuthRequest, AnswerError(r) PROVE AuthTypeOK'
  BY <1>11, <1>type DEF AnswerError, AuthTypeOK, AuthOp, AuthStep, RowState, NoRequest
<1>12. ASSUME NEW r \in AuthRequest, CreateFails(r) PROVE AuthTypeOK'
  <2> DEFINE step == "refuse"
  <2>a. step \in AuthStep
    BY <1>steps
  <2>b. areq' = [areq EXCEPT ![r] = [areq[r] EXCEPT !.step = step]]
    BY <1>12 DEF CreateFails, GoTo
  <2>c. [areq[r] EXCEPT !.step = step] \in AuthReq
    BY <1>fields, <1>empty, <2>a, ReqFields
  <2>1. areq' \in [AuthRequest -> AuthReq]
    BY <1>req, <2>b, <2>c, ReqTyped
  <2> QED
    BY <1>12, <2>1, <1>type DEF CreateFails, Orphaned, AuthTypeOK, AuthReq
<1>13. ASSUME NEW r \in AuthRequest, LoseAnswer(r) PROVE AuthTypeOK'
  BY <1>13, <1>type DEF LoseAnswer, Orphaned, AuthTypeOK, AuthOp, AuthStep, RowState, NoRequest
<1>14. CASE ApiCrash
  BY <1>14, <1>type DEF ApiCrash, Orphaned, AuthTypeOK, AuthOp, AuthStep, RowState, NoRequest
<1>15. ASSUME NEW s \in Session, Expire(s) PROVE AuthTypeOK'
  BY <1>15, <1>type DEF Expire, AuthTypeOK, AuthOp, AuthStep, RowState, NoRequest
<1>16. ASSUME NEW u \in AuthUser, SetActive(u) PROVE AuthTypeOK'
  BY <1>16, <1>type DEF SetActive, AuthTypeOK, AuthOp, AuthStep, RowState, NoRequest
<1>17. CASE UNCHANGED authVars
  BY <1>17, <1>type DEF authVars, AuthTypeOK, AuthOp, AuthStep, RowState, NoRequest
<1> QED
  BY <1>1, <1>2, <1>3, <1>4, <1>5, <1>6, <1>7, <1>8, <1>9,
     <1>10, <1>11, <1>12, <1>13, <1>14, <1>15, <1>16, <1>17
     DEF AuthNext, AuthRequestStep, RevokeFails, BreakDeadlock

(* Rows only go from none to live to revoked, and keep their owner.        *)
RowsAdvance ==
  \A s \in Session :
    /\ sessionRow[s] # "none" => sessionRow'[s] # "none" /\ issuedTo'[s] = issuedTo[s]
    /\ tokenRow[s] # "none" => tokenRow'[s] # "none"
    /\ tokenRow[s] = "revoked" => tokenRow'[s] = "revoked"
    /\ tokenRow[s] # "none" /\ tokenRow'[s] = "live" => tokenRow[s] = "live"

(* A step that leaves the rows alone keeps what holds of the rows.         *)
LEMMA RowsKept ==
  UNCHANGED <<sessionRow, tokenRow, issuedTo>> =>
    RowsAdvance /\ (RowsTogether => RowsTogether')
                /\ (RevokedSessionHasNoToken => RevokedSessionHasNoToken')
BY DEF RowsAdvance, RowsTogether, RevokedSessionHasNoToken

(* What holds of a request is disturbed by no advance of the rows.         *)
LEMMA StaysSound ==
  ASSUME NEW q \in AuthReq, RowsTogether, RowsAdvance, RequestSound(q)
  PROVE  RequestSound(q)'
<1>1. (Issued(q.token) /\ Issued(q.issued) /\ TokenThere(q))'
  BY DEF RowsAdvance, RequestSound, Issued, TokenThere
<1>2. LocksSound(q)'
  BY DEF RowsAdvance, RequestSound, LocksSound, AuthReq
<1>3. TokenLocked(q)'
  BY AuthConstants DEF RowsAdvance, RowsTogether, RequestSound, TokenLocked, TokenThere, Issued, AuthReq
<1>4. TokenDead(q)'
  BY DEF RowsAdvance, RequestSound, TokenDead, TokenThere
<1> QED
  BY <1>1, <1>2, <1>3, <1>4 DEF RequestSound

(* An action that changes one request leaves the others sound.             *)
LEMMA OneRequest ==
  ASSUME SessionsInv, RowsAdvance, NEW r \in AuthRequest, NEW q \in AuthReq,
         areq' = [areq EXCEPT ![r] = q], RequestSound(q)'
  PROVE  (\A p \in AuthRequest : RequestSound(areq[p]))'
<1> SUFFICES ASSUME NEW p \in AuthRequest PROVE RequestSound(areq[p])'
  OBVIOUS
<1>1. areq \in [AuthRequest -> AuthReq]
  BY DEF SessionsInv, AuthTypeOK, AuthReq
<1>2. CASE p = r
  <2>1. areq'[p] = q
    BY <1>1, <1>2
  <2> QED
    BY <2>1 DEF RequestSound, Issued, TokenThere, LocksSound, TokenLocked, TokenDead
<1>3. CASE p # r
  <2>1. areq'[p] = areq[p] /\ areq[p] \in AuthReq
    BY <1>1, <1>3
  <2>2. PICK o \in AuthReq : o = areq[p]
    BY <2>1
  <2>3. RequestSound(o)
    BY <2>2 DEF SessionsInv, RowsAndRequests
  <2>4. RequestSound(o)'
    BY <2>3, StaysSound DEF SessionsInv, RowsAndRequests
  <2> QED
    BY <2>1, <2>2, <2>4 DEF RequestSound, Issued, TokenThere, LocksSound, TokenLocked, TokenDead
<1> QED
  BY <1>2, <1>3

(* What a request keeps when it only moves on, or drops its locks.         *)
LEMMA MovesOn ==
  ASSUME NEW q \in AuthReq, NEW step \in AuthStep, RequestSound(q),
         step \in {"revokeOne", "revokeOneSession", "lookup"} => q.token \in Session,
         step # "revokeOneSession",
         step \in {"create", "answer"} => q.op # "refresh"
  PROVE  /\ RequestSound([q EXCEPT !.step = step])
         /\ RequestSound([q EXCEPT !.lockedSessions = {}, !.lockedTokens = {}, !.step = step])
<1> USE DEF RequestSound, Issued, TokenThere, LocksSound, TokenLocked, TokenDead, AuthReq
<1>1. RequestSound([q EXCEPT !.step = step])
  OBVIOUS
<1>2. RequestSound([q EXCEPT !.lockedSessions = {}, !.lockedTokens = {}, !.step = step])
  OBVIOUS
<1> QED
  BY <1>1, <1>2

(* An idle request promises nothing.                                       *)
LEMMA IdleSound == RequestSound(NoRequest) /\ NoRequest \in AuthReq
BY DEF RequestSound, Issued, TokenThere, LocksSound, TokenLocked, TokenDead, NoRequest,
       AuthReq, AuthOp, AuthStep

(* An action that changes no rows and no cookie, and one request soundly.  *)
LEMMA QuietStep ==
  ASSUME SessionsInv, UNCHANGED <<sessionRow, tokenRow, issuedTo, cookie>>,
         NEW r \in AuthRequest, NEW v \in AuthReq,
         areq' = [areq EXCEPT ![r] = v], RequestSound(v)
  PROVE  RowsAndRequests'
<1>1. RowsAdvance /\ RowsTogether' /\ RevokedSessionHasNoToken'
  BY RowsKept DEF SessionsInv, RowsAndRequests
<1>2. RequestSound(v)'
  BY <1>1, StaysSound DEF SessionsInv, RowsAndRequests
<1>3. CookiesIssued'
  BY DEF SessionsInv, RowsAndRequests, CookiesIssued, Issued
<1> QED
  BY <1>1, <1>2, <1>3, OneRequest DEF RowsAndRequests

(* The requests before they write.                                         *)
LEMMA ReadingSteps ==
  ASSUME SessionsInv, NEW r \in AuthRequest,
         LookupRefresh(r) \/ CheckAccess(r) \/ RollBack(r) \/ CreateFails(r)
           \/ AnswerError(r) \/ LoseAnswer(r)
  PROVE  RowsAndRequests'
<1>1. areq[r] \in AuthReq /\ areq \in [AuthRequest -> AuthReq]
  BY DEF SessionsInv, AuthTypeOK, AuthReq
<1>2. RequestSound(areq[r])
  BY DEF SessionsInv, RowsAndRequests
<1>3. CASE LookupRefresh(r) \/ CheckAccess(r) \/ CreateFails(r)
  <2>1. PICK step \in {"revokeAll", "refuse", "check", "revokeOne", "create"} :
          /\ areq' = [areq EXCEPT ![r].step = step]
          /\ step = "create" => areq[r].op # "refresh"
          /\ step = "revokeOne" => areq[r].op = "refresh"
    BY <1>3 DEF LookupRefresh, CheckAccess, CreateFails, GoTo
  <2>2. step \in AuthStep
    BY DEF AuthStep
  <2>3. [areq[r] EXCEPT !.step = step] \in AuthReq
    BY <1>1, <2>2, ReqFields, {} \in SUBSET Session
  <2>4. step = "revokeOne" => areq[r].token \in Session
    BY <1>2, <2>1 DEF RequestSound, TokenThere
  <2>5. RequestSound([areq[r] EXCEPT !.step = step])
    BY <1>1, <1>2, <2>1, <2>2, <2>4, MovesOn
  <2>6. areq' = [areq EXCEPT ![r] = [areq[r] EXCEPT !.step = step]]
    BY <1>1, <2>1
  <2>7. UNCHANGED <<sessionRow, tokenRow, issuedTo, cookie>>
    BY <1>3 DEF LookupRefresh, CheckAccess, CreateFails
  <2> QED
    BY <2>3, <2>5, <2>6, <2>7, QuietStep
<1>4. CASE RollBack(r)
  <2> DEFINE step == IF areq[r].op = "password" THEN "answer" ELSE "refuse"
             v == [areq[r] EXCEPT !.lockedSessions = {}, !.lockedTokens = {}, !.step = step]
  <2>2. step \in AuthStep
    BY DEF AuthStep
  <2>3. v \in AuthReq
    BY <1>1, <2>2, ReqFields, {} \in SUBSET Session
  <2>5. RequestSound(v)
    BY <1>1, <1>2, <2>2, MovesOn
  <2>6. areq' = [areq EXCEPT ![r] = v]
    BY <1>1, <1>4 DEF RollBack
  <2>7. UNCHANGED <<sessionRow, tokenRow, issuedTo, cookie>>
    BY <1>4 DEF RollBack
  <2> QED
    BY <2>3, <2>5, <2>6, <2>7, QuietStep
<1>5. CASE AnswerError(r) \/ LoseAnswer(r)
  BY <1>5, IdleSound, QuietStep DEF AnswerError, LoseAnswer
<1> QED
  BY <1>3, <1>4, <1>5

(* A request arrives with a token that was issued.                         *)
LEMMA ArriveStep ==
  ASSUME SessionsInv, NEW r \in AuthRequest, NEW b \in Browser, NEW op \in AuthOp,
         NEW switch \in BOOLEAN, Arrive(r, b, op, switch)
  PROVE  RowsAndRequests'
<1> DEFINE token == IF op \in {"refresh", "logout"} THEN cookie[b] ELSE NoSession
           v == [NoRequest EXCEPT !.op = op, !.browser = b,
                                  !.step = FirstStep(op), !.token = token]
<1>1. areq' = [areq EXCEPT ![r] = v] /\ UNCHANGED <<sessionRow, tokenRow, issuedTo, cookie>>
  BY DEF Arrive
<1>2. FirstStep(op) \in AuthStep /\ FirstStep(op) \notin {"create", "answer", "revokeOneSession"}
  BY DEF FirstStep, AuthOp, AuthStep
<1>3. token \in Session \cup {NoSession} /\ Issued(token) /\ Issued(NoSession)
  BY DEF SessionsInv, RowsAndRequests, AuthTypeOK, CookiesIssued, Issued
<1>4. op = "refresh" \/ FirstStep(op) \in {"lookup", "revokeOne", "revokeOneSession"}
        => token \in Session
  <2>1. FirstStep(op) \in {"lookup", "revokeOne", "revokeOneSession"} => op \in {"refresh", "logout"}
    BY DEF FirstStep, AuthOp
  <2>2. op \in {"refresh", "logout"} => cookie[b] # NoSession
    BY DEF Arrive, Authenticated
  <2> QED
    BY <1>3, <2>1, <2>2
<1>5. v \in AuthReq
  BY <1>2, <1>3 DEF AuthReq, NoRequest
<1>6. RequestSound(v)
  BY <1>2, <1>3, <1>4 DEF RequestSound, TokenThere, LocksSound, TokenLocked, TokenDead, NoRequest
<1> QED
  BY <1>1, <1>5, <1>6, QuietStep

(* The first UPDATE of a revocation takes the locks that the second and    *)
(* the commit rely on.                                                     *)
LEMMA LockingSteps ==
  ASSUME SessionsInv, NEW r \in AuthRequest, RevokeOneTokens(r) \/ RevokeAllSessions(r)
  PROVE  RowsAndRequests'
<1>1. areq[r] \in AuthReq /\ areq \in [AuthRequest -> AuthReq]
  BY DEF SessionsInv, AuthTypeOK, AuthReq
<1>2. RequestSound(areq[r])
  BY DEF SessionsInv, RowsAndRequests
<1>3. CASE RevokeOneTokens(r)
  <2> DEFINE rows == LiveTokens({areq[r].token})
             v == [areq[r] EXCEPT !.step = "revokeOneSession", !.lockedTokens = rows]
  <2>1. areq[r].step = "revokeOne" /\ areq[r].token \in Session
    BY <1>2, <1>3 DEF RevokeOneTokens, RequestSound, TokenThere
  <2>2. rows \in SUBSET Session /\ \A s \in rows : tokenRow[s] # "none"
    BY <2>1 DEF LiveTokens
  <2>3. tokenRow[areq[r].token] = "live" => areq[r].token \in rows
    BY DEF LiveTokens
  <2>4. v \in AuthReq
    BY <1>1, <2>2, ReqFields, "revokeOneSession" \in AuthStep DEF AuthStep
  <2>5. /\ v.op = areq[r].op /\ v.step = "revokeOneSession" /\ v.token = areq[r].token
        /\ v.issued = areq[r].issued /\ v.lockedTokens = rows
        /\ v.lockedSessions = areq[r].lockedSessions /\ v.browser = areq[r].browser
    BY <1>1 DEF AuthReq
  <2>6. RequestSound(v)
    BY <1>2, <2>1, <2>2, <2>3, <2>5
       DEF RequestSound, TokenThere, LocksSound, TokenLocked, TokenDead
  <2>7. areq' = [areq EXCEPT ![r] = v] /\ UNCHANGED <<sessionRow, tokenRow, issuedTo, cookie>>
    BY <1>1, <1>3 DEF RevokeOneTokens
  <2> QED
    BY <2>4, <2>6, <2>7, QuietStep
<1>4. CASE RevokeAllSessions(r)
  <2> DEFINE rows == LiveSessions(SessionsOf(Requester(r)))
             v == [areq[r] EXCEPT !.step = "revokeAllTokens", !.lockedSessions = rows]
  <2>1. areq[r].step = "revokeAll"
    BY <1>4 DEF RevokeAllSessions
  <2>2. rows \in SUBSET Session
        /\ \A s \in rows : /\ sessionRow[s] # "none" /\ issuedTo[s] \in Browser
                            /\ UserOf[issuedTo[s]] = UserOf[areq[r].browser]
    BY DEF LiveSessions, SessionsOf, Requester
  <2>4. v \in AuthReq
    BY <1>1, <2>2, ReqFields, "revokeAllTokens" \in AuthStep DEF AuthStep
  <2>5. /\ v.op = areq[r].op /\ v.step = "revokeAllTokens" /\ v.token = areq[r].token
        /\ v.issued = areq[r].issued /\ v.lockedTokens = areq[r].lockedTokens
        /\ v.lockedSessions = rows /\ v.browser = areq[r].browser
    BY <1>1 DEF AuthReq
  <2>6. RequestSound(v)
    BY <1>2, <2>1, <2>2, <2>5 DEF RequestSound, TokenThere, LocksSound, TokenLocked, TokenDead
  <2>7. areq' = [areq EXCEPT ![r] = v] /\ UNCHANGED <<sessionRow, tokenRow, issuedTo, cookie>>
    BY <1>1, <1>4 DEF RevokeAllSessions
  <2> QED
    BY <2>4, <2>6, <2>7, QuietStep
<1> QED
  BY <1>3, <1>4

(* The commit of RevokeSessionByRefreshHash: a session that it marks has   *)
(* its token locked or dead already.                                       *)
LEMMA RevokeOneStep ==
  ASSUME SessionsInv, NEW r \in AuthRequest, RevokeOneSession(r)
  PROVE  RowsAndRequests'
<1> DEFINE rows == LiveSessions({areq[r].token})
           tokens == areq[r].lockedTokens
           step == IF areq[r].op = "refresh" THEN "create" ELSE "answer"
           v == [areq[r] EXCEPT !.step = step, !.lockedTokens = {}]
<1>1. areq[r] \in AuthReq /\ areq \in [AuthRequest -> AuthReq]
  BY DEF SessionsInv, AuthTypeOK, AuthReq
<1>2. RequestSound(areq[r]) /\ areq[r].step = "revokeOneSession" /\ areq[r].token \in Session
  BY DEF SessionsInv, RowsAndRequests, RevokeOneSession, RequestSound, TokenThere
<1>3. /\ \A s \in Session : tokenRow'[s] = IF s \in tokens THEN "revoked" ELSE tokenRow[s]
      /\ \A s \in Session : sessionRow'[s] = IF s \in rows THEN "revoked" ELSE sessionRow[s]
      /\ UNCHANGED <<issuedTo, cookie>>
      /\ areq' = [areq EXCEPT ![r] = v]
  BY <1>1 DEF RevokeOneSession, Revoke
<1>4. \A s \in Session : tokenRow[s] \in RowState /\ sessionRow[s] \in RowState
  BY DEF SessionsInv, AuthTypeOK
<1>5. RowsTogether /\ RevokedSessionHasNoToken /\ CookiesIssued
  BY DEF SessionsInv, RowsAndRequests
<1>6. \A s \in tokens : tokenRow[s] # "none"
  BY <1>2 DEF RequestSound, LocksSound
<1>7. \A s \in rows : s = areq[r].token /\ sessionRow[s] = "live"
  BY DEF LiveSessions
<1>8. RowsAdvance
  BY <1>3, <1>6, <1>7 DEF RowsAdvance
<1>9. RowsTogether'
  BY <1>3, <1>5, <1>6, <1>7 DEF RowsTogether
<1>10. tokenRow[areq[r].token] # "none" /\ tokenRow'[areq[r].token] = "revoked"
  <2>1. sessionRow[areq[r].token] # "none"
    BY <1>2, AuthConstants DEF RequestSound, Issued
  <2>2. tokenRow[areq[r].token] # "none"
    BY <1>2, <1>5, <2>1 DEF RowsTogether
  <2>3. tokenRow[areq[r].token] = "live" => areq[r].token \in tokens
    BY <1>2 DEF RequestSound, TokenLocked
  <2> QED
    BY <1>2, <1>3, <1>4, <2>2, <2>3 DEF RowState
<1>11. RevokedSessionHasNoToken'
  BY <1>3, <1>5, <1>7, <1>10 DEF RevokedSessionHasNoToken
<1>12. CookiesIssued'
  BY <1>3, <1>5, <1>8 DEF CookiesIssued, Issued, RowsAdvance
<1>13. v \in AuthReq
  BY <1>1, ReqFields, step \in AuthStep, {} \in SUBSET Session DEF AuthStep
<1>14. \E w \in AuthReq : areq' = [areq EXCEPT ![r] = w] /\ RequestSound(w)'
  <2>1. PICK q \in AuthReq : q = areq[r]
    BY <1>1
  <2>2. RequestSound(q)'
    BY <1>2, <1>5, <1>8, <2>1, StaysSound
  <2>3. PICK w \in AuthReq : w = v
    BY <1>13
  <2>4. /\ w.op = q.op /\ w.step \in {"create", "answer"} /\ w.token = q.token
        /\ w.issued = q.issued /\ w.lockedTokens = {}
        /\ w.lockedSessions = q.lockedSessions /\ w.browser = q.browser
    BY <2>1, <2>3 DEF AuthReq
  <2>5. tokenRow'[w.token] = "revoked" /\ w.token \in Session
    BY <1>2, <1>10, <2>1, <2>4
  <2>6. RequestSound(w)'
    BY <2>2, <2>4, <2>5 DEF RequestSound, Issued, TokenThere, LocksSound, TokenLocked, TokenDead
  <2>7. areq' = [areq EXCEPT ![r] = w]
    BY <1>3, <2>3
  <2> QED
    BY <2>6, <2>7
<1>15. (\A p \in AuthRequest : RequestSound(areq[p]))'
  BY <1>8, <1>14, OneRequest
<1> QED
  BY <1>9, <1>11, <1>12, <1>15 DEF RowsAndRequests

(* The commit of RevokeAllSessionsByUser: the tokens are read after the    *)
(* sessions, so every session it marks has its token marked too.           *)
LEMMA RevokeAllStep ==
  ASSUME SessionsInv, NEW r \in AuthRequest, RevokeAllTokens(r)
  PROVE  RowsAndRequests'
<1> DEFINE mine == SessionsOf(Requester(r))
           rows == LiveTokens(mine)
           sessions == areq[r].lockedSessions
           step == AfterRevokeAll(r)
           v == [areq[r] EXCEPT !.step = step, !.lockedSessions = {}]
<1>1. areq[r] \in AuthReq /\ areq \in [AuthRequest -> AuthReq]
  BY DEF SessionsInv, AuthTypeOK, AuthReq
<1>2. RequestSound(areq[r])
  BY DEF SessionsInv, RowsAndRequests
<1>3. /\ \A s \in Session : tokenRow'[s] = IF s \in rows THEN "revoked" ELSE tokenRow[s]
      /\ \A s \in Session : sessionRow'[s] = IF s \in sessions THEN "revoked" ELSE sessionRow[s]
      /\ UNCHANGED <<issuedTo, cookie>>
      /\ areq' = [areq EXCEPT ![r] = v]
  BY <1>1 DEF RevokeAllTokens, Revoke
<1>4. \A s \in Session : tokenRow[s] \in RowState /\ sessionRow[s] \in RowState
  BY DEF SessionsInv, AuthTypeOK
<1>5. RowsTogether /\ RevokedSessionHasNoToken /\ CookiesIssued
  BY DEF SessionsInv, RowsAndRequests
<1>6. \A s \in Session : s \in rows <=> s \in mine /\ tokenRow[s] = "live"
  BY DEF LiveTokens
<1>7. \A s \in sessions : s \in Session /\ sessionRow[s] # "none" /\ s \in mine
  BY <1>1, <1>2 DEF RequestSound, LocksSound, SessionsOf, Requester, AuthReq
<1>8. RowsAdvance
  BY <1>3, <1>6, <1>7 DEF RowsAdvance
<1>9. RowsTogether'
  BY <1>3, <1>5, <1>6, <1>7 DEF RowsTogether
<1>10. \A s \in sessions : tokenRow'[s] = "revoked"
  BY <1>3, <1>4, <1>5, <1>6, <1>7 DEF RowsTogether, RowState
<1>11. RevokedSessionHasNoToken'
  BY <1>3, <1>5, <1>10 DEF RevokedSessionHasNoToken
<1>12. CookiesIssued'
  BY <1>3, <1>5, <1>8 DEF CookiesIssued, Issued, RowsAdvance
<1>13. v \in AuthReq
  BY <1>1, ReqFields, step \in AuthStep, {} \in SUBSET Session DEF AuthStep, AfterRevokeAll
<1>14. RequestSound(v)
  <2>1. /\ v.op = areq[r].op /\ v.token = areq[r].token
        /\ v.step \in {"refuse", "answer"}
        /\ v.step = "answer" => v.op # "refresh"
        /\ v.issued = areq[r].issued /\ v.lockedTokens = areq[r].lockedTokens
        /\ v.lockedSessions = {} /\ v.browser = areq[r].browser
    BY <1>1 DEF AuthReq, AfterRevokeAll
  <2> QED
    BY <1>2, <2>1 DEF RequestSound, TokenThere, LocksSound, TokenLocked, TokenDead
<1>15. \E w \in AuthReq : areq' = [areq EXCEPT ![r] = w] /\ RequestSound(w)'
  <2>1. PICK w \in AuthReq : w = v
    BY <1>13
  <2>2. RequestSound(w)'
    BY <1>5, <1>8, <1>14, <2>1, StaysSound
  <2> QED
    BY <1>3, <2>1, <2>2
<1>16. (\A p \in AuthRequest : RequestSound(areq[p]))'
  BY <1>8, <1>15, OneRequest
<1> QED
  BY <1>9, <1>11, <1>12, <1>16 DEF RowsAndRequests

(* A new session takes an id that no request, cookie or lock knows.        *)
LEMMA CreateStep ==
  ASSUME SessionsInv, NEW r \in AuthRequest, CreateSession(r)
  PROVE  RowsAndRequests'
<1>1. areq[r] \in AuthReq /\ areq \in [AuthRequest -> AuthReq]
  BY DEF SessionsInv, AuthTypeOK, AuthReq
<1>2. RequestSound(areq[r]) /\ areq[r].step = "create"
  BY DEF SessionsInv, RowsAndRequests, CreateSession
<1>3. RowsTogether /\ RevokedSessionHasNoToken /\ CookiesIssued
  BY DEF SessionsInv, RowsAndRequests
<1>4. PICK s \in Session :
        /\ sessionRow[s] = "none"
        /\ sessionRow' = [sessionRow EXCEPT ![s] = "live"]
        /\ tokenRow' = [tokenRow EXCEPT ![s] = "live"]
        /\ issuedTo' = [issuedTo EXCEPT ![s] = areq[r].browser]
        /\ areq' = [areq EXCEPT ![r].step = "answer", ![r].issued = s]
  BY DEF CreateSession
<1>5. \A t \in Session :
        /\ sessionRow'[t] = IF t = s THEN "live" ELSE sessionRow[t]
        /\ tokenRow'[t] = IF t = s THEN "live" ELSE tokenRow[t]
        /\ t # s => issuedTo'[t] = issuedTo[t]
  BY <1>4 DEF SessionsInv, AuthTypeOK
<1>6. tokenRow[s] = "none"
  BY <1>3, <1>4 DEF RowsTogether
<1>7. RowsAdvance
  BY <1>4, <1>5, <1>6 DEF RowsAdvance
<1>8. RowsTogether' /\ RevokedSessionHasNoToken'
  BY <1>3, <1>5 DEF RowsTogether, RevokedSessionHasNoToken
<1>9. CookiesIssued'
  BY <1>3, <1>7 DEF CookiesIssued, Issued, RowsAdvance, CreateSession
<1>10. [areq[r] EXCEPT !.step = "answer", !.issued = s] \in AuthReq
  BY <1>1 DEF AuthReq, AuthStep
<1>11. \E w \in AuthReq : areq' = [areq EXCEPT ![r] = w] /\ RequestSound(w)'
  <2>1. PICK q \in AuthReq : q = areq[r]
    BY <1>1
  <2>2. RequestSound(q)' /\ (q.op = "refresh" => tokenRow[q.token] = "revoked" /\ q.token \in Session)
    BY <1>2, <1>3, <1>7, <2>1, StaysSound DEF RequestSound, TokenDead, TokenThere
  <2>3. PICK w \in AuthReq : w = [areq[r] EXCEPT !.step = "answer", !.issued = s]
    BY <1>10
  <2>4. /\ w.op = q.op /\ w.step = "answer" /\ w.token = q.token /\ w.issued = s
        /\ w.lockedTokens = q.lockedTokens /\ w.lockedSessions = q.lockedSessions
        /\ w.browser = q.browser
    BY <2>1, <2>3 DEF AuthReq
  <2>5. Issued(w.issued)'
    BY <1>5, <2>4 DEF Issued
  <2>6. TokenDead(w)'
    BY <1>7, <2>2, <2>4 DEF TokenDead, RowsAdvance
  <2>7. RequestSound(w)'
    BY <2>2, <2>4, <2>5, <2>6 DEF RequestSound, Issued, TokenThere, LocksSound, TokenLocked
  <2>8. areq' = [areq EXCEPT ![r] = w]
    BY <1>1, <1>4, <2>3
  <2> QED
    BY <2>7, <2>8
<1>12. (\A p \in AuthRequest : RequestSound(areq[p]))'
  BY <1>7, <1>11, OneRequest
<1> QED
  BY <1>8, <1>9, <1>12 DEF RowsAndRequests

(* The answer puts into the cookies what the request has issued, or        *)
(* nothing; the other steps change neither rows nor requests.              *)
LEMMA OtherSteps ==
  ASSUME SessionsInv,
         \/ \E r \in AuthRequest : AnswerOk(r)
         \/ ApiCrash
         \/ \E s \in Session : Expire(s)
         \/ \E u \in AuthUser : SetActive(u)
         \/ UNCHANGED authVars
  PROVE  RowsAndRequests'
<1>1. RowsAndRequests /\ cookie \in [Browser -> Session \cup {NoSession}]
  BY DEF SessionsInv, AuthTypeOK
<1>2. areq \in [AuthRequest -> AuthReq]
  BY DEF SessionsInv, AuthTypeOK, AuthReq
<1>3. ASSUME NEW r \in AuthRequest, AnswerOk(r) PROVE RowsAndRequests'
  <2>1. UNCHANGED <<sessionRow, tokenRow, issuedTo>> /\ areq' = [areq EXCEPT ![r] = NoRequest]
    BY <1>3 DEF AnswerOk
  <2>2. RowsAdvance /\ RowsTogether' /\ RevokedSessionHasNoToken'
    BY <1>1, <2>1, RowsKept DEF RowsAndRequests
  <2>3. RequestSound(NoRequest)' /\ NoRequest \in AuthReq
    BY <1>1, <2>2, IdleSound, StaysSound DEF RowsAndRequests
  <2>4. (\A p \in AuthRequest : RequestSound(areq[p]))'
    BY <2>1, <2>2, <2>3, OneRequest
  <2>5. \A b \in Browser : cookie'[b] \in {cookie[b], areq[r].issued, NoSession}
    <3>1. areq[r].op \in {"login", "refresh", "logout", "logoutAll", "password"}
      BY <1>2 DEF AuthReq, AuthOp
    <3> QED
      BY <1>1, <1>3, <3>1 DEF AnswerOk
  <2>6. Issued(areq[r].issued) /\ Issued(NoSession) /\ \A b \in Browser : Issued(cookie[b])
    BY <1>1 DEF RowsAndRequests, RequestSound, CookiesIssued, Issued
  <2>7. CookiesIssued'
    BY <2>1, <2>5, <2>6 DEF CookiesIssued, Issued
  <2> QED
    BY <2>2, <2>4, <2>7 DEF RowsAndRequests
<1>4. CASE ApiCrash
  <2>1. UNCHANGED <<sessionRow, tokenRow, issuedTo, cookie>>
        /\ areq' = [r \in AuthRequest |-> NoRequest]
    BY <1>4 DEF ApiCrash
  <2>2. RowsAdvance /\ RowsTogether' /\ RevokedSessionHasNoToken'
    BY <1>1, <2>1, RowsKept DEF RowsAndRequests
  <2>3. RequestSound(NoRequest)'
    BY <1>1, <2>2, IdleSound, StaysSound DEF RowsAndRequests
  <2>4. (\A p \in AuthRequest : RequestSound(areq[p]))'
    BY <2>1, <2>3 DEF RequestSound, Issued, TokenThere, LocksSound, TokenLocked, TokenDead
  <2>5. CookiesIssued'
    BY <1>1, <2>1 DEF RowsAndRequests, CookiesIssued, Issued
  <2> QED
    BY <2>2, <2>4, <2>5 DEF RowsAndRequests
<1>5. ASSUME UNCHANGED <<sessionRow, tokenRow, issuedTo, cookie, areq>> PROVE RowsAndRequests'
  BY <1>1, <1>5 DEF RowsAndRequests, CookiesIssued, RowsTogether, RevokedSessionHasNoToken,
     RequestSound, Issued, TokenThere, LocksSound, TokenLocked, TokenDead
<1> QED
  BY <1>3, <1>4, <1>5 DEF Expire, SetActive, authVars

(* Every action keeps the invariant of the sessions.                       *)
LEMMA SessionsInvStep == SessionsInv /\ [AuthNext]_authVars => SessionsInv'
<1> SUFFICES ASSUME SessionsInv, [AuthNext]_authVars PROVE RowsAndRequests'
  BY AuthTypeStep DEF SessionsInv
<1> QED
  BY ArriveStep, ReadingSteps, LockingSteps, RevokeOneStep, RevokeAllStep, CreateStep, OtherSteps
     DEF AuthNext, AuthRequestStep, RevokeFails, BreakDeadlock

(* The invariant that the three properties of sessions follow from: each   *)
(* request holds the locks of the rows it has written, and what it has     *)
(* read of a row advances only as far as its own step allows (Login,       *)
(* Refresh, Logout, RevokeAllSessionsByUser).                              *)
THEOREM SessionsInvariant == AuthSpec => []SessionsInv
  BY AuthInitInv, SessionsInvStep, PTL DEF AuthSpec

(* A session marked revoked never has a live token, in whatever order      *)
(* logouts, refreshes, crashes and revocations of all sessions interleave. *)
THEOREM RevokedSessionsAreDead == AuthSpec => []RevokedSessionHasNoToken
<1>1. SessionsInv => RevokedSessionHasNoToken
  BY DEF SessionsInv, RowsAndRequests
<1> QED
  BY <1>1, SessionsInvariant, PTL

(* A refresh that has gone on to new tokens has killed the old one.        *)
THEOREM OldTokensAreDead == AuthSpec => []OldTokenIsDead
<1>1. SessionsInv => OldTokenIsDead
  BY DEF SessionsInv, RowsAndRequests, RequestSound, TokenDead, OldTokenIsDead
<1> QED
  BY <1>1, SessionsInvariant, PTL

-----------------------------------------------------------------------------
(* Why a refresh finds its token revoked                                   *)

(* Cookies and requests hold what was issued to their browser, a request   *)
(* holds what it issued only until its answer, and locks its own token.    *)
HoldsItsOwn(q) ==
  /\ q.step = "idle" => q.token = NoSession /\ q.issued = NoSession
  /\ q.step # "idle" => q.browser \in Browser
  /\ q.step \in {"revokeOne", "revokeOneSession"} => q.op \in {"refresh", "logout"}
  /\ q.token \in Session => issuedTo[q.token] = q.browser
  /\ q.issued \in Session => q.step = "answer" /\ issuedTo[q.issued] = q.browser
  /\ q.lockedTokens \subseteq {q.token}

HoldersOwn ==
  /\ \A b \in Browser : cookie[b] \in Session => issuedTo[cookie[b]] = b
  /\ \A r \in AuthRequest : HoldsItsOwn(areq[r])

(* What a request has issued nobody else knows before it answers.          *)
IssuedIsFresh ==
  \A r \in AuthRequest, s \in Session : areq[r].issued = s =>
    /\ \A b \in Browser : cookie[b] # s
    /\ \A q \in AuthRequest : areq[q].token # s /\ (q # r => areq[q].issued # s)
    /\ tokenRow[s] = "live" \/ s \in excused

(* One request at a time uses a token, unless that excuses it.             *)
OneUse ==
  \A t \in Session \ excused, p, q \in AuthRequest :
    areq[p].token = t /\ areq[q].token = t => p = q

(* A token that is dead with nothing to excuse it is on its way out: the   *)
(* refresh that killed it has a new one to answer with, or the cookie has  *)
(* been replaced already.                                                  *)
DeadIsReplaced ==
  \A t \in Session \ excused : tokenRow[t] = "revoked" =>
    /\ \A q \in AuthRequest : areq[q].token = t =>
         areq[q].op = "refresh" /\ areq[q].step \in {"create", "answer"}
    /\ \A b \in Browser : cookie[b] = t => \E q \in AuthRequest : areq[q].token = t

TokensInv ==
  SessionsInv /\ HoldersOwn /\ IssuedIsFresh /\ OneUse /\ DeadIsReplaced /\ ReuseIsExplained

(* At first no browser holds a token.                                      *)
LEMMA TokensInitInv == AuthInit => TokensInv
<1> SUFFICES ASSUME AuthInit PROVE TokensInv
  OBVIOUS
<1>1. \A r \in AuthRequest : areq[r] = NoRequest
  BY DEF AuthInit
<1>2. HoldersOwn
  BY <1>1, AuthConstants DEF AuthInit, HoldersOwn, HoldsItsOwn, NoRequest
<1>3. IssuedIsFresh /\ OneUse /\ DeadIsReplaced /\ ReuseIsExplained
  BY <1>1, AuthConstants
     DEF AuthInit, IssuedIsFresh, OneUse, DeadIsReplaced, ReuseIsExplained, NoRequest
<1> QED
  BY <1>2, <1>3, AuthInitInv DEF TokensInv

(* A request that keeps its tokens moves on; it may kill its own, and any  *)
(* that it excuses.                                                        *)
LEMMA KeepsTokens ==
  ASSUME TokensInv, NEW r \in AuthRequest, NEW v \in AuthReq,
         areq' = [areq EXCEPT ![r] = v],
         v.token = areq[r].token, v.issued = areq[r].issued, HoldsItsOwn(v),
         excused \subseteq excused', UNCHANGED <<issuedTo, cookie>>,
         \A t \in Session \ excused' : t # v.token => tokenRow'[t] = tokenRow[t],
         v.token \in Session \ excused' /\ tokenRow'[v.token] = "revoked" =>
           v.op = "refresh" /\ v.step \in {"create", "answer"},
         v.op = "refresh" /\ v.step \in {"revokeAll", "revokeAllTokens"} => v.token \in excused'
  PROVE  (HoldersOwn /\ IssuedIsFresh /\ OneUse /\ DeadIsReplaced /\ ReuseIsExplained)'
<1>1. \A p \in AuthRequest : areq'[p] = IF p = r THEN v ELSE areq[p]
  BY DEF TokensInv, SessionsInv, AuthTypeOK
<1>2. \A p \in AuthRequest : areq'[p].token = areq[p].token /\ areq'[p].issued = areq[p].issued
  BY <1>1
<1>3. HoldersOwn'
  BY <1>1 DEF TokensInv, HoldersOwn, HoldsItsOwn
<1>4. IssuedIsFresh'
  BY <1>2 DEF TokensInv, IssuedIsFresh
<1>5. OneUse'
  BY <1>2 DEF TokensInv, OneUse
<1>6. DeadIsReplaced'
  <2> SUFFICES ASSUME NEW t \in Session \ excused', tokenRow'[t] = "revoked"
               PROVE  /\ \A q \in AuthRequest : areq'[q].token = t =>
                           areq'[q].op = "refresh" /\ areq'[q].step \in {"create", "answer"}
                      /\ \A b \in Browser : cookie[b] = t => \E q \in AuthRequest : areq'[q].token = t
    BY DEF DeadIsReplaced
  <2>1. CASE t = v.token
    BY <1>1, <1>2, <2>1 DEF TokensInv, OneUse
  <2>2. CASE t # v.token
    BY <1>1, <1>2, <2>2 DEF TokensInv, DeadIsReplaced
  <2> QED
    BY <2>1, <2>2
<1>7. ReuseIsExplained'
  BY <1>1 DEF TokensInv, ReuseIsExplained
<1> QED
  BY <1>3, <1>4, <1>5, <1>6, <1>7

(* Before the writes, and where they fail.                                 *)
LEMMA ReadingTokens ==
  ASSUME TokensInv, NEW r \in AuthRequest,
         LookupRefresh(r) \/ CheckAccess(r) \/ CreateFails(r)
  PROVE  (HoldersOwn /\ IssuedIsFresh /\ OneUse /\ DeadIsReplaced /\ ReuseIsExplained)'
<1> DEFINE q == areq[r]
<1>1. q \in AuthReq /\ areq \in [AuthRequest -> AuthReq]
  BY DEF TokensInv, SessionsInv, AuthTypeOK, AuthReq
<1>2. HoldsItsOwn(q) /\ TokenThere(q)
  BY DEF TokensInv, HoldersOwn, SessionsInv, RowsAndRequests, RequestSound
<1>3. PICK step \in {"revokeAll", "refuse", "check", "revokeOne", "create"} :
        /\ areq' = [areq EXCEPT ![r].step = step]
        /\ step = "revokeOne" => q.op = "refresh"
        /\ q.step \notin {"idle", "answer"}
        /\ step = "revokeAll" => q.step = "lookup" /\ tokenRow[q.token] = "revoked"
        /\ q.step = "create" => excused' = excused \cup Orphaned(r)
        /\ q.step # "create" => UNCHANGED excused
  BY DEF LookupRefresh, CheckAccess, CreateFails, GoTo
<1>4. UNCHANGED <<tokenRow, issuedTo, cookie>>
  BY DEF LookupRefresh, CheckAccess, CreateFails
<1>5. PICK v \in AuthReq : v = [q EXCEPT !.step = step]
  BY <1>1, ReqFields, step \in AuthStep, {} \in SUBSET Session DEF AuthStep
<1>6. /\ v.op = q.op /\ v.step = step /\ v.token = q.token /\ v.issued = q.issued
      /\ v.browser = q.browser /\ v.lockedTokens = q.lockedTokens
  BY <1>1, <1>5 DEF AuthReq
<1>7. areq' = [areq EXCEPT ![r] = v] /\ excused \subseteq excused'
  BY <1>1, <1>3, <1>5
<1>8. HoldsItsOwn(v)
  BY <1>2, <1>3, <1>6 DEF HoldsItsOwn
<1>9. v.token \in Session \ excused' /\ tokenRow[v.token] = "revoked" => FALSE
  BY <1>3, <1>6, <1>7 DEF TokensInv, DeadIsReplaced, Orphaned
<1>10. v.op = "refresh" /\ v.step \in {"revokeAll", "revokeAllTokens"} => v.token \in excused'
  BY <1>2, <1>3, <1>4, <1>6, <1>9 DEF TokenThere
<1> QED
  BY <1>4, <1>6, <1>7, <1>8, <1>9, <1>10, KeepsTokens

(* The first UPDATEs write nothing yet, and a rollback never does.         *)
LEMMA LockingTokens ==
  ASSUME TokensInv, NEW r \in AuthRequest,
         \/ RevokeOneTokens(r) \/ RevokeAllSessions(r)
         \/ RollBack(r) /\ areq[r].step \in {"revokeOne", "revokeOneSession",
                                             "revokeAll", "revokeAllTokens"}
  PROVE  (HoldersOwn /\ IssuedIsFresh /\ OneUse /\ DeadIsReplaced /\ ReuseIsExplained)'
<1> DEFINE q == areq[r]
<1>1. q \in AuthReq /\ areq \in [AuthRequest -> AuthReq]
  BY DEF TokensInv, SessionsInv, AuthTypeOK, AuthReq
<1>2. HoldsItsOwn(q) /\ TokenThere(q)
  BY DEF TokensInv, HoldersOwn, SessionsInv, RowsAndRequests, RequestSound
<1>3. /\ UNCHANGED <<tokenRow, issuedTo, cookie, excused>>
      /\ q.step \in {"revokeOne", "revokeOneSession", "revokeAll", "revokeAllTokens"}
  BY DEF RevokeOneTokens, RevokeAllSessions, RollBack
<1>4. PICK v \in AuthReq :
        /\ areq' = [areq EXCEPT ![r] = v]
        /\ v.op = q.op /\ v.token = q.token /\ v.issued = q.issued /\ v.browser = q.browser
        /\ v.lockedTokens \subseteq q.lockedTokens \cup {q.token}
        /\ v.step \in {"revokeOneSession", "revokeAllTokens", "answer", "refuse"}
        /\ v.step = "revokeOneSession" => q.step = "revokeOne"
        /\ v.step = "revokeAllTokens" => q.step = "revokeAll"
  <2>1. CASE RevokeOneTokens(r)
    <3> DEFINE v == [q EXCEPT !.step = "revokeOneSession", !.lockedTokens = LiveTokens({q.token})]
    <3>1. q.step = "revokeOne" /\ areq' = [areq EXCEPT ![r] = v]
      BY <1>1, <2>1 DEF RevokeOneTokens
    <3>2. LiveTokens({q.token}) \in SUBSET Session /\ LiveTokens({q.token}) \subseteq {q.token}
      BY <1>2, <3>1 DEF LiveTokens, TokenThere
    <3>3. v \in AuthReq
      BY <1>1, <3>2, ReqFields, "revokeOneSession" \in AuthStep DEF AuthStep
    <3>4. /\ v.op = q.op /\ v.token = q.token /\ v.issued = q.issued /\ v.browser = q.browser
          /\ v.lockedTokens = LiveTokens({q.token}) /\ v.step = "revokeOneSession"
      BY <1>1 DEF AuthReq
    <3> HIDE DEF v
    <3> QED
      BY <3>1, <3>2, <3>3, <3>4
  <2>2. CASE RevokeAllSessions(r)
    <3> DEFINE rows == LiveSessions(SessionsOf(Requester(r)))
               v == [q EXCEPT !.step = "revokeAllTokens", !.lockedSessions = rows]
    <3>1. q.step = "revokeAll" /\ areq' = [areq EXCEPT ![r] = v]
      BY <1>1, <2>2 DEF RevokeAllSessions
    <3>2. rows \in SUBSET Session
      BY DEF LiveSessions, SessionsOf
    <3>3. v \in AuthReq
      BY <1>1, <3>2, ReqFields, "revokeAllTokens" \in AuthStep DEF AuthStep
    <3>4. /\ v.op = q.op /\ v.token = q.token /\ v.issued = q.issued /\ v.browser = q.browser
          /\ v.lockedTokens = q.lockedTokens /\ v.step = "revokeAllTokens"
      BY <1>1 DEF AuthReq
    <3> HIDE DEF v
    <3> QED
      BY <3>1, <3>3, <3>4
  <2>3. CASE RollBack(r)
    <3> DEFINE step == IF q.op = "password" THEN "answer" ELSE "refuse"
               v == [q EXCEPT !.lockedSessions = {}, !.lockedTokens = {}, !.step = step]
    <3>1. areq' = [areq EXCEPT ![r] = v]
      BY <1>1, <2>3 DEF RollBack
    <3>2. v \in AuthReq
      BY <1>1, ReqFields, step \in AuthStep, {} \in SUBSET Session DEF AuthStep
    <3>3. /\ v.op = q.op /\ v.token = q.token /\ v.issued = q.issued /\ v.browser = q.browser
          /\ v.lockedTokens = {} /\ v.step = step
      BY <1>1 DEF AuthReq
    <3> HIDE DEF v
    <3> QED
      BY <3>1, <3>2, <3>3
  <2> QED
    BY <2>1, <2>2, <2>3
<1>5. HoldsItsOwn(v)
  BY <1>2, <1>3, <1>4 DEF HoldsItsOwn
<1>6. v.token \in Session \ excused' /\ tokenRow'[v.token] = "revoked" => FALSE
  BY <1>3, <1>4 DEF TokensInv, DeadIsReplaced
<1>7. v.op = "refresh" /\ v.step \in {"revokeAll", "revokeAllTokens"} => v.token \in excused'
  BY <1>3, <1>4 DEF TokensInv, ReuseIsExplained
<1> QED
  BY <1>3, <1>4, <1>5, <1>6, <1>7, KeepsTokens

(* The commits: a logout and a revocation of all sessions excuse what they *)
(* kill, and a refresh has killed its own.                                 *)
LEMMA RevokingTokens ==
  ASSUME TokensInv, NEW r \in AuthRequest, RevokeOneSession(r) \/ RevokeAllTokens(r)
  PROVE  (HoldersOwn /\ IssuedIsFresh /\ OneUse /\ DeadIsReplaced /\ ReuseIsExplained)'
<1> DEFINE q == areq[r]
<1>1. q \in AuthReq /\ areq \in [AuthRequest -> AuthReq]
  BY DEF TokensInv, SessionsInv, AuthTypeOK, AuthReq
<1>2. HoldsItsOwn(q) /\ TokenThere(q)
  BY DEF TokensInv, HoldersOwn, SessionsInv, RowsAndRequests, RequestSound
<1>3. CASE RevokeOneSession(r)
  <2> DEFINE step == IF q.op = "refresh" THEN "create" ELSE "answer"
  <2>1. PICK v \in AuthReq : v = [q EXCEPT !.step = step, !.lockedTokens = {}]
    BY <1>1, ReqFields, step \in AuthStep, {} \in SUBSET Session DEF AuthStep
  <2>2. /\ v.op = q.op /\ v.token = q.token /\ v.issued = q.issued /\ v.browser = q.browser
        /\ v.lockedTokens = {} /\ v.step = step
    BY <1>1, <2>1 DEF AuthReq
  <2>3. areq' = [areq EXCEPT ![r] = v] /\ UNCHANGED <<issuedTo, cookie>>
        /\ q.step = "revokeOneSession"
    BY <1>1, <1>3, <2>1 DEF RevokeOneSession
  <2>4. \A t \in Session : t # v.token => tokenRow'[t] = tokenRow[t]
    BY <1>2, <1>3, <2>2 DEF RevokeOneSession, Revoke, HoldsItsOwn
  <2>5. excused \subseteq excused' /\ (q.op = "logout" => q.token \in excused')
    BY <1>3 DEF RevokeOneSession
  <2>6. HoldsItsOwn(v)
    BY <1>2, <2>2, <2>3 DEF HoldsItsOwn
  <2>7. v.token \notin excused' => v.op = "refresh" /\ v.step = "create"
    BY <1>2, <2>2, <2>3, <2>5 DEF HoldsItsOwn
  <2> QED
    BY <2>2, <2>3, <2>4, <2>5, <2>6, <2>7, KeepsTokens
<1>4. CASE RevokeAllTokens(r)
  <2> DEFINE step == AfterRevokeAll(r)
             mine == SessionsOf(Requester(r))
  <2>1. PICK v \in AuthReq : v = [q EXCEPT !.step = step, !.lockedSessions = {}]
    BY <1>1, ReqFields, step \in AuthStep, {} \in SUBSET Session DEF AuthStep, AfterRevokeAll
  <2>2. /\ v.op = q.op /\ v.token = q.token /\ v.issued = q.issued /\ v.browser = q.browser
        /\ v.lockedTokens = q.lockedTokens /\ v.step = step
    BY <1>1, <2>1 DEF AuthReq
  <2>3. areq' = [areq EXCEPT ![r] = v] /\ UNCHANGED <<issuedTo, cookie>>
        /\ q.step = "revokeAllTokens"
    BY <1>1, <1>4, <2>1 DEF RevokeAllTokens
  <2>4. excused' = excused \cup mine
    BY <1>4, <2>3 DEF RevokeAllTokens, TokensInv, ReuseIsExplained
  <2>5. \A t \in Session \ excused' : tokenRow'[t] = tokenRow[t]
    BY <1>4, <2>4 DEF RevokeAllTokens, Revoke, LiveTokens
  <2>6. step \in {"answer", "refuse"}
    BY DEF AfterRevokeAll
  <2>7. HoldsItsOwn(v)
    BY <1>2, <2>2, <2>3, <2>6 DEF HoldsItsOwn
  <2>8. v.token \in Session \ excused' /\ tokenRow'[v.token] = "revoked" => FALSE
    BY <2>2, <2>3, <2>4, <2>5 DEF TokensInv, DeadIsReplaced
  <2> QED
    BY <2>2, <2>3, <2>4, <2>5, <2>6, <2>7, <2>8, KeepsTokens
<1> QED
  BY <1>3, <1>4

(* A request arrives with the token of the cookie: if that is dead with    *)
(* nothing to excuse it, the refresh that killed it is still under way,    *)
(* and now there are two.                                                  *)
LEMMA ArriveTokens ==
  ASSUME TokensInv, NEW r \in AuthRequest, NEW b \in Browser, NEW op \in AuthOp,
         NEW switch \in BOOLEAN, Arrive(r, b, op, switch)
  PROVE  (HoldersOwn /\ IssuedIsFresh /\ OneUse /\ DeadIsReplaced /\ ReuseIsExplained)'
<1> DEFINE token == IF op \in {"refresh", "logout"} THEN cookie[b] ELSE NoSession
<1>1. areq \in [AuthRequest -> AuthReq] /\ token \in Session \cup {NoSession}
  BY DEF TokensInv, SessionsInv, AuthTypeOK, AuthReq
<1>2. PICK v : v = [NoRequest EXCEPT !.op = op, !.browser = b,
                                     !.step = FirstStep(op), !.token = token]
  OBVIOUS
<1>3. /\ v.op = op /\ v.browser = b /\ v.step = FirstStep(op) /\ v.token = token
      /\ v.issued = NoSession /\ v.lockedTokens = {}
  BY <1>2 DEF NoRequest
<1>4. areq' = [areq EXCEPT ![r] = v] /\ UNCHANGED <<tokenRow, issuedTo, cookie>>
  BY <1>2 DEF Arrive
<1>5. \A p \in AuthRequest : areq'[p] = IF p = r THEN v ELSE areq[p]
  BY <1>1, <1>4
<1>6. areq[r].token = NoSession /\ areq[r].issued = NoSession
  BY DEF Arrive, Busy, TokensInv, HoldersOwn, HoldsItsOwn
<1>7. /\ excused \subseteq excused'
      /\ \A q \in AuthRequest : areq[q].token = token /\ token \in Session => token \in excused'
  BY AuthConstants DEF Arrive, Busy, TokensInv, HoldersOwn, HoldsItsOwn
<1>8. /\ FirstStep(op) \in {"check", "lookup", "revokeOne", "revokeAll"}
      /\ FirstStep(op) = "revokeOne" => op = "logout"
      /\ op = "refresh" => FirstStep(op) = "lookup"
  BY DEF FirstStep, AuthOp
<1>9. HoldersOwn'
  <2>1. HoldsItsOwn(v)'
    BY <1>1, <1>3, <1>4, <1>8, AuthConstants DEF HoldsItsOwn, TokensInv, HoldersOwn
  <2> QED
    BY <1>4, <1>5, <2>1 DEF TokensInv, HoldersOwn, HoldsItsOwn
<1>10. IssuedIsFresh'
  BY <1>3, <1>4, <1>5, <1>7, AuthConstants DEF TokensInv, IssuedIsFresh
<1>11. OneUse'
  BY <1>3, <1>5, <1>7, AuthConstants DEF TokensInv, OneUse
<1>12. DeadIsReplaced'
  <2> SUFFICES ASSUME NEW t \in Session \ excused', tokenRow[t] = "revoked"
               PROVE  /\ \A q \in AuthRequest : areq'[q].token = t =>
                           areq'[q].op = "refresh" /\ areq'[q].step \in {"create", "answer"}
                      /\ \A c \in Browser : cookie[c] = t => \E q \in AuthRequest : areq'[q].token = t
    BY <1>4 DEF DeadIsReplaced
  <2>1. \A c \in Browser : cookie[c] = t => \E q \in AuthRequest \ {r} : areq[q].token = t
    BY <1>6, <1>7, AuthConstants DEF TokensInv, DeadIsReplaced
  <2>2. token # t
    BY <1>7, <2>1, AuthConstants
  <2> QED
    BY <1>3, <1>5, <1>7, <2>1, <2>2 DEF TokensInv, DeadIsReplaced
<1>13. ReuseIsExplained'
  BY <1>3, <1>5, <1>7, <1>8 DEF TokensInv, ReuseIsExplained
<1> QED
  BY <1>9, <1>10, <1>11, <1>12, <1>13

(* A new session takes an id that nobody holds.                            *)
LEMMA CreateTokens ==
  ASSUME TokensInv, NEW r \in AuthRequest, CreateSession(r)
  PROVE  (HoldersOwn /\ IssuedIsFresh /\ OneUse /\ DeadIsReplaced /\ ReuseIsExplained)'
<1> DEFINE q == areq[r]
<1>1. q \in AuthReq /\ areq \in [AuthRequest -> AuthReq]
  BY DEF TokensInv, SessionsInv, AuthTypeOK, AuthReq
<1>2. PICK s \in Session :
        /\ sessionRow[s] = "none"
        /\ tokenRow' = [tokenRow EXCEPT ![s] = "live"]
        /\ issuedTo' = [issuedTo EXCEPT ![s] = q.browser]
        /\ areq' = [areq EXCEPT ![r].step = "answer", ![r].issued = s]
  BY DEF CreateSession
<1>3. q.step = "create" /\ UNCHANGED <<cookie, excused>>
  BY DEF CreateSession
<1>4. PICK v : v = [q EXCEPT !.step = "answer", !.issued = s]
  OBVIOUS
<1>5. /\ v.op = q.op /\ v.step = "answer" /\ v.token = q.token /\ v.issued = s
      /\ v.browser = q.browser /\ v.lockedTokens = q.lockedTokens
  BY <1>1, <1>4 DEF AuthReq
<1>6. \A p \in AuthRequest : areq'[p] = IF p = r THEN v ELSE areq[p]
  BY <1>1, <1>2, <1>4
<1>7. /\ \A t \in Session : /\ t # s => tokenRow'[t] = tokenRow[t] /\ issuedTo'[t] = issuedTo[t]
                            /\ t = s => tokenRow'[t] = "live" /\ issuedTo'[t] = q.browser
  BY <1>2 DEF TokensInv, SessionsInv, AuthTypeOK
<1>8. /\ \A b \in Browser : cookie[b] # s
      /\ \A p \in AuthRequest : areq[p].token # s /\ areq[p].issued # s
  BY <1>2, AuthConstants
     DEF TokensInv, SessionsInv, RowsAndRequests, CookiesIssued, RequestSound, Issued
<1>9. HoldersOwn'
  BY <1>3, <1>5, <1>6, <1>7, <1>8 DEF TokensInv, HoldersOwn, HoldsItsOwn
<1>10. IssuedIsFresh'
  BY <1>3, <1>5, <1>6, <1>7, <1>8 DEF TokensInv, IssuedIsFresh
<1>11. OneUse'
  BY <1>3, <1>5, <1>6 DEF TokensInv, OneUse
<1>12. DeadIsReplaced'
  <2> SUFFICES ASSUME NEW t \in Session \ excused', tokenRow'[t] = "revoked"
               PROVE  /\ \A p \in AuthRequest : areq'[p].token = t =>
                           areq'[p].op = "refresh" /\ areq'[p].step \in {"create", "answer"}
                      /\ \A b \in Browser : cookie'[b] = t => \E p \in AuthRequest : areq'[p].token = t
    BY DEF DeadIsReplaced
  <2>1. t # s /\ tokenRow[t] = "revoked" /\ t \in Session \ excused
    BY <1>3, <1>7
  <2>2. \A p \in AuthRequest : areq'[p].token = areq[p].token /\ areq'[p].op = areq[p].op
    BY <1>5, <1>6
  <2> QED
    BY <1>3, <1>5, <1>6, <2>1, <2>2 DEF TokensInv, DeadIsReplaced
<1>13. ReuseIsExplained'
  BY <1>3, <1>5, <1>6 DEF TokensInv, ReuseIsExplained
<1> QED
  BY <1>9, <1>10, <1>11, <1>12, <1>13

(* The end of a request.  With its answer the cookie gets the new token in *)
(* the place of the dead one; an answer that is lost excuses the dead one. *)
LEMMA EndTokens ==
  ASSUME TokensInv, NEW r \in AuthRequest, AnswerOk(r) \/ AnswerError(r) \/ LoseAnswer(r)
  PROVE  (HoldersOwn /\ IssuedIsFresh /\ OneUse /\ DeadIsReplaced /\ ReuseIsExplained)'
<1> DEFINE q == areq[r]
<1>1. q \in AuthReq /\ areq \in [AuthRequest -> AuthReq] /\ cookie \in [Browser -> Session \cup {NoSession}]
  BY DEF TokensInv, SessionsInv, AuthTypeOK, AuthReq
<1>2. HoldsItsOwn(q)
  BY DEF TokensInv, HoldersOwn
<1>3. /\ areq' = [areq EXCEPT ![r] = NoRequest] /\ UNCHANGED <<tokenRow, issuedTo>>
      /\ excused \subseteq excused' /\ q.step \in {"answer", "refuse"}
  BY DEF AnswerOk, AnswerError, LoseAnswer
<1>4. /\ NoRequest.token = NoSession /\ NoRequest.issued = NoSession /\ NoRequest.step = "idle"
      /\ NoRequest.lockedTokens = {}
  BY DEF NoRequest
<1>5. \A p \in AuthRequest : areq'[p] = IF p = r THEN NoRequest ELSE areq[p]
  BY <1>1, <1>3
<1>6. NoSession \notin Session
  BY AuthConstants
<1>7. \A b \in Browser :
        \/ cookie'[b] = cookie[b] /\ ~(b = q.browser /\ AnswerOk(r) /\ q.op = "refresh")
        \/ cookie'[b] = NoSession /\ b = q.browser
        \/ cookie'[b] = q.issued /\ b = q.browser
  <2>1. CASE AnswerOk(r)
    <3>1. q.op \in {"login", "refresh", "logout", "logoutAll", "password"}
      BY <1>1 DEF AuthReq, AuthOp
    <3> QED
      BY <1>1, <2>1, <3>1 DEF AnswerOk
  <2>2. CASE ~AnswerOk(r)
    BY <2>2 DEF AnswerError, LoseAnswer
  <2> QED
    BY <2>1, <2>2
<1>8. HoldersOwn'
  <2>1. \A b \in Browser : cookie'[b] \in Session => issuedTo'[cookie'[b]] = b
    BY <1>2, <1>3, <1>6, <1>7 DEF TokensInv, HoldersOwn, HoldsItsOwn
  <2>2. HoldsItsOwn(NoRequest)'
    BY <1>4, <1>6 DEF HoldsItsOwn
  <2> QED
    BY <1>3, <1>5, <2>1, <2>2 DEF TokensInv, HoldersOwn, HoldsItsOwn
<1>9. IssuedIsFresh'
  BY <1>3, <1>4, <1>5, <1>6, <1>7 DEF TokensInv, IssuedIsFresh
<1>10. OneUse'
  BY <1>3, <1>4, <1>5, <1>6 DEF TokensInv, OneUse
<1>11. DeadIsReplaced'
  <2> SUFFICES ASSUME NEW t \in Session \ excused', tokenRow[t] = "revoked"
               PROVE  /\ \A p \in AuthRequest : areq'[p].token = t =>
                           areq'[p].op = "refresh" /\ areq'[p].step \in {"create", "answer"}
                      /\ \A b \in Browser : cookie'[b] = t => \E p \in AuthRequest : areq'[p].token = t
    BY <1>3 DEF DeadIsReplaced
  <2>1. t \in Session \ excused /\ q.issued # t
    BY <1>3 DEF TokensInv, IssuedIsFresh
  <2>2. \A p \in AuthRequest : areq[p].token = t =>
          areq[p].op = "refresh" /\ areq[p].step \in {"create", "answer"}
    BY <2>1 DEF TokensInv, DeadIsReplaced
  <2>3. ASSUME NEW b \in Browser, cookie'[b] = t PROVE \E p \in AuthRequest : areq'[p].token = t
    <3>1. cookie[b] = t /\ ~(b = q.browser /\ AnswerOk(r) /\ q.op = "refresh")
      BY <1>6, <1>7, <2>1, <2>3
    <3>2. PICK p \in AuthRequest : areq[p].token = t
      BY <2>1, <3>1 DEF TokensInv, DeadIsReplaced
    <3>3. issuedTo[t] = b
      BY <3>1 DEF TokensInv, HoldersOwn
    <3>4. CASE p = r
      <4>1. q.op = "refresh" /\ q.step = "answer" /\ q.browser = b
        BY <1>2, <1>3, <2>2, <3>2, <3>3, <3>4 DEF HoldsItsOwn
      <4>2. LoseAnswer(r)
        BY <3>1, <4>1 DEF AnswerError
      <4>3. t \in excused'
        BY <3>2, <3>4, <4>1, <4>2 DEF LoseAnswer, Orphaned
      <4> QED
        BY <4>3
    <3>5. CASE p # r
      BY <1>5, <3>2, <3>5
    <3> QED
      BY <3>4, <3>5
  <2> QED
    BY <1>4, <1>5, <1>6, <2>2, <2>3
<1>12. ReuseIsExplained'
  BY <1>3, <1>4, <1>5 DEF TokensInv, ReuseIsExplained
<1> QED
  BY <1>8, <1>9, <1>10, <1>11, <1>12

(* A crash ends all requests, and excuses what their refreshes had killed. *)
LEMMA CrashTokens ==
  ASSUME TokensInv, ApiCrash
  PROVE  (HoldersOwn /\ IssuedIsFresh /\ OneUse /\ DeadIsReplaced /\ ReuseIsExplained)'
<1>1. /\ areq' = [r \in AuthRequest |-> NoRequest] /\ UNCHANGED <<tokenRow, issuedTo, cookie>>
      /\ excused' = excused \cup UNION {Orphaned(r) : r \in AuthRequest}
  BY DEF ApiCrash
<1>2. /\ NoRequest.token = NoSession /\ NoRequest.issued = NoSession /\ NoRequest.step = "idle"
      /\ NoRequest.lockedTokens = {}
  BY DEF NoRequest
<1>3. \A p \in AuthRequest : areq'[p] = NoRequest
  BY <1>1
<1>4. HoldersOwn'
  BY <1>1, <1>2, <1>3, AuthConstants DEF TokensInv, HoldersOwn, HoldsItsOwn
<1>5. IssuedIsFresh' /\ OneUse' /\ ReuseIsExplained'
  BY <1>2, <1>3, AuthConstants DEF IssuedIsFresh, OneUse, ReuseIsExplained
<1>6. DeadIsReplaced'
  <2> SUFFICES ASSUME NEW t \in Session \ excused', tokenRow[t] = "revoked",
                      NEW b \in Browser, cookie[b] = t
               PROVE  FALSE
    BY <1>1, <1>2, <1>3, AuthConstants DEF DeadIsReplaced
  <2>1. PICK p \in AuthRequest : areq[p].token = t
    BY <1>1 DEF TokensInv, DeadIsReplaced
  <2>2. areq[p].op = "refresh" /\ areq[p].step \in {"create", "answer"}
    BY <1>1, <2>1 DEF TokensInv, DeadIsReplaced
  <2>3. t \in Orphaned(p)
    BY <2>1, <2>2 DEF Orphaned
  <2> QED
    BY <1>1, <2>3
<1> QED
  BY <1>4, <1>5, <1>6

(* Every action keeps each token with its one holder, or has it excused.   *)
LEMMA TokensInvStep == TokensInv /\ [AuthNext]_authVars => TokensInv'
<1> SUFFICES ASSUME TokensInv, [AuthNext]_authVars
             PROVE  (HoldersOwn /\ IssuedIsFresh /\ OneUse /\ DeadIsReplaced /\ ReuseIsExplained)'
  BY SessionsInvStep DEF TokensInv
<1>1. ASSUME NEW r \in AuthRequest, RevokeFails(r) \/ BreakDeadlock(r)
      PROVE  (HoldersOwn /\ IssuedIsFresh /\ OneUse /\ DeadIsReplaced /\ ReuseIsExplained)'
  <2>1. RollBack(r) /\ areq[r].step \in {"revokeOne", "revokeOneSession",
                                         "revokeAll", "revokeAllTokens"}
    BY <1>1 DEF RevokeFails, BreakDeadlock, Deadlocked
  <2> QED
    BY <2>1, LockingTokens
<1>2. ASSUME UNCHANGED <<tokenRow, issuedTo, cookie, areq, excused>>
      PROVE  (HoldersOwn /\ IssuedIsFresh /\ OneUse /\ DeadIsReplaced /\ ReuseIsExplained)'
  BY <1>2 DEF TokensInv, HoldersOwn, HoldsItsOwn, IssuedIsFresh, OneUse, DeadIsReplaced,
              ReuseIsExplained
<1> QED
  BY <1>1, <1>2, ReadingTokens, LockingTokens, RevokingTokens, ArriveTokens, CreateTokens,
     EndTokens, CrashTokens
     DEF AuthNext, AuthRequestStep, Expire, SetActive, authVars

(* A client that got its answers is never taken for a thief, for any       *)
(* number of tabs, devices and accounts: the refresh that kills a token    *)
(* either replaces it in the cookie, or excuses it.                        *)
THEOREM ReusesAreExplained == AuthSpec => []ReuseIsExplained
<1>1. TokensInv => ReuseIsExplained
  BY DEF TokensInv
<1> QED
  BY <1>1, TokensInitInv, TokensInvStep, PTL DEF AuthSpec

-----------------------------------------------------------------------------
(***************************************************************************)
(* Workspaces and registrations: no schema is shared by two workspaces of  *)
(* one maker and one code, a listed one is usable unless something         *)
(* explains it, and wrong codes are counted.                               *)
(***************************************************************************)
TenantRow == [state : {"none", "live", "deleted"}, code : Code, case : Case,
              email : Email, by : {"admin", "register"}]

TenantReq ==
  [step : {"idle", "check", "wrong", "provision", "rows", "seed", "mark"},
   op : {"admin", "register"}, tenant : Tenant \cup {NoTenant}, otp : Otp \cup {NoOtp},
   code : Code, case : Case, email : Email]

OtpRow == [state : {"none", "open", "verified", "expired"}, code : Code,
           email : Email, attempts : Nat]

(* Who makes a workspace stores its code in one case, so that the unique   *)
(* index on codes keeps the workspaces of one maker apart.                 *)
CaseOfMaker == [admin |-> "lower", register |-> "upper"]

MakersCase ==
  /\ \A t \in Live : tenants[t].case = CaseOfMaker[tenants[t].by]
  /\ \A r \in TenantRequest : treq[r].case = CaseOfMaker[treq[r].op]

CodesUnique ==
  \A t, u \in Live :
    t # u => tenants[t].code # tenants[u].code \/ tenants[t].case # tenants[u].case

SeedHasTenant == \A r \in TenantRequest : treq[r].step = "seed" => treq[r].tenant \in Tenant

TenantsInv ==
  TenantTypeOK /\ SeedHasTenant /\ MakersCase /\ CodesUnique /\ UnusableIsExplained

(* The records that stand for no request, no row and no code are typed.    *)
LEMMA IdleTyped == TenantIdle \in TenantReq /\ NoTenantRow \in TenantRow /\ NoOtpRow \in OtpRow
<1>1. (CHOOSE c \in Code : TRUE) \in Code /\ (CHOOSE e \in Email : TRUE) \in Email
  BY TenantConstants
<1> QED
  BY <1>1 DEF TenantIdle, NoTenantRow, NoOtpRow, TenantReq, TenantRow, OtpRow, Case

(* The type invariant with its record sets named.                          *)
Shape ==
  /\ tenants \in [Tenant -> TenantRow] /\ schemas \in SUBSET Schema
  /\ seeded \in SUBSET Tenant /\ otps \in [Otp -> OtpRow]
  /\ treq \in [TenantRequest -> TenantReq]
  /\ halfMade \in SUBSET Tenant /\ bereft \in SUBSET Tenant

(* The type invariant, part by part.                                       *)
LEMMA TypeShape == TenantTypeOK <=> Shape
BY DEF TenantTypeOK, TenantRow, TenantReq, OtpRow, Shape

(* At first there is no workspace and no request.                          *)
LEMMA TenantInitInv == TenantInit => TenantsInv
<1> SUFFICES ASSUME TenantInit PROVE TenantsInv
  OBVIOUS
<1>1. TenantTypeOK
  BY IdleTyped, TypeShape DEF TenantInit, Shape
<1>2. Live = {}
  BY DEF TenantInit, Live, NoTenantRow
<1>3. MakersCase /\ SeedHasTenant
  BY <1>2 DEF TenantInit, MakersCase, SeedHasTenant, CaseOfMaker, TenantIdle
<1> QED
  BY <1>1, <1>2, <1>3 DEF TenantsInv, CodesUnique, UnusableIsExplained

(* How one request moves on.                                               *)
LEMMA ReqMoves ==
  ASSUME NEW q \in TenantReq, NEW t \in Tenant \cup {NoTenant},
         NEW step \in {"idle", "check", "wrong", "provision", "rows", "seed", "mark"}
  PROVE  /\ [q EXCEPT !.step = step] \in TenantReq
         /\ [q EXCEPT !.step = step, !.tenant = t] \in TenantReq
BY DEF TenantReq

(* Every step keeps the types.                                             *)
LEMMA TenantTypeStep ==
  TenantTypeOK /\ SeedHasTenant /\ [TenantNext]_tenantVars => TenantTypeOK'
<1> SUFFICES ASSUME Shape, SeedHasTenant, [TenantNext]_tenantVars PROVE Shape'
  BY DEF TenantTypeOK, TenantRow, TenantReq, OtpRow, Shape
<1> USE DEF Shape
<1>idle. TenantIdle \in TenantReq
  BY IdleTyped
<1>done. ASSUME NEW r \in TenantRequest, TenantDone(r) PROVE treq' \in [TenantRequest -> TenantReq]
  BY <1>idle, <1>done DEF TenantDone
<1>goes. ASSUME NEW r \in TenantRequest, NEW step \in {"rows", "mark"}, TenantGoTo(r, step)
         PROVE  treq' \in [TenantRequest -> TenantReq]
  <2>1. [treq[r] EXCEPT !.step = step] \in TenantReq
    BY DEF TenantReq
  <2>2. treq' = [treq EXCEPT ![r] = [treq[r] EXCEPT !.step = step]]
    BY <1>goes DEF TenantGoTo
  <2> QED
    BY <2>1, <2>2
<1>1. CASE \E o \in Otp, c \in Code, e \in Email : RegisterInit(o, c, e)
  BY <1>1 DEF RegisterInit, OtpRow
<1>2. CASE \E r \in TenantRequest, o \in Otp, right \in BOOLEAN : CheckOtp(r, o, right)
  <2>1. PICK r \in TenantRequest, o \in Otp, right \in BOOLEAN : CheckOtp(r, o, right)
    BY <1>2
  <2>2. otps[o].code \in Code /\ otps[o].email \in Email
    BY DEF OtpRow
  <2> DEFINE q == [step |-> IF right THEN "provision" ELSE "wrong", op |-> "register",
                   tenant |-> NoTenant, otp |-> o, code |-> otps[o].code, case |-> "upper",
                   email |-> otps[o].email]
  <2>3. q \in TenantReq
    BY <2>2 DEF TenantReq, Case
  <2>4. treq' = [treq EXCEPT ![r] = q]
    BY <2>1 DEF CheckOtp
  <2>5. treq' \in [TenantRequest -> TenantReq]
    BY <2>3, <2>4
  <2> QED
    BY <2>1, <2>5 DEF CheckOtp
<1>3. CASE \E r \in TenantRequest, c \in Code, e \in Email : AdminBootstrap(r, c, e)
  <2>1. PICK r \in TenantRequest, c \in Code, e \in Email, case \in AdminCase :
          /\ treq' = [treq EXCEPT ![r] = [TenantIdle EXCEPT !.step = "provision", !.code = c,
                                                            !.case = case, !.email = e]]
          /\ UNCHANGED <<tenants, schemas, seeded, otps, halfMade, bereft>>
    BY <1>3 DEF AdminBootstrap
  <2>2. [TenantIdle EXCEPT !.step = "provision", !.code = c, !.case = case, !.email = e]
          \in TenantReq
    BY <1>idle DEF TenantReq, AdminCase, Case
  <2> QED
    BY <2>1, <2>2
<1>4. ASSUME NEW r \in TenantRequest, CountWrong(r) \/ MarkVerified(r) PROVE Shape'
  <2>1. treq' \in [TenantRequest -> TenantReq]
    BY <1>4, <1>done DEF CountWrong, MarkVerified
  <2>2. ASSUME CountWrong(r) PROVE otps' \in [Otp -> OtpRow]
    <3>1. PICK o \in Otp \cup {NoOtp} : o = treq[r].otp
      BY DEF TenantReq
    <3>2. otps' = [otps EXCEPT ![o].attempts = @ + 1]
      BY <2>2, <3>1 DEF CountWrong
    <3>3. \A p \in Otp : [otps[p] EXCEPT !.attempts = @ + 1] \in OtpRow
      BY DEF OtpRow
    <3>4. CASE o \in Otp
      <4>1. otps' = [otps EXCEPT ![o] = [otps[o] EXCEPT !.attempts = @ + 1]]
        BY <3>2, <3>4
      <4> QED
        BY <3>3, <3>4, <4>1
    <3>5. CASE o = NoOtp
      BY <3>2, <3>5, TenantConstants
    <3> QED
      BY <3>1, <3>4, <3>5
  <2>3. ASSUME MarkVerified(r) PROVE otps' \in [Otp -> OtpRow]
    <3>1. PICK o \in Otp \cup {NoOtp} : o = treq[r].otp
      BY DEF TenantReq
    <3>2. otps' \in {[otps EXCEPT ![o].state = "verified"], otps}
      BY <2>3, <3>1 DEF MarkVerified
    <3>3. \A p \in Otp : [otps[p] EXCEPT !.state = "verified"] \in OtpRow
      BY DEF OtpRow
    <3>4. CASE o \in Otp
      <4>1. otps' \in {[otps EXCEPT ![o] = [otps[o] EXCEPT !.state = "verified"]], otps}
        BY <3>2, <3>4
      <4> QED
        BY <3>3, <3>4, <4>1
    <3>5. CASE o = NoOtp
      BY <3>2, <3>5, TenantConstants
    <3> QED
      BY <3>1, <3>4, <3>5
  <2> QED
    BY <1>4, <2>1, <2>2, <2>3 DEF CountWrong, MarkVerified
<1>5. ASSUME NEW r \in TenantRequest, Provision(r) PROVE Shape'
  <2>1. treq' \in [TenantRequest -> TenantReq]
    BY <1>5, <1>goes DEF Provision
  <2>2. treq[r].code \in Code
    BY DEF TenantReq
  <2>3. schemas' \in SUBSET Schema
    BY <1>5, <2>2, TenantConstants DEF Provision
  <2> QED
    BY <1>5, <2>1, <2>3 DEF Provision
<1>6. ASSUME NEW r \in TenantRequest, InsertTenant(r) PROVE Shape'
  <2>1. CASE TenantDone(r) /\ UNCHANGED tenants
    BY <1>6, <1>done, <2>1 DEF InsertTenant
  <2>2. ASSUME NEW t \in Tenant,
               tenants' = [tenants EXCEPT ![t] =
                  [state |-> "live", code |-> treq[r].code, case |-> treq[r].case,
                   email |-> treq[r].email, by |-> treq[r].op]],
               treq' = [treq EXCEPT ![r].step = "seed", ![r].tenant = t]
        PROVE  Shape'
    <3>1. [state |-> "live", code |-> treq[r].code, case |-> treq[r].case,
           email |-> treq[r].email, by |-> treq[r].op] \in TenantRow
      BY DEF TenantRow, TenantReq
    <3>2. tenants' \in [Tenant -> TenantRow]
      BY <2>2, <3>1
    <3>3. [treq[r] EXCEPT !.step = "seed", !.tenant = t] \in TenantReq
      BY ReqMoves
    <3>4. treq' = [treq EXCEPT ![r] = [treq[r] EXCEPT !.step = "seed", !.tenant = t]]
      BY <2>2
    <3>5. treq' \in [TenantRequest -> TenantReq]
      BY <3>3, <3>4
    <3> QED
      BY <1>6, <3>2, <3>5 DEF InsertTenant
  <2> QED
    BY <1>6, <2>1, <2>2 DEF InsertTenant
<1>7. ASSUME NEW r \in TenantRequest, SeedSchema(r) PROVE Shape'
  <2>1. treq' \in [TenantRequest -> TenantReq]
    BY <1>7, <1>done, <1>goes DEF SeedSchema
  <2>2. seeded' \in SUBSET Tenant
    BY <1>7 DEF SeedSchema, Live
  <2> QED
    BY <1>7, <2>1, <2>2 DEF SeedSchema
<1>8. ASSUME NEW r \in TenantRequest, BootstrapFails(r) PROVE Shape'
  <2>1. treq' \in [TenantRequest -> TenantReq]
    BY <1>8, <1>done DEF BootstrapFails
  <2>2. halfMade' \in SUBSET Tenant
    BY <1>8 DEF BootstrapFails, SeedHasTenant
  <2> QED
    BY <1>8, <2>1, <2>2 DEF BootstrapFails
<1>9. ASSUME NEW o \in Otp, ExpireOtp(o) PROVE Shape'
  BY <1>9 DEF ExpireOtp, OtpRow
<1>10. ASSUME NEW t \in Tenant, DeleteTenant(t) PROVE Shape'
  <2>1. tenants' \in [Tenant -> TenantRow]
    BY <1>10 DEF DeleteTenant, TenantRow
  <2> QED
    BY <1>10, <2>1 DEF DeleteTenant, Live
<1>11. CASE UNCHANGED tenantVars
  BY <1>11 DEF tenantVars
<1> QED
  BY <1>1, <1>2, <1>3, <1>4, <1>5, <1>6, <1>7, <1>8, <1>9, <1>10, <1>11 DEF TenantNext

(* A registration stores upper case, an administrator lower case, and only *)
(* codes that no live workspace has in that case are inserted.             *)
LEMMA CasesStep ==
  TenantsInv /\ [TenantNext]_tenantVars => (SeedHasTenant /\ MakersCase /\ CodesUnique)'
<1> SUFFICES ASSUME TenantsInv, [TenantNext]_tenantVars
             PROVE  (SeedHasTenant /\ MakersCase /\ CodesUnique)'
  OBVIOUS
<1>shape. Shape /\ SeedHasTenant /\ MakersCase /\ CodesUnique
  BY TypeShape DEF TenantsInv
<1>idle. TenantIdle.step = "idle" /\ TenantIdle.case = CaseOfMaker[TenantIdle.op]
  BY DEF TenantIdle, CaseOfMaker
<1>rows. ASSUME UNCHANGED tenants PROVE CodesUnique'
  BY <1>shape, <1>rows DEF CodesUnique, Live
(* One request changes, and no row.                                        *)
<1>req. ASSUME NEW r \in TenantRequest, NEW q, UNCHANGED tenants,
               treq' = [treq EXCEPT ![r] = q], q.step # "seed", q.case = CaseOfMaker[q.op]
        PROVE  (SeedHasTenant /\ MakersCase /\ CodesUnique)'
  BY <1>shape, <1>rows, <1>req DEF Shape, SeedHasTenant, MakersCase, Live
<1>done. ASSUME NEW r \in TenantRequest, TenantDone(r), UNCHANGED tenants
         PROVE  (SeedHasTenant /\ MakersCase /\ CodesUnique)'
  BY <1>idle, <1>req, <1>done DEF TenantDone
<1>goes. ASSUME NEW r \in TenantRequest, NEW step \in {"rows", "mark"}, TenantGoTo(r, step),
                UNCHANGED tenants
         PROVE  (SeedHasTenant /\ MakersCase /\ CodesUnique)'
  <2> DEFINE q == [treq[r] EXCEPT !.step = step]
  <2>1. q.step = step /\ q.case = CaseOfMaker[q.op]
    BY <1>shape DEF Shape, TenantReq, MakersCase
  <2>2. treq' = [treq EXCEPT ![r] = q]
    BY <1>shape, <1>goes DEF TenantGoTo, Shape
  <2> QED
    BY <1>req, <1>goes, <2>1, <2>2
<1>1. ASSUME NEW o \in Otp, NEW c \in Code, NEW e \in Email, RegisterInit(o, c, e)
      PROVE  (SeedHasTenant /\ MakersCase /\ CodesUnique)'
  BY <1>1, <1>shape, <1>rows DEF RegisterInit, SeedHasTenant, MakersCase, Live
<1>2. ASSUME NEW r \in TenantRequest, NEW o \in Otp, NEW right \in BOOLEAN, CheckOtp(r, o, right)
      PROVE  (SeedHasTenant /\ MakersCase /\ CodesUnique)'
  <2> DEFINE q == [step |-> IF right THEN "provision" ELSE "wrong", op |-> "register",
                   tenant |-> NoTenant, otp |-> o, code |-> otps[o].code, case |-> "upper",
                   email |-> otps[o].email]
  <2>1. q.step # "seed" /\ q.case = CaseOfMaker[q.op]
    BY DEF CaseOfMaker
  <2>2. treq' = [treq EXCEPT ![r] = q] /\ UNCHANGED tenants
    BY <1>2 DEF CheckOtp
  <2> QED
    BY <1>req, <2>1, <2>2
<1>3. ASSUME NEW r \in TenantRequest, NEW c \in Code, NEW e \in Email, AdminBootstrap(r, c, e)
      PROVE  (SeedHasTenant /\ MakersCase /\ CodesUnique)'
  <2> DEFINE q == [TenantIdle EXCEPT !.step = "provision", !.code = c, !.case = "lower", !.email = e]
  <2>1. q.step # "seed" /\ q.case = CaseOfMaker[q.op]
    BY DEF CaseOfMaker, TenantIdle
  <2>2. treq' = [treq EXCEPT ![r] = q] /\ UNCHANGED tenants
    BY <1>3 DEF AdminBootstrap, AdminCase
  <2> QED
    BY <1>req, <2>1, <2>2
<1>4. ASSUME NEW r \in TenantRequest, InsertTenant(r)
      PROVE  (SeedHasTenant /\ MakersCase /\ CodesUnique)'
  <2>1. CASE TenantDone(r) /\ UNCHANGED tenants
    BY <1>done, <2>1
  <2>2. ASSUME NEW t \in Tenant, tenants[t].state = "none",
               ~CodeTaken(treq[r].code, treq[r].case),
               tenants' = [tenants EXCEPT ![t] =
                  [state |-> "live", code |-> treq[r].code, case |-> treq[r].case,
                   email |-> treq[r].email, by |-> treq[r].op]],
               treq' = [treq EXCEPT ![r].step = "seed", ![r].tenant = t]
        PROVE  (SeedHasTenant /\ MakersCase /\ CodesUnique)'
    <3>1. /\ tenants'[t].code = treq[r].code /\ tenants'[t].case = treq[r].case
          /\ tenants'[t].by = treq[r].op
          /\ \A u \in Tenant \ {t} : tenants'[u] = tenants[u]
      BY <1>shape, <2>2 DEF Shape
    <3>2. Live' \subseteq Live \cup {t}
      BY <3>1 DEF Live
    <3>3. \A u \in Live : u # t /\ u \in Tenant
      BY <2>2 DEF Live
    <3>4. \A u \in Live : tenants[u].code # treq[r].code \/ tenants[u].case # treq[r].case
      BY <2>2 DEF CodeTaken
    <3>5. CodesUnique'
      BY <1>shape, <3>1, <3>2, <3>3, <3>4 DEF CodesUnique
    <3>6. /\ \A p \in TenantRequest : treq'[p].case = treq[p].case /\ treq'[p].op = treq[p].op
          /\ \A p \in TenantRequest \ {r} : treq'[p] = treq[p]
          /\ treq'[r].tenant = t
      BY <1>shape, <2>2 DEF Shape, TenantReq
    <3>7. SeedHasTenant'
      BY <1>shape, <2>2, <3>6 DEF SeedHasTenant
    <3>8. MakersCase'
      BY <1>shape, <3>1, <3>2, <3>3, <3>6 DEF MakersCase
    <3> QED
      BY <3>5, <3>7, <3>8
  <2> QED
    BY <1>4, <2>1, <2>2 DEF InsertTenant
<1>5. ASSUME NEW o \in Otp, ExpireOtp(o) PROVE (SeedHasTenant /\ MakersCase /\ CodesUnique)'
  BY <1>5, <1>shape, <1>rows DEF ExpireOtp, SeedHasTenant, MakersCase, Live
<1>6. ASSUME NEW t \in Tenant, DeleteTenant(t) PROVE (SeedHasTenant /\ MakersCase /\ CodesUnique)'
  <2>1. /\ \A u \in Tenant \ {t} : tenants'[u] = tenants[u]
        /\ tenants'[t].state = "deleted" /\ UNCHANGED treq
    BY <1>6, <1>shape DEF DeleteTenant, Shape, TenantRow
  <2>2. Live' \subseteq Live \ {t} /\ Live \subseteq Tenant
    BY <2>1 DEF Live
  <2> QED
    BY <1>shape, <2>1, <2>2 DEF SeedHasTenant, MakersCase, CodesUnique
<1>7. CASE UNCHANGED tenantVars
  BY <1>7, <1>shape DEF tenantVars, SeedHasTenant, MakersCase, CodesUnique, Live
<1>8. ASSUME NEW r \in TenantRequest,
             CountWrong(r) \/ MarkVerified(r) \/ Provision(r) \/ SeedSchema(r) \/ BootstrapFails(r)
      PROVE  (SeedHasTenant /\ MakersCase /\ CodesUnique)'
  BY <1>8, <1>done, <1>goes DEF CountWrong, MarkVerified, Provision, SeedSchema, BootstrapFails
<1> QED
  BY <1>1, <1>2, <1>3, <1>4, <1>5, <1>6, <1>7, <1>8 DEF TenantNext

(* What makes a workspace usable is undone only by the failure of its      *)
(* second transaction or the deletion of a workspace with its schema.      *)
LEMMA UsableStep == TenantsInv /\ [TenantNext]_tenantVars => UnusableIsExplained'
<1> SUFFICES ASSUME TenantsInv, [TenantNext]_tenantVars PROVE UnusableIsExplained'
  OBVIOUS
<1>shape. Shape /\ SeedHasTenant /\ UnusableIsExplained
  BY TypeShape DEF TenantsInv
(* A request that is not seeding moves on, rows and explanations stay.     *)
<1>moves. ASSUME NEW r \in TenantRequest, treq[r].step # "seed",
                 \A p \in TenantRequest \ {r} : treq'[p] = treq[p],
                 UNCHANGED <<tenants, seeded, halfMade, bereft>>, schemas \subseteq schemas'
          PROVE  UnusableIsExplained'
  BY <1>shape, <1>moves DEF UnusableIsExplained, Live, SchemaOfTenant
<1>1. ASSUME NEW o \in Otp, NEW c \in Code, NEW e \in Email, RegisterInit(o, c, e)
      PROVE  UnusableIsExplained'
  BY <1>1, <1>shape DEF RegisterInit, UnusableIsExplained, Live, SchemaOfTenant
<1>2. ASSUME NEW r \in TenantRequest, NEW o \in Otp, NEW right \in BOOLEAN, CheckOtp(r, o, right)
      PROVE  UnusableIsExplained'
  BY <1>2, <1>shape, <1>moves DEF CheckOtp, Shape
<1>3. ASSUME NEW r \in TenantRequest, NEW c \in Code, NEW e \in Email, AdminBootstrap(r, c, e)
      PROVE  UnusableIsExplained'
  BY <1>3, <1>shape, <1>moves DEF AdminBootstrap, Shape
<1>4. ASSUME NEW r \in TenantRequest, CountWrong(r) \/ MarkVerified(r) \/ Provision(r)
      PROVE  UnusableIsExplained'
  BY <1>4, <1>shape, <1>moves
     DEF CountWrong, MarkVerified, Provision, TenantDone, TenantGoTo, Shape
<1>5. ASSUME NEW r \in TenantRequest, InsertTenant(r) PROVE UnusableIsExplained'
  <2>1. CASE TenantDone(r) /\ UNCHANGED tenants
    BY <1>5, <1>shape, <1>moves, <2>1 DEF InsertTenant, TenantDone, Shape
  <2>2. ASSUME NEW t \in Tenant, tenants[t].state = "none",
               tenants' = [tenants EXCEPT ![t] =
                  [state |-> "live", code |-> treq[r].code, case |-> treq[r].case,
                   email |-> treq[r].email, by |-> treq[r].op]],
               treq' = [treq EXCEPT ![r].step = "seed", ![r].tenant = t]
        PROVE  UnusableIsExplained'
    <3>1. \A u \in Tenant \ {t} : tenants'[u] = tenants[u]
      BY <1>shape, <2>2 DEF Shape
    <3>2. Live' \subseteq Live \cup {t} /\ Live \subseteq Tenant \ {t}
      BY <2>2, <3>1 DEF Live
    <3>3. treq'[r].step = "seed" /\ treq'[r].tenant = t
      BY <1>shape, <2>2 DEF Shape, TenantReq
    <3>4. \A p \in TenantRequest : treq[p].step = "seed" => treq'[p] = treq[p]
      BY <1>5, <1>shape, <2>2 DEF InsertTenant, Shape
    <3>5. UNCHANGED <<schemas, seeded, halfMade, bereft>>
      BY <1>5 DEF InsertTenant
    <3> QED
      BY <1>shape, <3>1, <3>2, <3>3, <3>4, <3>5 DEF UnusableIsExplained, SchemaOfTenant
  <2> QED
    BY <1>5, <2>1, <2>2 DEF InsertTenant
<1>6. ASSUME NEW r \in TenantRequest, SeedSchema(r) PROVE UnusableIsExplained'
  <2>1. /\ UNCHANGED <<tenants, schemas, halfMade, bereft>>
        /\ seeded' = seeded \cup {treq[r].tenant}
        /\ SchemaOfTenant(treq[r].tenant) \in schemas
        /\ \A p \in TenantRequest \ {r} : treq'[p] = treq[p]
    BY <1>6, <1>shape DEF SeedSchema, TenantDone, TenantGoTo, Shape
  <2> QED
    BY <1>shape, <2>1 DEF UnusableIsExplained, Live, SchemaOfTenant
<1>7. ASSUME NEW r \in TenantRequest, BootstrapFails(r) PROVE UnusableIsExplained'
  <2>1. /\ UNCHANGED <<tenants, schemas, seeded, bereft>>
        /\ halfMade \subseteq halfMade'
        /\ treq[r].step = "seed" => treq[r].tenant \in halfMade'
        /\ \A p \in TenantRequest \ {r} : treq'[p] = treq[p]
    BY <1>7, <1>shape DEF BootstrapFails, TenantDone, Shape
  <2> QED
    BY <1>shape, <2>1 DEF UnusableIsExplained, Live, SchemaOfTenant
<1>8. ASSUME NEW o \in Otp, ExpireOtp(o) PROVE UnusableIsExplained'
  BY <1>8, <1>shape DEF ExpireOtp, UnusableIsExplained, Live, SchemaOfTenant
<1>9. ASSUME NEW t \in Tenant, DeleteTenant(t) PROVE UnusableIsExplained'
  <2>1. /\ \A u \in Tenant \ {t} : tenants'[u] = tenants[u]
        /\ \A u \in Tenant : tenants'[u].code = tenants[u].code
        /\ tenants'[t].state = "deleted"
    BY <1>9, <1>shape DEF DeleteTenant, Shape, TenantRow
  <2>2. Live' \subseteq Live \ {t} /\ Live \subseteq Tenant
    BY <2>1 DEF Live
  <2> DEFINE housemates == {u \in Live \ {t} : SchemaOfTenant(u) = SchemaOfTenant(t)}
  <2>3. /\ schemas' = schemas \ {SchemaOfTenant(t)}
        /\ seeded' = seeded \ ({t} \cup housemates)
        /\ bereft' = bereft \cup housemates
        /\ UNCHANGED <<treq, halfMade>>
    BY <1>9 DEF DeleteTenant
  <2>4. ASSUME NEW u \in Live', u \notin halfMade' \cup bereft'
        PROVE  \/ u \in seeded' /\ SchemaOfTenant(u)' \in schemas'
               \/ \E r \in TenantRequest : treq'[r].step = "seed" /\ treq'[r].tenant = u
    <3>1. u \in Live \ {t} /\ u \in Tenant /\ u \notin housemates
      BY <2>2, <2>3, <2>4
    <3>2. SchemaOfTenant(u)' = SchemaOfTenant(u) /\ SchemaOfTenant(u) # SchemaOfTenant(t)
      BY <2>1, <3>1 DEF SchemaOfTenant
    <3>3. \/ u \in seeded /\ SchemaOfTenant(u) \in schemas
          \/ \E r \in TenantRequest : treq[r].step = "seed" /\ treq[r].tenant = u
      BY <1>shape, <2>3, <2>4, <3>1 DEF UnusableIsExplained
    <3> QED
      BY <2>3, <3>1, <3>2, <3>3
  <2> QED
    BY <2>4 DEF UnusableIsExplained
<1>10. CASE UNCHANGED tenantVars
  BY <1>10, <1>shape DEF tenantVars, UnusableIsExplained, Live, SchemaOfTenant
<1> QED
  BY <1>1, <1>2, <1>3, <1>4, <1>5, <1>6, <1>7, <1>8, <1>9, <1>10 DEF TenantNext

(* The invariant of the workspaces: which codes are unique among which     *)
(* makers, which schema is whose, and what each request under way has      *)
(* still to write (Bootstrap, VerifyRegistrationOTP, DeleteTenant).        *)
THEOREM TenantsInvariant == TenantSpec => []TenantsInv
<1>1. TenantsInv /\ [TenantNext]_tenantVars => TenantsInv'
  BY TenantTypeStep, CasesStep, UsableStep DEF TenantsInv
<1> QED
  BY <1>1, TenantInitInv, PTL DEF TenantSpec

(* Two live workspaces of one maker and one code never share a schema,     *)
(* whatever bootstraps and registrations run at once.                      *)
THEOREM SharedSchemasExplained == TenantSpec => []SharedSchemaIsExplained
<1>1. TenantsInv => SharedSchemaIsExplained
  BY DEF TenantsInv, MakersCase, CodesUnique, SharedSchemaIsExplained
<1> QED
  BY <1>1, TenantsInvariant, PTL

(* A listed workspace is usable or being made, unless its second           *)
(* transaction failed or its schema went with another workspace.           *)
THEOREM UnusableExplained == TenantSpec => []UnusableIsExplained
<1>1. TenantsInv => UnusableIsExplained
  BY DEF TenantsInv
<1> QED
  BY <1>1, TenantsInvariant, PTL

-----------------------------------------------------------------------------
(* The count of wrong codes                                                *)

(* Requests that compared a wrong code and have not counted it yet.        *)
WrongAt(all, o) == {r \in TenantRequest : all[r].step = "wrong" /\ all[r].otp = o}

(* Whoever has passed the check had not seen the limit.                    *)
AttemptsInv ==
  /\ TenantTypeOK /\ SeedHasTenant
  /\ \A o \in Otp : otps[o].attempts + Cardinality(WrongAt(treq, o))
                      <= MaxOtpAttempts - 1 + Cardinality(TenantRequest)

(* The verifications under way with a wrong code are at most the requests. *)
LEMMA WrongFinite ==
  ASSUME NEW all, NEW o
  PROVE  /\ WrongAt(all, o) \in SUBSET TenantRequest
         /\ IsFiniteSet(WrongAt(all, o)) /\ Cardinality(WrongAt(all, o)) \in Nat
         /\ Cardinality(TenantRequest) \in Nat
         /\ Cardinality(WrongAt(all, o)) <= Cardinality(TenantRequest)
<1>1. WrongAt(all, o) \in SUBSET TenantRequest
  BY DEF WrongAt
<1> QED
  BY <1>1, TenantConstants, FS_Subset, FS_CardinalityType

(* Nobody else begins to compare, and no record's count grows.             *)
LEMMA FewerWrong ==
  ASSUME AttemptsInv, TenantTypeOK', SeedHasTenant',
         \A o \in Otp : otps'[o].attempts = otps[o].attempts \/ otps'[o].attempts = 0,
         \A r \in TenantRequest : treq'[r].step = "wrong" => treq'[r] = treq[r]
  PROVE  AttemptsInv'
<1> SUFFICES ASSUME NEW o \in Otp
             PROVE  otps'[o].attempts + Cardinality(WrongAt(treq', o))
                      <= MaxOtpAttempts - 1 + Cardinality(TenantRequest)
  BY DEF AttemptsInv, WrongAt
<1>1. WrongAt(treq', o) \in SUBSET WrongAt(treq, o)
  BY DEF WrongAt
<1>2. /\ IsFiniteSet(WrongAt(treq, o)) /\ Cardinality(WrongAt(treq, o)) \in Nat
      /\ Cardinality(WrongAt(treq', o)) \in Nat /\ Cardinality(TenantRequest) \in Nat
      /\ Cardinality(WrongAt(treq, o)) <= Cardinality(TenantRequest)
      /\ MaxOtpAttempts \in Nat \ {0}
  BY WrongFinite, TenantConstants
<1>3. Cardinality(WrongAt(treq', o)) <= Cardinality(WrongAt(treq, o))
  BY <1>1, <1>2, FS_Subset
<1>4. otps[o].attempts \in Nat
  BY DEF AttemptsInv, TenantTypeOK
<1>5. otps[o].attempts + Cardinality(WrongAt(treq, o)) <= MaxOtpAttempts - 1 + Cardinality(TenantRequest)
  BY DEF AttemptsInv
<1> QED
  BY <1>2, <1>3, <1>4, <1>5

(* At first no code was sent.                                              *)
LEMMA AttemptsInitInv == TenantInit => AttemptsInv
<1> SUFFICES ASSUME TenantInit PROVE AttemptsInv
  OBVIOUS
<1>1. TenantTypeOK /\ SeedHasTenant
  BY TenantInitInv DEF TenantsInv
<1>2. ASSUME NEW o \in Otp
      PROVE  otps[o].attempts + Cardinality(WrongAt(treq, o))
               <= MaxOtpAttempts - 1 + Cardinality(TenantRequest)
  <2>1. otps[o].attempts = 0
    BY DEF TenantInit, NoOtpRow
  <2> QED
    BY <2>1, WrongFinite, TenantConstants
<1> QED
  BY <1>1, <1>2 DEF AttemptsInv

(* Every action keeps the bound, that of the ones under way included.      *)
LEMMA AttemptsStep ==
  AttemptsInv /\ TenantTypeOK' /\ SeedHasTenant' /\ [TenantNext]_tenantVars => AttemptsInv'
<1> SUFFICES ASSUME AttemptsInv, TenantTypeOK', SeedHasTenant', [TenantNext]_tenantVars
             PROVE  AttemptsInv'
  OBVIOUS
<1>shape. Shape
  BY TypeShape DEF AttemptsInv
<1>idle. TenantIdle.step = "idle"
  BY DEF TenantIdle
<1>1. ASSUME NEW r \in TenantRequest, NEW o \in Otp, CheckOtp(r, o, FALSE) PROVE AttemptsInv'
  <2> SUFFICES ASSUME NEW p \in Otp
               PROVE  otps'[p].attempts + Cardinality(WrongAt(treq', p))
                        <= MaxOtpAttempts - 1 + Cardinality(TenantRequest)
    BY DEF AttemptsInv, WrongAt
  <2>1. /\ otps' = otps /\ treq[r].step = "idle" /\ otps[o].attempts < MaxOtpAttempts
        /\ \A q \in TenantRequest \ {r} : treq'[q] = treq[q]
        /\ treq'[r].step = "wrong" /\ treq'[r].otp = o
    BY <1>1, <1>shape DEF CheckOtp, Shape
  <2>2. otps[p].attempts \in Nat /\ otps[o].attempts \in Nat /\ MaxOtpAttempts \in Nat \ {0}
    BY <1>shape, TenantConstants DEF Shape, OtpRow
  <2>3. CASE p = o
    BY <2>1, <2>2, <2>3, WrongFinite
  <2>4. CASE p # o
    <3>1. WrongAt(treq', p) = WrongAt(treq, p)
      BY <2>1, <2>4 DEF WrongAt
    <3> QED
      BY <2>1, <3>1 DEF AttemptsInv
  <2> QED
    BY <2>3, <2>4
<1>2. ASSUME NEW r \in TenantRequest, NEW o \in Otp, CheckOtp(r, o, TRUE) PROVE AttemptsInv'
  BY <1>2, <1>shape, FewerWrong DEF CheckOtp, Shape
<1>3. ASSUME NEW r \in TenantRequest, CountWrong(r) PROVE AttemptsInv'
  <2> SUFFICES ASSUME NEW p \in Otp
               PROVE  otps'[p].attempts + Cardinality(WrongAt(treq', p))
                        <= MaxOtpAttempts - 1 + Cardinality(TenantRequest)
    BY DEF AttemptsInv, WrongAt
  <2>1. /\ \A q \in TenantRequest : treq'[q] = IF q = r THEN TenantIdle ELSE treq[q]
        /\ otps' = [otps EXCEPT ![treq[r].otp].attempts = @ + 1] /\ treq[r].step = "wrong"
    BY <1>3, <1>shape DEF CountWrong, TenantDone, Shape
  <2>2. otps[p] \in OtpRow /\ otps[p].attempts \in Nat /\ MaxOtpAttempts \in Nat \ {0}
    BY <1>shape, TenantConstants DEF Shape, OtpRow
  <2>3. otps[p].attempts + Cardinality(WrongAt(treq, p)) <= MaxOtpAttempts - 1 + Cardinality(TenantRequest)
    BY DEF AttemptsInv
  <2>4. WrongAt(treq', p) = WrongAt(treq, p) \ {r}
    BY <1>idle, <2>1 DEF WrongAt
  <2>5. Cardinality(WrongAt(treq', p)) = IF r \in WrongAt(treq, p)
          THEN Cardinality(WrongAt(treq, p)) - 1 ELSE Cardinality(WrongAt(treq, p))
    BY <2>4, WrongFinite, FS_RemoveElement
  <2>6. r \in WrongAt(treq, p) <=> treq[r].otp = p
    BY <2>1 DEF WrongAt
  <2>7. otps'[p].attempts = IF treq[r].otp = p THEN otps[p].attempts + 1 ELSE otps[p].attempts
    BY <1>shape, <2>1, <2>2 DEF Shape, OtpRow
  <2>8. Cardinality(WrongAt(treq, p)) \in Nat /\ Cardinality(TenantRequest) \in Nat
    BY WrongFinite
  <2> QED
    BY <2>2, <2>3, <2>5, <2>6, <2>7, <2>8
<1>4. ASSUME NEW o \in Otp, NEW c \in Code, NEW e \in Email, RegisterInit(o, c, e) PROVE AttemptsInv'
  BY <1>4, <1>shape, FewerWrong DEF RegisterInit, Shape
<1>5. ASSUME NEW o \in Otp, ExpireOtp(o) PROVE AttemptsInv'
  BY <1>5, <1>shape, FewerWrong DEF ExpireOtp, Shape, OtpRow
<1>6. ASSUME NEW r \in TenantRequest, MarkVerified(r) PROVE AttemptsInv'
  <2>1. \A q \in TenantRequest : treq'[q] = IF q = r THEN TenantIdle ELSE treq[q]
    BY <1>6, <1>shape DEF MarkVerified, TenantDone, Shape
  <2>2. \A o \in Otp : otps'[o].attempts = otps[o].attempts
    BY <1>6, <1>shape DEF MarkVerified, Shape, OtpRow
  <2> QED
    BY <1>idle, <2>1, <2>2, FewerWrong
<1>7. ASSUME UNCHANGED otps, NEW r \in TenantRequest, NEW q, q.step # "wrong",
             treq' = [treq EXCEPT ![r] = q]
      PROVE  AttemptsInv'
  BY <1>7, <1>shape, FewerWrong DEF Shape
<1>8. ASSUME NEW r \in TenantRequest, NEW c \in Code, NEW e \in Email, AdminBootstrap(r, c, e)
      PROVE  AttemptsInv'
  <2>1. PICK case \in AdminCase :
          treq' = [treq EXCEPT ![r] = [TenantIdle EXCEPT !.step = "provision", !.code = c,
                                                         !.case = case, !.email = e]]
    BY <1>8 DEF AdminBootstrap
  <2>2. [TenantIdle EXCEPT !.step = "provision", !.code = c, !.case = case, !.email = e].step
          = "provision"
    BY DEF TenantIdle
  <2> QED
    BY <1>7, <1>8, <2>1, <2>2 DEF AdminBootstrap
<1>9. ASSUME NEW r \in TenantRequest, UNCHANGED otps,
             TenantDone(r) \/ TenantGoTo(r, "rows") \/ TenantGoTo(r, "mark")
      PROVE  AttemptsInv'
  <2>1. CASE TenantDone(r)
    BY <1>7, <1>9, <1>idle, <2>1 DEF TenantDone
  <2>2. ASSUME NEW step \in {"rows", "mark"}, TenantGoTo(r, step) PROVE AttemptsInv'
    <3>1. [treq[r] EXCEPT !.step = step].step # "wrong"
      BY <1>shape DEF Shape, TenantReq
    <3>2. treq' = [treq EXCEPT ![r] = [treq[r] EXCEPT !.step = step]]
      BY <2>2 DEF TenantGoTo
    <3> QED
      BY <1>7, <1>9, <3>1, <3>2
  <2> QED
    BY <1>9, <2>1, <2>2
<1>10. ASSUME NEW r \in TenantRequest, InsertTenant(r) PROVE AttemptsInv'
  <2>1. CASE TenantDone(r)
    BY <1>9, <1>10, <2>1 DEF InsertTenant
  <2>2. CASE \E t \in Tenant : treq' = [treq EXCEPT ![r].step = "seed", ![r].tenant = t]
    <3>1. PICK t \in Tenant : treq' = [treq EXCEPT ![r] = [treq[r] EXCEPT !.step = "seed", !.tenant = t]]
      BY <1>shape, <2>2 DEF Shape
    <3>2. [treq[r] EXCEPT !.step = "seed", !.tenant = t].step # "wrong"
      BY <1>shape DEF Shape, TenantReq
    <3> QED
      BY <1>7, <1>10, <3>1, <3>2 DEF InsertTenant
  <2> QED
    BY <1>10, <2>1, <2>2 DEF InsertTenant
<1>11. ASSUME NEW t \in Tenant, DeleteTenant(t) PROVE AttemptsInv'
  BY <1>11, FewerWrong DEF DeleteTenant
<1>12. CASE UNCHANGED tenantVars
  BY <1>12, FewerWrong DEF tenantVars
<1>13. ASSUME NEW r \in TenantRequest, Provision(r) \/ SeedSchema(r) \/ BootstrapFails(r)
       PROVE  AttemptsInv'
  BY <1>9, <1>13 DEF Provision, SeedSchema, BootstrapFails
<1> HIDE DEF AttemptsInv
<1>14. ASSUME NEW r \in TenantRequest, NEW o \in Otp, NEW right \in BOOLEAN, CheckOtp(r, o, right)
       PROVE  AttemptsInv'
  BY <1>1, <1>2, <1>14
<1> QED
  BY <1>3, <1>4, <1>5, <1>6, <1>8, <1>10, <1>11, <1>12, <1>13, <1>14 DEF TenantNext

(* For any limit of attempts and any number of verifications at a time:    *)
(* the attempts counted exceed the limit by less than the requests that    *)
(* run at once, as each reads the count before it compares and writes it   *)
(* after (VerifyRegistrationOTP).                                          *)
THEOREM AttemptsAreBounded == TenantSpec => []AttemptsBounded
<1>1. TenantsInv => TenantTypeOK /\ SeedHasTenant
  BY DEF TenantsInv
<1>2. ASSUME AttemptsInv PROVE AttemptsBounded
  <2> SUFFICES ASSUME NEW o \in Otp
               PROVE  otps[o].attempts < MaxOtpAttempts + Cardinality(TenantRequest)
    BY DEF AttemptsBounded
  <2>1. otps[o].attempts \in Nat
    BY <1>2 DEF AttemptsInv, TenantTypeOK
  <2>2. otps[o].attempts + Cardinality(WrongAt(treq, o)) <= MaxOtpAttempts - 1 + Cardinality(TenantRequest)
    BY <1>2 DEF AttemptsInv
  <2> QED
    BY <2>1, <2>2, WrongFinite, TenantConstants
<1> QED
  BY <1>1, <1>2, AttemptsInitInv, AttemptsStep, TenantsInvariant, PTL DEF TenantSpec

-----------------------------------------------------------------------------
(***************************************************************************)
(* Roles: a member ends with what was asked for, but for a race of lists.  *)
(***************************************************************************)
MemberReq ==
  [step : {"idle", "checked", "begun", "waiting", "cleared"}, kind : {"list", "form"},
   member : Membership \cup {NoMember}, ask : SUBSET Role, gone : SUBSET Role]

(* The form's lock on the user's row lets one form at a time go on.        *)
FormAlone ==
  \A r, q \in MemberRequest :
    /\ r # q
    /\ memreq[r].kind = "form" /\ memreq[q].kind = "form"
    /\ memreq[r].step \in {"begun", "waiting", "cleared"}
    /\ memreq[q].step \in {"begun", "waiting", "cleared"}
    => memreq[r].member # memreq[q].member

(* A transaction whose DELETE has begun will leave no row, or somebody     *)
(* else's insert between them has mixed the member's roles.                *)
DeletesAll ==
  \A r \in MemberRequest :
    memreq[r].step \in {"waiting", "cleared"} /\ memreq[r].member \notin mixed
      => roleRows[memreq[r].member] \subseteq memreq[r].gone

MembersInv ==
  /\ MemberTypeOK
  /\ \A r \in MemberRequest : memreq[r].step # "idle" => memreq[r].member \in Membership
  /\ FormAlone /\ DeletesAll
  /\ \A m \in Membership \ mixed : roleRows[m] = asked[m]

(* At first there is no member and no request.                             *)
LEMMA MemberInitInv == MemberInit => MembersInv
<1> SUFFICES ASSUME MemberInit PROVE MembersInv
  OBVIOUS
<1>1. MemberIdle \in MemberReq /\ MemberIdle.step = "idle"
  BY DEF MemberIdle, MemberReq
<1>2. MemberTypeOK
  BY <1>1 DEF MemberInit, MemberTypeOK, MemberReq
<1> QED
  BY <1>1, <1>2 DEF MemberInit, MembersInv, FormAlone, DeletesAll

(* A step of one request that changes no rows.                             *)
LEMMA OneMemberRequest ==
  ASSUME MembersInv, UNCHANGED <<members, roles, roleRows, asked, mixed>>,
         NEW r \in MemberRequest, NEW v \in MemberReq, memreq' = [memreq EXCEPT ![r] = v],
         v.step # "idle" => v.member \in Membership,
         v.step \in {"waiting", "cleared"} /\ v.member \notin mixed =>
           roleRows[v.member] \subseteq v.gone,
         v.kind = "form" /\ v.step \in {"begun", "waiting", "cleared"} =>
           \A q \in MemberRequest \ {r} :
             memreq[q].kind = "form" /\ memreq[q].step \in {"begun", "waiting", "cleared"}
               => memreq[q].member # v.member
  PROVE  MembersInv'
<1>1. \A q \in MemberRequest : memreq'[q] = IF q = r THEN v ELSE memreq[q]
  BY DEF MembersInv, MemberTypeOK
<1>2. MemberTypeOK'
  BY DEF MembersInv, MemberTypeOK, MemberReq
<1>3. FormAlone'
  BY <1>1 DEF MembersInv, FormAlone
<1>4. DeletesAll'
  BY <1>1 DEF MembersInv, DeletesAll
<1> QED
  BY <1>1, <1>2, <1>3, <1>4 DEF MembersInv

(* The steps of a request that is past its check of the roles,             *)
LEMMA MemberRequestSteps ==
  ASSUME MembersInv, NEW r \in MemberRequest,
         WriteUser(r) \/ StartDelete(r) \/ DeleteRows(r) \/ RollBackRoles(r)
  PROVE  MembersInv'
<1> DEFINE q == memreq[r]
<1>1. q \in MemberReq /\ roleRows \in [Membership -> SUBSET Role]
      /\ memreq \in [MemberRequest -> MemberReq]
  BY DEF MembersInv, MemberTypeOK, MemberReq
<1>2. UNCHANGED <<members, roles, roleRows, asked, mixed>>
  BY DEF WriteUser, StartDelete, DeleteRows, RollBackRoles
<1>3. q.step # "idle" => q.member \in Membership
  BY DEF MembersInv
<1>4. CASE WriteUser(r)
  <2>1. PICK v : v = [q EXCEPT !.step = "begun"]
    OBVIOUS
  <2>2. /\ v \in MemberReq /\ v.step = "begun" /\ v.kind = q.kind /\ v.member = q.member
    BY <1>1, <2>1 DEF MemberReq
  <2>3. memreq' = [memreq EXCEPT ![r] = v] /\ q.step = "checked"
    BY <1>1, <1>4, <2>1 DEF WriteUser
  <2>4. v.kind = "form" => \A p \in MemberRequest \ {r} :
          memreq[p].kind = "form" /\ memreq[p].step \in {"begun", "waiting", "cleared"}
            => memreq[p].member # v.member
    BY <1>4, <2>2 DEF WriteUser, Rivals
  <2> QED
    BY <1>2, <1>3, <2>2, <2>3, <2>4, OneMemberRequest
<1>5. CASE StartDelete(r)
  <2>1. q.step = "begun" /\ q.member \in Membership
    BY <1>3, <1>5 DEF StartDelete
  <2>2. PICK v : v = [q EXCEPT !.step = "waiting", !.gone = roleRows[q.member]]
    OBVIOUS
  <2>3. roleRows[q.member] \in SUBSET Role
    BY <1>1, <2>1
  <2>4. /\ v \in MemberReq /\ v.step = "waiting" /\ v.kind = q.kind /\ v.member = q.member
        /\ v.gone = roleRows[q.member]
    BY <1>1, <2>2, <2>3 DEF MemberReq
  <2>5. memreq' = [memreq EXCEPT ![r] = v]
    BY <1>1, <1>5, <2>2 DEF StartDelete
  <2>6. v.kind = "form" => \A p \in MemberRequest \ {r} :
          memreq[p].kind = "form" /\ memreq[p].step \in {"begun", "waiting", "cleared"}
            => memreq[p].member # v.member
    BY <2>1, <2>4 DEF MembersInv, FormAlone
  <2> QED
    BY <1>2, <2>1, <2>4, <2>5, <2>6, OneMemberRequest
<1>6. CASE DeleteRows(r)
  <2>1. q.step = "waiting" /\ q.member \in Membership
    BY <1>3, <1>6 DEF DeleteRows
  <2>2. PICK v : v = [q EXCEPT !.step = "cleared", !.gone = @ \cap roleRows[q.member]]
    OBVIOUS
  <2>3. q.gone \cap roleRows[q.member] \in SUBSET Role
    BY <1>1, <2>1
  <2>4. /\ v \in MemberReq /\ v.step = "cleared" /\ v.kind = q.kind /\ v.member = q.member
        /\ v.gone = q.gone \cap roleRows[q.member]
    BY <1>1, <2>2, <2>3 DEF MemberReq
  <2>5. memreq' = [memreq EXCEPT ![r] = v]
    BY <1>1, <1>6, <2>2 DEF DeleteRows
  <2>6. v.kind = "form" => \A p \in MemberRequest \ {r} :
          memreq[p].kind = "form" /\ memreq[p].step \in {"begun", "waiting", "cleared"}
            => memreq[p].member # v.member
    BY <2>1, <2>4 DEF MembersInv, FormAlone
  <2>7. v.member \notin mixed => roleRows[v.member] \subseteq v.gone
    BY <2>1, <2>4 DEF MembersInv, DeletesAll
  <2> QED
    BY <1>2, <2>1, <2>4, <2>5, <2>6, <2>7, OneMemberRequest
<1>7. CASE RollBackRoles(r)
  <2>1. /\ MemberIdle \in MemberReq /\ MemberIdle.step = "idle"
        /\ memreq' = [memreq EXCEPT ![r] = MemberIdle]
    BY <1>7 DEF RollBackRoles, MemberEnds, MemberIdle, MemberReq
  <2> QED
    BY <1>2, <2>1, OneMemberRequest
<1> QED
  BY <1>4, <1>5, <1>6, <1>7

(* and the check itself, in which a list also inserts its rows.            *)
LEMMA CheckRolesStep ==
  ASSUME MembersInv, NEW r \in MemberRequest, NEW m \in Membership, NEW ask \in SUBSET Role,
         NEW kind \in {"list", "form"}, CheckRoles(r, kind, m, ask)
  PROVE  MembersInv'
<1> DEFINE v == [step |-> "checked", kind |-> kind, member |-> m, ask |-> ask, gone |-> {}]
<1>1. v \in MemberReq /\ v.step = "checked" /\ v.member = m
  BY DEF MemberReq
<1>2. memreq' = [memreq EXCEPT ![r] = v] /\ UNCHANGED <<members, roles, roleRows, asked, mixed>>
  BY DEF CheckRoles
<1> HIDE DEF v
<1> QED
  BY <1>1, <1>2, OneMemberRequest

(* The commit.  It may find rows that it did not delete only where another *)
(* has committed meanwhile; where it finds none and nobody else is about   *)
(* to, the member is not mixed any more.                                   *)
LEMMA InsertRolesStep ==
  ASSUME MembersInv, NEW r \in MemberRequest, InsertRoles(r)
  PROVE  MembersInv'
<1> DEFINE q == memreq[r]
           m == q.member
           rest == roleRows[m] \ q.gone
<1>1. /\ q \in MemberReq /\ roleRows \in [Membership -> SUBSET Role] /\ mixed \in SUBSET Membership
      /\ memreq \in [MemberRequest -> MemberReq] /\ asked \in [Membership -> SUBSET Role]
      /\ members \in SUBSET Membership /\ roles \in SUBSET Role
  BY DEF MembersInv, MemberTypeOK, MemberReq
<1>2. /\ q.step = "cleared" /\ m \in Membership
      /\ roleRows' = [roleRows EXCEPT ![m] = rest \cup q.ask]
      /\ asked' = [asked EXCEPT ![m] = q.ask]
      /\ UNCHANGED <<members, roles>> /\ memreq' = [memreq EXCEPT ![r] = MemberIdle]
      /\ mixed' \in {mixed \cup {m}, mixed \ {m}, mixed}
  BY DEF MembersInv, InsertRoles, MemberEnds
<1>3. MemberIdle \in MemberReq /\ MemberIdle.step = "idle"
  BY DEF MemberIdle, MemberReq
<1>4. \A p \in MemberRequest : memreq'[p] = IF p = r THEN MemberIdle ELSE memreq[p]
  BY <1>1, <1>2
<1>5. /\ \A n \in Membership : n # m => roleRows'[n] = roleRows[n] /\ asked'[n] = asked[n]
      /\ roleRows'[m] = rest \cup q.ask /\ asked'[m] = q.ask
      /\ \A n \in Membership : n # m => (n \in mixed' <=> n \in mixed)
  BY <1>1, <1>2
<1>6. MemberTypeOK'
  <2>1. roleRows' \in [Membership -> SUBSET Role] /\ asked' \in [Membership -> SUBSET Role]
    BY <1>1, <1>2 DEF MemberReq
  <2>2. memreq' \in [MemberRequest -> MemberReq] /\ mixed' \in SUBSET Membership
    BY <1>1, <1>2, <1>3
  <2> QED
    BY <1>1, <1>2, <2>1, <2>2 DEF MemberTypeOK, MemberReq
<1>7. FormAlone'
  BY <1>3, <1>4 DEF MembersInv, FormAlone
<1>8. ASSUME m \notin mixed'
      PROVE  /\ rest = {}
             /\ \A p \in MemberRequest \ {r} : memreq[p].member = m =>
                  memreq[p].step \notin {"waiting", "cleared"}
  <2>1. ~\E p \in Rivals(r, {"waiting", "cleared"}) : "list" \in {memreq[p].kind, q.kind}
    BY <1>8 DEF InsertRoles
  <2>2. rest = {} \/ m \notin mixed
    BY <1>8, <2>1 DEF InsertRoles
  <2>3. rest = {}
    BY <1>2, <2>2 DEF MembersInv, DeletesAll
  <2>4. ASSUME NEW p \in MemberRequest \ {r}, memreq[p].member = m,
               memreq[p].step \in {"waiting", "cleared"}
        PROVE  FALSE
    <3>1. p \in Rivals(r, {"waiting", "cleared"}) /\ memreq[p] \in MemberReq
      BY <1>1, <2>4 DEF Rivals
    <3>2. memreq[p].kind = "form" /\ q.kind = "form"
      BY <1>1, <2>1, <3>1 DEF MemberReq
    <3> QED
      BY <1>2, <2>4, <3>2 DEF MembersInv, FormAlone
  <2> QED
    BY <2>3, <2>4
<1>9. DeletesAll'
  <2> SUFFICES ASSUME NEW p \in MemberRequest, memreq'[p].step \in {"waiting", "cleared"},
                      memreq'[p].member \notin mixed'
               PROVE  roleRows'[memreq'[p].member] \subseteq memreq'[p].gone
    BY DEF DeletesAll
  <2>1. p # r /\ memreq'[p] = memreq[p]
    BY <1>3, <1>4
  <2>2. memreq[p].member \in Membership
    BY <2>1 DEF MembersInv
  <2>3. memreq[p].member # m
    BY <1>8, <2>1
  <2> QED
    BY <1>5, <2>1, <2>2, <2>3 DEF MembersInv, DeletesAll
<1>10. \A n \in Membership \ mixed' : roleRows'[n] = asked'[n]
  BY <1>5, <1>8 DEF MembersInv
<1>11. \A p \in MemberRequest : memreq'[p].step # "idle" => memreq'[p].member \in Membership
  BY <1>3, <1>4 DEF MembersInv
<1> QED
  BY <1>6, <1>7, <1>9, <1>10, <1>11 DEF MembersInv

(* Members and roles come and go.                                          *)
LEMMA ComeAndGoSteps ==
  ASSUME MembersInv,
         \/ \E m \in Membership, ask \in SUBSET Role : CreateTenantUser(m, ask)
         \/ \E m \in Membership : DeleteTenantUser(m)
         \/ \E x \in Role : CreateRole(x) \/ DeleteRole(x)
         \/ UNCHANGED memberVars
  PROVE  MembersInv'
<1>1. /\ roleRows \in [Membership -> SUBSET Role] /\ asked \in [Membership -> SUBSET Role]
      /\ memreq \in [MemberRequest -> MemberReq]
      /\ members \in SUBSET Membership /\ roles \in SUBSET Role /\ mixed \in SUBSET Membership
  BY DEF MembersInv, MemberTypeOK, MemberReq
<1>2. ASSUME NEW m \in Membership, NEW ask \in SUBSET Role, CreateTenantUser(m, ask)
      PROVE  MembersInv'
  <2>1. /\ UNCHANGED memreq /\ \A r \in MemberRequest : memreq[r].member # m
        /\ roleRows' = [roleRows EXCEPT ![m] = ask] /\ asked' = [asked EXCEPT ![m] = ask]
        /\ mixed' = mixed \ {m}
    BY <1>2 DEF CreateTenantUser
  <2>2. MemberTypeOK'
    BY <1>1, <1>2 DEF CreateTenantUser, MemberTypeOK, MemberReq
  <2>3. DeletesAll'
    BY <1>1, <2>1 DEF MembersInv, DeletesAll
  <2> QED
    BY <1>1, <2>1, <2>2, <2>3 DEF MembersInv, FormAlone
<1>3. ASSUME NEW m \in Membership, DeleteTenantUser(m) PROVE MembersInv'
  <2>1. /\ UNCHANGED <<memreq, mixed>>
        /\ roleRows' = [roleRows EXCEPT ![m] = {}] /\ asked' = [asked EXCEPT ![m] = {}]
    BY <1>3 DEF DeleteTenantUser
  <2>2. MemberTypeOK'
    BY <1>1, <1>3 DEF DeleteTenantUser, MemberTypeOK, MemberReq
  <2>3. DeletesAll'
    BY <1>1, <2>1 DEF MembersInv, DeletesAll
  <2> QED
    BY <1>1, <2>1, <2>2, <2>3 DEF MembersInv, FormAlone
<1>4. ASSUME NEW x \in Role, CreateRole(x) PROVE MembersInv'
  BY <1>1, <1>4 DEF CreateRole, MembersInv, MemberTypeOK, MemberReq, FormAlone, DeletesAll
<1>5. ASSUME NEW x \in Role, DeleteRole(x) PROVE MembersInv'
  <2>1. /\ UNCHANGED <<memreq, mixed>>
        /\ \A m \in Membership : roleRows'[m] = roleRows[m] \ {x} /\ asked'[m] = asked[m] \ {x}
    BY <1>5 DEF DeleteRole
  <2>2. MemberTypeOK'
    BY <1>1, <1>5 DEF DeleteRole, MemberTypeOK, MemberReq
  <2>3. DeletesAll'
    BY <2>1 DEF MembersInv, DeletesAll
  <2> QED
    BY <2>1, <2>2, <2>3 DEF MembersInv, FormAlone
<1>6. CASE UNCHANGED memberVars
  BY <1>6 DEF memberVars, MembersInv, MemberTypeOK, FormAlone, DeletesAll
<1> QED
  BY <1>2, <1>3, <1>4, <1>5, <1>6

(* Every action keeps the invariant of the members.                        *)
LEMMA MembersInvStep == MembersInv /\ [MemberNext]_memberVars => MembersInv'
<1> SUFFICES ASSUME MembersInv, [MemberNext]_memberVars PROVE MembersInv'
  OBVIOUS
<1>1. ASSUME NEW r \in MemberRequest, NEW m \in Membership, NEW ask \in SUBSET Role,
             AskFromList(r, m, ask) \/ AskFromForm(r, m, ask)
      PROVE  MembersInv'
  BY <1>1, CheckRolesStep DEF AskFromList, AskFromForm
<1> HIDE DEF MembersInv
<1> QED
  BY <1>1, MemberRequestSteps, InsertRolesStep, ComeAndGoSteps DEF MemberNext

(* A page shows a role as often as the join has copies of its row.         *)
LEMMA ShownRoles ==
  ASSUME NEW m, NEW copies \in {1, 2}, NEW x \in Role
  PROVE  ShownOf(JoinedRows(m, copies))[x] = IF x \in roleRows[m] THEN copies ELSE 0
<1> DEFINE shown == {row \in JoinedRows(m, copies) : row[1] = x}
<1>1. ShownOf(JoinedRows(m, copies))[x] = Cardinality(shown)
  BY DEF ShownOf
<1>2. CASE x \notin roleRows[m]
  <2>1. shown = {}
    BY <1>2 DEF JoinedRows
  <2> QED
    BY <1>1, <1>2, <2>1, FS_EmptySet
<1>3. CASE x \in roleRows[m] /\ copies = 1
  <2>1. shown = {<<x, 1>>}
    BY <1>3 DEF JoinedRows
  <2> QED
    BY <1>1, <1>3, <2>1, FS_Singleton
<1>4. CASE x \in roleRows[m] /\ copies = 2
  <2>1. shown = {<<x, 1>>} \cup {<<x, 2>>}
    BY <1>4 DEF JoinedRows
  <2>2. ASSUME NEW s, NEW t, s # t PROVE Cardinality({s} \cup {t}) = 2
    <3>1. IsFiniteSet({s}) /\ Cardinality({s}) = 1
      BY FS_Singleton
    <3>2. t \notin {s}
      BY <2>2
    <3> QED
      BY <3>1, <3>2, FS_AddElement
  <2>3. <<x, 1>> # <<x, 2>>
    OBVIOUS
  <2>4. Cardinality(shown) = 2
    BY <2>1, <2>2, <2>3
  <2> QED
    BY <1>1, <1>4, <2>4
<1> QED
  BY <1>2, <1>3, <1>4

(* For any members, roles and requests: a member has, and the pages show,  *)
(* exactly the roles last asked for, unless a list replaced them while     *)
(* another request did; two forms never mix, whatever fails or is deleted  *)
(* between their statements.                                               *)
THEOREM RolesAreAsAsked == MemberSpec => []RolesAsAsked
<1>1. ASSUME MembersInv PROVE RolesAsAsked
  <2> SUFFICES ASSUME NEW m \in members \ mixed
               PROVE  /\ ListMembershipsWithRoles(m) = Once(asked[m])
                      /\ TenantUserByMembership(m) = Once(asked[m])
                      /\ \A links \in 0 .. MostLinks : \A x \in Role :
                           LET shown == ListTenantUsers(m, links)[x] IN
                           IF links <= 1 THEN shown = Once(asked[m])[x]
                           ELSE shown > 0 <=> x \in asked[m]
    BY DEF RolesAsAsked
  <2>1. roleRows[m] = asked[m]
    BY <1>1 DEF MembersInv, MemberTypeOK
  <2>2. \A x \in Role : Once(asked[m])[x] = IF x \in asked[m] THEN 1 ELSE 0
    BY DEF Once
  <2>3. ShownOf(JoinedRows(m, 1)) = Once(asked[m])
    <3>1. \A x \in Role : ShownOf(JoinedRows(m, 1))[x] = Once(asked[m])[x]
      BY <2>1, <2>2, ShownRoles
    <3> QED
      BY <3>1 DEF ShownOf, Once
  <2>4. ASSUME NEW links \in 0 .. MostLinks, NEW x \in Role
        PROVE  IF links <= 1 THEN ListTenantUsers(m, links)[x] = Once(asked[m])[x]
               ELSE ListTenantUsers(m, links)[x] > 0 <=> x \in asked[m]
    <3>1. links \in {0, 1, 2}
      BY DEF MostLinks
    <3>2. CASE links <= 1
      <4>1. ListTenantUsers(m, links) = ShownOf(JoinedRows(m, 1))
        BY <3>1, <3>2 DEF ListTenantUsers
      <4> QED
        BY <2>3, <3>2, <4>1
    <3>3. CASE links = 2
      <4>1. ListTenantUsers(m, links) = ShownOf(JoinedRows(m, 2))
        BY <3>3 DEF ListTenantUsers
      <4>2. ListTenantUsers(m, links)[x] = IF x \in roleRows[m] THEN 2 ELSE 0
        BY <4>1, ShownRoles
      <4> QED
        BY <2>1, <3>3, <4>2
    <3> QED
      BY <3>1, <3>2, <3>3
  <2> QED
    BY <2>3, <2>4 DEF ListMembershipsWithRoles, TenantUserByMembership
<1> QED
  BY <1>1, MemberInitInv, MembersInvStep, PTL DEF MemberSpec

-----------------------------------------------------------------------------
(***************************************************************************)
(* The lock of an account and the limits of a client and of an account.    *)
(***************************************************************************)
(* The sign-ins that have reached a step.                                  *)
SignInsAt(at, step) == {r \in LoginRequest : at[r] = step}

InFlight(at, step) == Cardinality(SignInsAt(at, step))

(* What was tried has been counted or will be, and who has passed the      *)
(* check was no more than the limit and the sign-ins allow.                *)
LockInv ==
  /\ LockoutTypeOK
  /\ unguarded \/ wrongs <= failures + InFlight(login, "wrong")
  /\ unguarded \/ wrongs + InFlight(login, "open") <= MaxFailed - 1 + Cardinality(LoginRequest)
  /\ uncleared \/ wrongs = MostFailures \/ failures + InFlight(login, "wrong") <= wrongs

(* The sign-ins at two stages are together at most all of them,            *)
LEMMA InFlightBounds ==
  ASSUME NEW at \in [LoginRequest -> {"idle", "open", "wrong", "right"}]
  PROVE  /\ InFlight(at, "wrong") \in Nat /\ InFlight(at, "open") \in Nat
         /\ Cardinality(LoginRequest) \in Nat
         /\ InFlight(at, "wrong") + InFlight(at, "open") <= Cardinality(LoginRequest)
         /\ \A r \in LoginRequest : at[r] \notin {"wrong", "open"} =>
              InFlight(at, "wrong") + InFlight(at, "open") + 1 <= Cardinality(LoginRequest)
<1> DEFINE w == SignInsAt(at, "wrong")
           o == SignInsAt(at, "open")
<1>1. w \in SUBSET LoginRequest /\ o \in SUBSET LoginRequest /\ w \cap o = {}
      /\ w \cup o \in SUBSET LoginRequest
  BY DEF SignInsAt
<1>2. /\ IsFiniteSet(w) /\ IsFiniteSet(o) /\ IsFiniteSet(w \cup o)
      /\ Cardinality(w) \in Nat /\ Cardinality(o) \in Nat
      /\ Cardinality(LoginRequest) \in Nat /\ Cardinality(w \cup o) \in Nat
      /\ Cardinality(w \cup o) <= Cardinality(LoginRequest)
  BY <1>1, LockoutConstants, FS_Subset, FS_CardinalityType
<1>3. Cardinality(w \cup o) = Cardinality(w) + Cardinality(o)
  <2>1. Cardinality(w \cup o) = Cardinality(w) + Cardinality(o) - Cardinality({})
    BY <1>1, <1>2, FS_Union
  <2> QED
    BY <1>2, <2>1, FS_EmptySet
<1>4. ASSUME NEW r \in LoginRequest, at[r] \notin {"wrong", "open"}
      PROVE  Cardinality(w \cup o) + 1 <= Cardinality(LoginRequest)
  <2>1. r \notin w \cup o
    BY <1>4 DEF SignInsAt
  <2>2. Cardinality(w \cup o) # Cardinality(LoginRequest)
    BY <1>1, <2>1, LockoutConstants, FS_Subset
  <2> QED
    BY <1>2, <2>2
<1> QED
  BY <1>2, <1>3, <1>4 DEF InFlight

(* and one that goes on leaves a stage and comes to another.               *)
LEMMA InFlightChange ==
  ASSUME NEW at \in [LoginRequest -> {"idle", "open", "wrong", "right"}],
         NEW r \in LoginRequest, NEW step \in {"idle", "open", "wrong", "right"},
         NEW s \in {"open", "wrong"}
  PROVE  InFlight([at EXCEPT ![r] = step], s)
           = InFlight(at, s) - (IF at[r] = s THEN 1 ELSE 0) + (IF step = s THEN 1 ELSE 0)
<1> DEFINE new == [at EXCEPT ![r] = step]
<1>1. SignInsAt(new, s) = IF step = s THEN SignInsAt(at, s) \cup {r} ELSE SignInsAt(at, s) \ {r}
  BY DEF SignInsAt
<1>2. r \in SignInsAt(at, s) <=> at[r] = s
  BY DEF SignInsAt
<1>3. IsFiniteSet(SignInsAt(at, s)) /\ Cardinality(SignInsAt(at, s)) \in Nat
  BY LockoutConstants, FS_Subset, FS_CardinalityType, SignInsAt(at, s) \in SUBSET LoginRequest
     DEF SignInsAt
<1>4. /\ Cardinality(SignInsAt(at, s) \cup {r}) =
           IF r \in SignInsAt(at, s) THEN Cardinality(SignInsAt(at, s)) ELSE Cardinality(SignInsAt(at, s)) + 1
      /\ Cardinality(SignInsAt(at, s) \ {r}) =
           IF r \in SignInsAt(at, s) THEN Cardinality(SignInsAt(at, s)) - 1 ELSE Cardinality(SignInsAt(at, s))
  BY <1>3, FS_AddElement, FS_RemoveElement
<1> HIDE DEF new
<1>5. Cardinality(SignInsAt(new, s)) = Cardinality(SignInsAt(at, s))
         - (IF at[r] = s THEN 1 ELSE 0) + (IF step = s THEN 1 ELSE 0)
  BY <1>1, <1>2, <1>3, <1>4
<1> QED
  BY <1>5 DEF InFlight, new

(* What is still to be counted, without a sign-in that is not among it.    *)
LEMMA UncountedIs ==
  /\ Uncounted({}) = InFlight(login, "wrong")
  /\ \A r \in LoginRequest : login[r] # "wrong" => Uncounted({r}) = InFlight(login, "wrong")
<1>1. {r \in LoginRequest \ {} : login[r] = "wrong"} = SignInsAt(login, "wrong")
  BY DEF SignInsAt
<1>2. ASSUME NEW r \in LoginRequest, login[r] # "wrong"
      PROVE  {q \in LoginRequest \ {r} : login[q] = "wrong"} = SignInsAt(login, "wrong")
  BY <1>2 DEF SignInsAt
<1> QED
  BY <1>1, <1>2 DEF Uncounted, InFlight

(* At first nothing was tried.                                             *)
LEMMA LockInitInv == LockoutInit => LockInv
<1> SUFFICES ASSUME LockoutInit PROVE LockInv
  OBVIOUS
<1>1. login \in [LoginRequest -> {"idle", "open", "wrong", "right"}]
  BY DEF LockoutInit
<1>2. SignInsAt(login, "wrong") = {} /\ SignInsAt(login, "open") = {}
  BY DEF LockoutInit, SignInsAt
<1>3. InFlight(login, "wrong") = 0 /\ InFlight(login, "open") = 0
  BY <1>2, FS_EmptySet DEF InFlight
<1>4. Cardinality(LoginRequest) \in Nat /\ MaxFailed \in Nat \ {0}
  BY <1>1, InFlightBounds, LockoutConstants
<1> QED
  <2>1. LockoutTypeOK
    <3>1. 0 \in 0 .. MostFailures
      BY <1>4 DEF MostFailures
    <3> QED
      BY <1>1, <3>1 DEF LockoutInit, LockoutTypeOK
  <2> QED
    BY <2>1, <1>3, <1>4 DEF LockoutInit, LockInv

(* A clearing, or a right password that Redis did not hear of.             *)
LEMMA LockCleared ==
  ASSUME LockInv, NEW step \in {"idle", "open", "wrong", "right"}, NEW except \in SUBSET LoginRequest,
         login' \in [LoginRequest -> {"idle", "open", "wrong", "right"}],
         InFlight(login', "wrong") = InFlight(login, "wrong"),
         InFlight(login', "open") = InFlight(login, "open"),
         wrongs' = InFlight(login, "wrong"),
         \/ failures' = 0 /\ unguarded' = FALSE /\ uncleared' = FALSE
         \/ uncleared' = TRUE /\ UNCHANGED <<failures, unguarded>>
  PROVE  LockInv'
<1>1. /\ failures \in Nat /\ wrongs \in Nat /\ MaxFailed \in Nat \ {0}
      /\ MostFailures = MaxFailed + Cardinality(LoginRequest) /\ failures <= MostFailures
      /\ login \in [LoginRequest -> {"idle", "open", "wrong", "right"}]
      /\ unguarded \in BOOLEAN /\ uncleared \in BOOLEAN
  BY LockoutConstants, InFlightBounds DEF LockInv, LockoutTypeOK, MostFailures
<1>2. /\ InFlight(login, "wrong") \in Nat /\ InFlight(login, "open") \in Nat
      /\ Cardinality(LoginRequest) \in Nat
      /\ InFlight(login, "wrong") + InFlight(login, "open") <= Cardinality(LoginRequest)
  BY <1>1, InFlightBounds
<1> DEFINE w == InFlight(login, "wrong")
           o == InFlight(login, "open")
           n == Cardinality(LoginRequest)
<1>3. failures' \in Nat /\ failures' <= MostFailures /\ wrongs' \in Nat /\ wrongs' <= MostFailures
      /\ wrongs' <= failures' + w /\ wrongs' + o <= MaxFailed - 1 + n
      /\ (uncleared' \/ failures' + w <= wrongs') /\ MostFailures \in Nat
  <2> HIDE DEF w, o, n
  <2>1. w \in Nat /\ o \in Nat /\ n \in Nat /\ w + o <= n /\ wrongs' = w
        /\ MostFailures = MaxFailed + n
    BY <1>1, <1>2 DEF w, o, n
  <2> QED
    BY <1>1, <2>1
<1>4. LockoutTypeOK'
  <2>1. failures' \in 0 .. MostFailures /\ wrongs' \in 0 .. MostFailures
    BY <1>3
  <2>2. unguarded' \in BOOLEAN /\ uncleared' \in BOOLEAN
    BY <1>1
  <2> QED
    BY <2>1, <2>2 DEF LockoutTypeOK, MostFailures
<1> QED
  BY <1>3, <1>4 DEF LockInv, InFlight, SignInsAt, MostFailures

(* Every action keeps the invariant of the lock.                           *)
LEMMA LockInvStep == LockInv /\ [LockoutNext]_lockoutVars => LockInv'
<1> SUFFICES ASSUME LockInv, [LockoutNext]_lockoutVars PROVE LockInv'
  OBVIOUS
<1> DEFINE Step == {"idle", "open", "wrong", "right"}
           n == Cardinality(LoginRequest)
           W(at) == InFlight(at, "wrong")
           O(at) == InFlight(at, "open")
<1>typed. /\ failures \in 0 .. MostFailures /\ wrongs \in 0 .. MostFailures
          /\ login \in [LoginRequest -> Step] /\ unguarded \in BOOLEAN /\ uncleared \in BOOLEAN
  BY DEF LockInv, LockoutTypeOK
<1>nat. /\ n \in Nat /\ MaxFailed \in Nat \ {0} /\ MostFailures = MaxFailed + n
        /\ W(login) \in Nat /\ O(login) \in Nat /\ W(login) + O(login) <= n
  BY <1>typed, LockoutConstants, InFlightBounds DEF MostFailures
<1>inv. /\ unguarded \/ wrongs <= failures + W(login)
        /\ unguarded \/ wrongs + O(login) <= MaxFailed - 1 + n
        /\ uncleared \/ wrongs = MostFailures \/ failures + W(login) <= wrongs
  BY DEF LockInv
<1>new. ASSUME login' \in [LoginRequest -> Step],
               failures' \in 0 .. MostFailures, wrongs' \in 0 .. MostFailures,
               unguarded' \in BOOLEAN, uncleared' \in BOOLEAN,
               unguarded' \/ wrongs' <= failures' + W(login'),
               unguarded' \/ wrongs' + O(login') <= MaxFailed - 1 + n,
               uncleared' \/ wrongs' = MostFailures \/ failures' + W(login') <= wrongs'
        PROVE  LockInv'
  BY <1>new DEF LockInv, LockoutTypeOK, InFlight, SignInsAt, MostFailures
<1>one. ASSUME NEW r \in LoginRequest, NEW step \in Step, login' = [login EXCEPT ![r] = step]
        PROVE  /\ login' \in [LoginRequest -> Step]
               /\ login[r] # "wrong" /\ step # "wrong" => W(login') = W(login)
               /\ login[r] = "wrong" /\ step # "wrong" => W(login') = W(login) - 1
               /\ login[r] # "wrong" /\ step = "wrong" => W(login') = W(login) + 1
               /\ login[r] # "open" /\ step # "open" => O(login') = O(login)
               /\ login[r] = "open" /\ step # "open" => O(login') = O(login) - 1
               /\ login[r] # "open" /\ step = "open" => O(login') = O(login) + 1
               /\ login[r] \notin {"wrong", "open"} => W(login) + O(login) + 1 <= n
  <2>1. /\ W([login EXCEPT ![r] = step]) =
             W(login) - (IF login[r] = "wrong" THEN 1 ELSE 0) + (IF step = "wrong" THEN 1 ELSE 0)
        /\ O([login EXCEPT ![r] = step]) =
             O(login) - (IF login[r] = "open" THEN 1 ELSE 0) + (IF step = "open" THEN 1 ELSE 0)
    BY <1>typed, InFlightChange
  <2>2. login[r] \notin {"wrong", "open"} => W(login) + O(login) + 1 <= n
    BY <1>typed, InFlightBounds
  <2>3. W(login) \in Nat /\ O(login) \in Nat
    BY <1>nat
  <2> HIDE DEF W, O, n
  <2> QED
    BY <1>typed, <1>one, <2>1, <2>2, <2>3
<1> HIDE DEF n, W, O, LockInv
<1>1. ASSUME NEW r \in LoginRequest, CheckLock(r) PROVE LockInv'
  <2>1. /\ login' = [login EXCEPT ![r] = "open"] /\ login[r] = "idle"
        /\ UNCHANGED <<failures, wrongs, uncleared>>
        /\ (failures < MaxFailed /\ unguarded' = unguarded) \/ unguarded' = TRUE
    BY <1>1, <1>typed, <1>nat DEF CheckLock, Locked
  <2>2. W(login') = W(login) /\ O(login') = O(login) + 1 /\ W(login) + O(login) + 1 <= n
    BY <1>one, <1>nat, <2>1
  <2>3. login' \in [LoginRequest -> Step]
    BY <1>one, <2>1
  <2>4. unguarded' \/ wrongs' <= failures' + W(login')
    BY <1>inv, <2>1, <2>2
  <2>5. unguarded' \/ wrongs' + O(login') <= MaxFailed - 1 + n
    BY <1>typed, <1>nat, <1>inv, <2>1, <2>2
  <2>6. uncleared' \/ wrongs' = MostFailures \/ failures' + W(login') <= wrongs'
    BY <1>inv, <2>1, <2>2
  <2> QED
    BY <1>typed, <1>new, <2>1, <2>3, <2>4, <2>5, <2>6
<1>2. ASSUME NEW r \in LoginRequest, NEW outcome \in {"wrong", "right"}, VerifyPassword(r, outcome)
      PROVE  LockInv'
  <2>1. /\ login' = [login EXCEPT ![r] = outcome] /\ login[r] = "open"
        /\ UNCHANGED <<failures, unguarded, uncleared>>
        /\ wrongs' = IF outcome = "wrong" THEN OneMore(wrongs) ELSE wrongs
    BY <1>2 DEF VerifyPassword
  <2>2. O(login') = O(login) - 1
        /\ W(login') = IF outcome = "wrong" THEN W(login) + 1 ELSE W(login)
    BY <1>one, <1>nat, <2>1
  <2>3. CASE outcome = "wrong" /\ wrongs = MostFailures
    <3>1. wrongs' = wrongs
      BY <2>1, <2>3 DEF OneMore
    <3> QED
      BY <1>typed, <1>nat, <1>inv, <1>new, <1>one, <2>1, <2>2, <2>3, <3>1
  <2>4. CASE outcome = "wrong" /\ wrongs # MostFailures
    <3>1. wrongs' = wrongs + 1
      BY <2>1, <2>4 DEF OneMore
    <3> QED
      BY <1>typed, <1>nat, <1>inv, <1>new, <1>one, <2>1, <2>2, <2>4, <3>1
  <2>5. CASE outcome = "right"
    BY <1>typed, <1>nat, <1>inv, <1>new, <1>one, <2>1, <2>2, <2>5
  <2> QED
    BY <2>3, <2>4, <2>5
<1>3. ASSUME NEW r \in LoginRequest, LoginBreaksOff(r) PROVE LockInv'
  <2>1. /\ login' = [login EXCEPT ![r] = "idle"] /\ login[r] = "open"
        /\ UNCHANGED <<failures, wrongs, unguarded, uncleared>>
    BY <1>3 DEF LoginBreaksOff
  <2>2. W(login') = W(login) /\ O(login') = O(login) - 1
    BY <1>one, <1>nat, <2>1
  <2> QED
    BY <1>typed, <1>nat, <1>inv, <1>new, <1>one, <2>1, <2>2
<1>4. ASSUME NEW r \in LoginRequest, RecordFailedLogin(r) PROVE LockInv'
  <2>1. /\ login' = [login EXCEPT ![r] = "idle"] /\ login[r] = "wrong"
        /\ UNCHANGED <<wrongs, uncleared>>
        /\ \/ failures' = OneMore(failures) /\ UNCHANGED unguarded
           \/ unguarded' = TRUE /\ UNCHANGED failures
    BY <1>4 DEF RecordFailedLogin
  <2>2. W(login') = W(login) - 1 /\ O(login') = O(login)
    BY <1>one, <1>nat, <2>1
  <2>3. CASE failures' = OneMore(failures) /\ UNCHANGED unguarded
    <3>1. /\ failures = MostFailures => failures' = failures
          /\ failures # MostFailures => failures' = failures + 1
      BY <2>3 DEF OneMore
    <3> QED
      BY <1>typed, <1>nat, <1>inv, <1>new, <1>one, <2>1, <2>2, <2>3, <3>1
  <2>4. CASE unguarded' = TRUE /\ UNCHANGED failures
    BY <1>typed, <1>nat, <1>inv, <1>new, <1>one, <2>1, <2>2, <2>4
  <2> QED
    BY <2>1, <2>3, <2>4
<1>5. ASSUME NEW r \in LoginRequest, LoginSucceeds(r) PROVE LockInv'
  <2>1. login' = [login EXCEPT ![r] = "idle"] /\ login[r] = "right" /\ ClearFailedLogin({r})
    BY <1>5 DEF LoginSucceeds
  <2>a. W(login') = W(login) /\ O(login') = O(login)
    BY <1>one, <1>nat, <2>1
  <2>b. Uncounted({r}) = W(login)
    BY <2>1, UncountedIs DEF W
  <2>2. W(login') = W(login) /\ O(login') = O(login) /\ wrongs' = W(login)
    BY <2>1, <2>a, <2>b DEF ClearFailedLogin
  <2>3. login' \in [LoginRequest -> Step]
    BY <1>one, <2>1
  <2> QED
    BY <2>1, <2>2, <2>3, LockCleared DEF ClearFailedLogin, W, O
<1>6. CASE ResetPassword \/ LockExpires
  <2>1. UNCHANGED login /\ wrongs' = W(login)
    BY <1>6, UncountedIs DEF ResetPassword, LockExpires, ClearFailedLogin, W
  <2>2. \/ failures' = 0 /\ unguarded' = FALSE /\ uncleared' = FALSE
        \/ uncleared' = TRUE /\ UNCHANGED <<failures, unguarded>>
    BY <1>6 DEF ResetPassword, LockExpires, ClearFailedLogin
  <2> QED
    BY <1>typed, <2>1, <2>2, LockCleared DEF W, O
<1>7. CASE LoginProcessEnds
  <2>1. /\ login' = [r \in LoginRequest |-> "idle"] /\ UNCHANGED <<failures, wrongs, uncleared>>
        /\ unguarded' = (unguarded \/ W(login) > 0)
    BY <1>7, UncountedIs DEF LoginProcessEnds, W
  <2>2. W(login') = 0 /\ O(login') = 0
    <3>1. SignInsAt(login', "wrong") = {} /\ SignInsAt(login', "open") = {}
      BY <2>1 DEF SignInsAt
    <3> QED
      BY <3>1, FS_EmptySet DEF W, O, InFlight
  <2>3. unguarded' \in BOOLEAN /\ (~unguarded' => ~unguarded /\ W(login) = 0)
    <3>1. CASE W(login) > 0
      BY <2>1, <3>1
    <3>2. CASE ~(W(login) > 0)
      <4>1. W(login) = 0
        BY <1>nat, <3>2
      <4>2. unguarded' = unguarded
        BY <2>1, <3>2, <1>typed
      <4> QED
        BY <1>typed, <4>1, <4>2
    <3> QED
      BY <3>1, <3>2
  <2>4. login' \in [LoginRequest -> Step]
    BY <2>1
  <2> QED
    BY <1>typed, <1>nat, <1>inv, <1>new, <2>1, <2>2, <2>3, <2>4
<1>8. CASE UNCHANGED lockoutVars
  BY <1>8, <1>typed, <1>inv, <1>new DEF lockoutVars
<1> QED
  BY <1>1, <1>2, <1>3, <1>4, <1>5, <1>6, <1>7, <1>8 DEF LockoutNext

(* For any limit and any number of sign-ins at a time: between two         *)
(* clearings no more wrong passwords are tried than the limit and the      *)
(* sign-ins past its check explain, and nobody is locked out by fewer,     *)
(* unless Redis did not answer.                                            *)
THEOREM LocksAreExplained == LockoutSpec => []LockIsExplained
<1>1. ASSUME LockInv PROVE LockIsExplained
  <2>1. /\ failures \in 0 .. MostFailures /\ wrongs \in 0 .. MostFailures
        /\ login \in [LoginRequest -> {"idle", "open", "wrong", "right"}]
    BY <1>1 DEF LockInv, LockoutTypeOK
  <2>2. /\ InFlight(login, "wrong") \in Nat /\ InFlight(login, "open") \in Nat
        /\ Cardinality(LoginRequest) \in Nat /\ MaxFailed \in Nat
        /\ MostFailures = MaxFailed + Cardinality(LoginRequest)
    BY <2>1, InFlightBounds, LockoutConstants DEF MostFailures
  <2> QED
    BY <1>1, <2>1, <2>2 DEF LockInv, LockIsExplained
<1> QED
  BY <1>1, LockInitInv, LockInvStep, PTL DEF LockoutSpec

-----------------------------------------------------------------------------
(* The rate limits                                                         *)

(* What a store has counted, and will count for the sign-ins under way,    *)
(* the requests of its window have asked for.                              *)
AskedFor(store, counted) ==
  counted + Cardinality(passing) <= claims[store] \/ claims[store] >= MostCounted

RateInv ==
  /\ RateTypeOK
  /\ AskedFor("redis", window) /\ AskedFor("memory", memory)
  /\ steady => through <= window /\ through <= LoginLimit
  /\ ~early

(* The counters are numbers up to the largest that is counted.             *)
LEMMA RateNumbers ==
  ASSUME RateTypeOK
  PROVE  /\ window \in Nat /\ memory \in Nat /\ through \in Nat
         /\ window <= MostCounted /\ memory <= MostCounted /\ through <= MostCounted
         /\ claims["redis"] \in Nat /\ claims["memory"] \in Nat
         /\ IsFiniteSet(passing) /\ Cardinality(passing) \in Nat
         /\ LoginLimit \in Nat \ {0} /\ ApiLimit \in Nat \ {0}
         /\ MostCounted = ApiLimit + LoginLimit + 1
         /\ steady \in BOOLEAN /\ early \in BOOLEAN
<1>1. IsFiniteSet(passing) /\ Cardinality(passing) \in Nat
  BY RateConstants, FS_Subset, FS_CardinalityType DEF RateTypeOK
<1>2. LoginLimit \in Nat \ {0} /\ ApiLimit \in Nat \ {0} /\ MostCounted = ApiLimit + LoginLimit + 1
  BY RateConstants DEF MostCounted
<1> QED
  BY <1>1, <1>2 DEF RateTypeOK, Store

(* An addition that stops at the largest number is exact below it.         *)
LEMMA PlusIs ==
  ASSUME NEW n \in Nat, NEW k \in Nat
  PROVE  /\ Plus(n, k) \in Nat /\ Plus(n, k) <= MostCounted
         /\ Plus(n, k) >= MostCounted \/ Plus(n, k) = n + k
<1>1. MostCounted \in Nat
  BY RateConstants DEF MostCounted
<1> QED
  BY <1>1 DEF Plus

(* A count by either store: the claims cover it, and explain a refusal.    *)
LEMMA Counts ==
  ASSUME RateInv, NEW limit \in {ApiLimit, LoginLimit}, NEW allowed \in BOOLEAN, NEW asks \in {0, 1, 2},
         Count(limit, allowed, asks), passing' \in SUBSET SignIn,
         Cardinality(passing') + 1 <= Cardinality(passing) + asks
  PROVE  /\ window' \in 0 .. MostCounted /\ memory' \in 0 .. MostCounted
         /\ claims' \in [Store -> Nat] /\ steady' \in BOOLEAN /\ early' = FALSE
         /\ AskedFor("redis", window)' /\ AskedFor("memory", memory)'
         /\ window' >= window
         /\ steady' => steady /\ window' = Plus(window, 1) /\ (allowed => window < limit)
<1>1. RateTypeOK /\ ~early /\ AskedFor("redis", window) /\ AskedFor("memory", memory)
  BY DEF RateInv
<1>2. /\ window \in Nat /\ memory \in Nat /\ claims["redis"] \in Nat /\ claims["memory"] \in Nat
      /\ window <= MostCounted /\ memory <= MostCounted /\ Cardinality(passing) \in Nat
      /\ LoginLimit \in Nat /\ ApiLimit \in Nat /\ MostCounted = ApiLimit + LoginLimit + 1
      /\ steady \in BOOLEAN /\ limit \in Nat /\ limit < MostCounted /\ MostCounted \in Nat
  BY <1>1, RateNumbers
<1>early. early = FALSE
  BY <1>1, RateNumbers
<1>3. Cardinality(passing') \in Nat
  BY RateConstants, FS_Subset, FS_CardinalityType
<1>4. /\ claims' \in [Store -> Nat]
      /\ claims'["redis"] = Plus(claims["redis"], asks)
      /\ claims'["memory"] = Plus(claims["memory"], asks)
  <2>1. claims' = [s \in Store |-> Plus(claims[s], asks)] /\ asks \in Nat
    BY DEF Count
  <2>2. \A s \in Store : Plus(claims[s], asks) \in Nat
    BY <1>1, <2>1, PlusIs DEF RateTypeOK
  <2> QED
    BY <2>1, <2>2 DEF Store
<1>5. /\ claims'["redis"] \in Nat /\ claims'["memory"] \in Nat
      /\ claims'["redis"] >= MostCounted \/ claims'["redis"] = claims["redis"] + asks
      /\ claims'["memory"] >= MostCounted \/ claims'["memory"] = claims["memory"] + asks
  <2>1. asks \in Nat
    OBVIOUS
  <2>2. /\ Plus(claims["redis"], asks) \in Nat /\ Plus(claims["memory"], asks) \in Nat
        /\ Plus(claims["redis"], asks) >= MostCounted \/ Plus(claims["redis"], asks) = claims["redis"] + asks
        /\ Plus(claims["memory"], asks) >= MostCounted \/ Plus(claims["memory"], asks) = claims["memory"] + asks
    BY <1>2, <2>1, PlusIs
  <2> QED
    BY <1>4, <2>2
<1>6. /\ claims["redis"] >= MostCounted => claims'["redis"] >= MostCounted
      /\ claims["memory"] >= MostCounted => claims'["memory"] >= MostCounted
  BY <1>2, <1>5
<1>7. /\ window + Cardinality(passing) <= claims["redis"] \/ claims["redis"] >= MostCounted
      /\ memory + Cardinality(passing) <= claims["memory"] \/ claims["memory"] >= MostCounted
  BY <1>1 DEF AskedFor
<1>8. /\ claims'["redis"] >= MostCounted \/ window + 1 + Cardinality(passing') <= claims'["redis"]
      /\ claims'["memory"] >= MostCounted \/ memory + 1 + Cardinality(passing') <= claims'["memory"]
  BY <1>2, <1>3, <1>5, <1>6, <1>7
<1>9. /\ Plus(window, 1) \in Nat /\ Plus(window, 1) <= MostCounted
      /\ Plus(window, 1) >= window /\ Plus(window, 1) <= window + 1
  BY <1>2, PlusIs DEF Plus
<1>10. /\ Plus(memory, 1) \in Nat /\ Plus(memory, 1) <= MostCounted /\ Plus(memory, 1) <= memory + 1
  BY <1>2, PlusIs DEF Plus
<1>11. /\ window' \in {window, Plus(window, 1)} /\ memory' \in {memory, Plus(memory, 1)}
       /\ steady' \in {steady, FALSE}
       /\ steady' => window' = Plus(window, 1) /\ (allowed => window < limit)
  BY <1>2 DEF Count, CountInRedis, CountInMemory, Within
<1>12. AskedFor("redis", window)' /\ AskedFor("memory", memory)'
  <2>1. window' <= window + 1 /\ window' \in Nat /\ memory' <= memory + 1 /\ memory' \in Nat
    BY <1>2, <1>9, <1>10, <1>11
  <2>2. claims'["redis"] >= MostCounted \/ window' + Cardinality(passing') <= claims'["redis"]
    BY <1>2, <1>3, <1>5, <1>8, <2>1
  <2>3. claims'["memory"] >= MostCounted \/ memory' + Cardinality(passing') <= claims'["memory"]
    BY <1>2, <1>3, <1>5, <1>8, <2>1
  <2> QED
    BY <2>2, <2>3 DEF AskedFor, MostCounted
<1>13. early' = FALSE
  <2>1. CASE CountInRedis(limit, allowed) /\ early' = (early \/ (~allowed /\ claims'["redis"] <= limit))
    <3>1. allowed = (window < limit)
      BY <2>1 DEF CountInRedis, Within
    <3>2. CASE window < limit
      BY <1>1, <1>early, <2>1, <3>1, <3>2
    <3>3. CASE ~(window < limit)
      <4>1. ~(claims'["redis"] <= limit)
        BY <1>2, <1>3, <1>5, <1>8, <3>3
      <4> QED
        BY <1>1, <1>early, <2>1, <4>1
    <3> QED
      BY <3>2, <3>3
  <2>2. CASE CountInMemory(limit, allowed) /\ early' = (early \/ (~allowed /\ claims'["memory"] <= limit))
    <3>1. allowed = (memory < limit)
      BY <2>2 DEF CountInMemory, Within
    <3>2. CASE memory < limit
      BY <1>1, <1>early, <2>2, <3>1, <3>2
    <3>3. CASE ~(memory < limit)
      <4>1. ~(claims'["memory"] <= limit)
        BY <1>2, <1>3, <1>5, <1>8, <3>3
      <4> QED
        BY <1>1, <1>early, <2>2, <4>1
    <3> QED
      BY <3>2, <3>3
  <2> QED
    BY <2>1, <2>2 DEF Count
<1>14. window' \in 0 .. MostCounted /\ memory' \in 0 .. MostCounted /\ window' >= window
  BY <1>2, <1>9, <1>10, <1>11
<1>15. steady' \in BOOLEAN /\ (steady' => steady)
  <2>1. CASE steady' = steady
    BY <1>2, <2>1
  <2>2. CASE steady' = FALSE
    BY <2>2
  <2> QED
    BY <1>11, <2>1, <2>2
<1> QED
  BY <1>4, <1>11, <1>12, <1>13, <1>14, <1>15

(* At first nothing was let through.                                       *)
LEMMA RateInitInv == RateInit => RateInv
<1> SUFFICES ASSUME RateInit PROVE RateInv
  OBVIOUS
<1>1. MostCounted \in Nat /\ LoginLimit \in Nat
  BY RateConstants DEF MostCounted
<1>2. RateTypeOK
  <2>1. 0 \in 0 .. MostCounted /\ claims \in [Store -> Nat]
    BY <1>1 DEF RateInit
  <2>2. {steady, early} \subseteq BOOLEAN
    BY DEF RateInit
  <2> QED
    BY <2>1, <2>2 DEF RateInit, RateTypeOK
<1>3. Cardinality(passing) = 0
  BY FS_EmptySet DEF RateInit
<1>4. AskedFor("redis", window) /\ AskedFor("memory", memory)
  BY <1>3 DEF RateInit, AskedFor, Store
<1> QED
  BY <1>1, <1>2, <1>4 DEF RateInit, RateInv

(* Every action keeps the invariant of the limits.                         *)
LEMMA RateInvStep == RateInv /\ [RateNext]_rateVars => RateInv'
<1> SUFFICES ASSUME RateInv, [RateNext]_rateVars PROVE RateInv'
  OBVIOUS
<1>1. /\ RateTypeOK /\ ~early /\ AskedFor("redis", window) /\ AskedFor("memory", memory)
      /\ steady => through <= window /\ through <= LoginLimit
  BY DEF RateInv
<1>2. /\ window \in Nat /\ memory \in Nat /\ claims["redis"] \in Nat /\ claims["memory"] \in Nat
      /\ window <= MostCounted /\ memory <= MostCounted
      /\ Cardinality(passing) \in Nat /\ IsFiniteSet(passing)
      /\ LoginLimit \in Nat /\ ApiLimit \in Nat /\ MostCounted = ApiLimit + LoginLimit + 1
      /\ steady \in BOOLEAN /\ through \in Nat /\ through <= MostCounted
      /\ through \in 0 .. MostCounted /\ MostCounted \in Nat
  BY <1>1, RateNumbers DEF RateTypeOK
<1>3. ASSUME NEW allowed \in BOOLEAN, OtherRequest(allowed) PROVE RateInv'
  <2>1. Count(ApiLimit, allowed, 1) /\ UNCHANGED <<passing, through>> /\ passing \in SUBSET SignIn
    BY <1>1, <1>3 DEF OtherRequest, RateTypeOK
  <2>2. /\ window' \in 0 .. MostCounted /\ memory' \in 0 .. MostCounted
        /\ claims' \in [Store -> Nat] /\ steady' \in BOOLEAN /\ early' = FALSE
        /\ AskedFor("redis", window)' /\ AskedFor("memory", memory)'
        /\ window' >= window /\ (steady' => steady)
    <3>1. Cardinality(passing') + 1 <= Cardinality(passing) + 1 /\ passing' \in SUBSET SignIn
      BY <1>2, <2>1
    <3> QED
      BY <2>1, <3>1, Counts
  <2>3. RateTypeOK'
    BY <1>2, <2>1, <2>2 DEF RateTypeOK, MostCounted, Count
  <2>4. steady' => through' <= window' /\ through' <= LoginLimit
    BY <1>1, <1>2, <2>1, <2>2
  <2> QED
    BY <2>2, <2>3, <2>4 DEF RateInv
<1>4. ASSUME NEW r \in SignIn, NEW allowed \in BOOLEAN, MeetApiLimit(r, allowed) PROVE RateInv'
  <2>1. /\ Count(ApiLimit, allowed, 2) /\ UNCHANGED through /\ passing \in SUBSET SignIn
        /\ passing' \in {passing, passing \cup {r}} /\ r \notin passing
    BY <1>1, <1>4 DEF MeetApiLimit, RateTypeOK
  <2>2. Cardinality(passing \cup {r}) = Cardinality(passing) + 1
    BY <1>2, <2>1, FS_AddElement
  <2>3. Cardinality(passing') + 1 <= Cardinality(passing) + 2 /\ passing' \in SUBSET SignIn
    BY <1>2, <2>1, <2>2
  <2>4. /\ window' \in 0 .. MostCounted /\ memory' \in 0 .. MostCounted
        /\ claims' \in [Store -> Nat] /\ steady' \in BOOLEAN /\ early' = FALSE
        /\ AskedFor("redis", window)' /\ AskedFor("memory", memory)'
        /\ window' >= window /\ (steady' => steady)
    BY <2>1, <2>3, Counts
  <2>5. RateTypeOK'
    <3>1. {steady', early'} \subseteq BOOLEAN
      BY <2>4
    <3> QED
      BY <1>2, <2>1, <2>3, <2>4, <3>1 DEF RateTypeOK, MostCounted
  <2>6. steady' => through' <= window' /\ through' <= LoginLimit
    BY <1>1, <1>2, <2>1, <2>4
  <2> QED
    BY <2>4, <2>5, <2>6 DEF RateInv
<1>5. ASSUME NEW r \in SignIn, NEW allowed \in BOOLEAN, MeetLoginLimit(r, allowed) PROVE RateInv'
  <2>1. /\ Count(LoginLimit, allowed, 0) /\ r \in passing /\ passing \in SUBSET SignIn
        /\ passing' = passing \ {r} /\ through' = IF allowed THEN Plus(through, 1) ELSE through
    BY <1>1, <1>5 DEF MeetLoginLimit, RateTypeOK
  <2>2. Cardinality(passing \ {r}) = Cardinality(passing) - 1
    BY <1>2, <2>1, FS_RemoveElement
  <2>3. Cardinality(passing') + 1 <= Cardinality(passing) + 0 /\ passing' \in SUBSET SignIn
    BY <1>2, <2>1, <2>2
  <2>4. /\ window' \in 0 .. MostCounted /\ memory' \in 0 .. MostCounted
        /\ claims' \in [Store -> Nat] /\ steady' \in BOOLEAN /\ early' = FALSE
        /\ AskedFor("redis", window)' /\ AskedFor("memory", memory)'
        /\ window' >= window
        /\ steady' => steady /\ window' = Plus(window, 1) /\ (allowed => window < LoginLimit)
    BY <2>1, <2>3, Counts
  <2>5. through' \in 0 .. MostCounted
    <3>1. Plus(through, 1) \in Nat /\ Plus(through, 1) <= MostCounted
      BY <1>2, PlusIs
    <3>2. Plus(through, 1) \in 0 .. MostCounted
      BY <1>2, <3>1
    <3> QED
      BY <1>2, <2>1, <3>2
  <2>6. RateTypeOK'
    <3>1. {steady', early'} \subseteq BOOLEAN
      BY <2>4
    <3> QED
      BY <2>1, <2>3, <2>4, <2>5, <3>1 DEF RateTypeOK, MostCounted
  <2>7. steady' => through' <= window' /\ through' <= LoginLimit
    <3> SUFFICES ASSUME steady' PROVE through' <= window' /\ through' <= LoginLimit
      OBVIOUS
    <3>1. CASE allowed
      <4>1. window < LoginLimit /\ window' = Plus(window, 1) /\ through <= window
        BY <1>1, <2>4, <3>1
      <4>2. Plus(window, 1) = window + 1 /\ Plus(through, 1) = through + 1
        BY <1>2, <4>1 DEF Plus
      <4> QED
        BY <1>2, <2>1, <3>1, <4>1, <4>2
    <3>2. CASE ~allowed
      BY <1>1, <1>2, <2>1, <2>4, <3>2
    <3> QED
      BY <3>1, <3>2
  <2> QED
    BY <2>4, <2>6, <2>7 DEF RateInv
<1>6. CASE WindowEnds
  <2>1. /\ window' = 0 /\ through' = 0 /\ steady' = TRUE /\ UNCHANGED <<memory, passing, early>>
        /\ claims' \in [Store -> Nat]
        /\ claims'["redis"] = Cardinality(passing) /\ claims'["memory"] = claims["memory"]
    BY <1>1, <1>2, <1>6 DEF WindowEnds, RateTypeOK, Store
  <2>2. RateTypeOK'
    BY <1>1, <1>2, <2>1 DEF RateTypeOK, MostCounted
  <2>3. AskedFor("redis", window)' /\ AskedFor("memory", memory)'
    BY <1>1, <1>2, <2>1 DEF AskedFor, MostCounted
  <2> QED
    BY <1>1, <1>2, <2>1, <2>2, <2>3 DEF RateInv
<1>7. CASE MemoryWindowEnds
  <2>1. /\ memory' = 0 /\ UNCHANGED <<window, passing, steady, through, early>>
        /\ claims' \in [Store -> Nat]
        /\ claims'["memory"] = Cardinality(passing) /\ claims'["redis"] = claims["redis"]
    BY <1>1, <1>2, <1>7 DEF MemoryWindowEnds, RateTypeOK, Store
  <2>2. RateTypeOK'
    BY <1>1, <1>2, <2>1 DEF RateTypeOK, MostCounted
  <2>3. AskedFor("redis", window)' /\ AskedFor("memory", memory)'
    BY <1>1, <1>2, <2>1 DEF AskedFor, MostCounted
  <2> QED
    BY <1>1, <1>2, <2>1, <2>2, <2>3 DEF RateInv
<1>8. CASE LimiterRestarts
  <2>1. /\ memory' = 0 /\ passing' = {} /\ UNCHANGED <<window, steady, through, early>>
        /\ claims' \in [Store -> Nat]
        /\ claims'["memory"] = 0 /\ claims'["redis"] = claims["redis"]
    BY <1>1, <1>2, <1>8 DEF LimiterRestarts, RateTypeOK, Store
  <2>2. RateTypeOK'
    BY <1>1, <1>2, <2>1 DEF RateTypeOK, MostCounted
  <2>3. Cardinality(passing') = 0
    BY <2>1, FS_EmptySet
  <2>4. AskedFor("redis", window)' /\ AskedFor("memory", memory)'
    <3>1. window' + 0 <= claims'["redis"] \/ claims'["redis"] >= MostCounted
      BY <1>1, <1>2, <2>1 DEF AskedFor
    <3>2. memory' + 0 <= claims'["memory"]
      BY <2>1
    <3> QED
      BY <2>3, <3>1, <3>2 DEF AskedFor, MostCounted
  <2> QED
    BY <1>1, <1>2, <2>1, <2>2, <2>4 DEF RateInv
<1>9. CASE UNCHANGED rateVars
  BY <1>9 DEF rateVars, RateInv, RateTypeOK, AskedFor, MostCounted
<1> HIDE DEF RateInv
<1> QED
  BY <1>3, <1>4, <1>5, <1>6, <1>7, <1>8, <1>9 DEF RateNext

(* For any two limits and any number of sign-ins under way: while Redis    *)
(* answers no more get through in a window than the limit, though each is  *)
(* counted by two limiters, and none is refused before its address has     *)
(* asked for too much.                                                     *)
THEOREM SignInsAreLimitedByBoth == RateSpec => []SignInsAreLimited
<1>1. RateInv => SignInsAreLimited
  BY DEF RateInv, SignInsAreLimited
<1> QED
  BY <1>1, RateInitInv, RateInvStep, PTL DEF RateSpec
=============================================================================
