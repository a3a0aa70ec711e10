---------------------------- MODULE LoginLockout ----------------------------
(***************************************************************************)
(* The lock of an account after failed sign-ins.  A sign-in asks Redis     *)
(* whether the account is locked, verifies the password, and only then     *)
(* counts the failure or clears the count; the errors of Redis are         *)
(* dropped, so that sign-ins go on without it.  One account.               *)
(***************************************************************************)
EXTENDS Naturals, FiniteSets

CONSTANTS
  LoginRequest,   \* sign-ins to the account that are handled at a time
  MaxFailed       \* maxFailedAttempts

ASSUME LockoutConstants == MaxFailed \in Nat \ {0} /\ IsFiniteSet(LoginRequest)

VARIABLES
  failures,    \* the counter in Redis, 0 without the key
  login,       \* where each sign-in is
  wrongs,      \* wrong passwords since the count was cleared, for the properties
  unguarded,   \* since then Redis did not answer a check or a count, likewise
  uncleared    \* a right password did not clear the count, likewise

lockoutVars == <<failures, login, wrongs, unguarded, uncleared>>

(* Bound: no count above it makes a difference.                            *)
MostFailures == MaxFailed + Cardinality(LoginRequest)

OneMore(n) == IF n = MostFailures THEN n ELSE n + 1

LockoutTypeOK ==
  /\ failures \in 0 .. MostFailures
  /\ login \in [LoginRequest -> {"idle", "open", "wrong", "right"}]
  /\ wrongs \in 0 .. MostFailures
  /\ {unguarded, uncleared} \subseteq BOOLEAN

LockoutInit ==
  /\ failures = 0
  /\ login = [r \in LoginRequest |-> "idle"]
  /\ wrongs = 0 /\ unguarded = FALSE /\ uncleared = FALSE

(* The failures that are still to be counted.                              *)
Uncounted(except) == Cardinality({r \in LoginRequest \ except : login[r] = "wrong"})

-----------------------------------------------------------------------------
Locked == failures >= MaxFailed

(* IsAccountLocked, at the start of Login; without an answer of Redis the  *)
(* sign-in goes on.                                                        *)
CheckLock(r) ==
  /\ login[r] = "idle"
  /\ \/ ~Locked /\ UNCHANGED unguarded
     \/ unguarded' = TRUE
  /\ login' = [login EXCEPT ![r] = "open"]
  /\ UNCHANGED <<failures, wrongs, uncleared>>

(* No such user and an inactive user count as a wrong password does.       *)
VerifyPassword(r, outcome) ==
  /\ login[r] = "open"
  /\ login' = [login EXCEPT ![r] = outcome]
  /\ wrongs' = IF outcome = "wrong" THEN OneMore(wrongs) ELSE wrongs
  /\ UNCHANGED <<failures, unguarded, uncleared>>

(* Login ends with an error of the database, and nothing is counted.       *)
LoginBreaksOff(r) ==
  /\ login[r] = "open"
  /\ login' = [login EXCEPT ![r] = "idle"]
  /\ UNCHANGED <<failures, wrongs, unguarded, uncleared>>

(* RecordFailedLogin                                                       *)
RecordFailedLogin(r) ==
  /\ login[r] = "wrong"
  /\ \/ failures' = OneMore(failures) /\ UNCHANGED unguarded
     \/ unguarded' = TRUE /\ UNCHANGED failures
  /\ login' = [login EXCEPT ![r] = "idle"]
  /\ UNCHANGED <<wrongs, uncleared>>

(* ClearFailedLogin: the count begins again, for those under way too.      *)
ClearFailedLogin(except) ==
  /\ \/ failures' = 0 /\ unguarded' = FALSE /\ uncleared' = FALSE
     \/ uncleared' = TRUE /\ UNCHANGED <<failures, unguarded>>
  /\ wrongs' = Uncounted(except)

LoginSucceeds(r) ==
  /\ login[r] = "right"
  /\ ClearFailedLogin({r})
  /\ login' = [login EXCEPT ![r] = "idle"]

(* ResetPassword with the code that was mailed.                            *)
ResetPassword == ClearFailedLogin({}) /\ UNCHANGED login

(* A quarter of an hour after the last failure that was counted.           *)
LockExpires ==
  /\ failures > 0
  /\ failures' = 0 /\ unguarded' = FALSE /\ uncleared' = FALSE
  /\ wrongs' = Uncounted({})
  /\ UNCHANGED login

(* The process ends: what was not counted will not be.                     *)
LoginProcessEnds ==
  /\ login' = [r \in LoginRequest |-> "idle"]
  /\ unguarded' = (unguarded \/ Uncounted({}) > 0)
  /\ UNCHANGED <<failures, wrongs, uncleared>>

LockoutNext ==
  \/ \E r \in LoginRequest : CheckLock(r) \/ RecordFailedLogin(r) \/ LoginSucceeds(r)
                             \/ LoginBreaksOff(r)
  \/ \E r \in LoginRequest, outcome \in {"wrong", "right"} : VerifyPassword(r, outcome)
  \/ ResetPassword \/ LockExpires \/ LoginProcessEnds

LockoutSpec == LockoutInit /\ [][LockoutNext]_lockoutVars

-----------------------------------------------------------------------------
(* Properties                                                              *)

(* Between two clearings no more wrong passwords are tried than the limit  *)
(* allows and one more for each other sign-in that had passed the check    *)
(* before the last of them was counted, unless Redis did not answer; and   *)
(* nobody is locked out by fewer than that, unless Redis did not answer a  *)
(* right password.                                                         *)
LockIsExplained ==
  /\ unguarded \/ wrongs <= MaxFailed - 1 + Cardinality(LoginRequest)
  /\ uncleared \/ failures <= wrongs
=============================================================================
