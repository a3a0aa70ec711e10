------------------------------ MODULE ConnPool ------------------------------
(***************************************************************************)
(* The connections of one process and the transactions that want them.     *)
(* WithTenantTx, WithTx and BeginTx take one connection and give it back   *)
(* at commit or by the deferred rollback; two of the transactions ask for  *)
(* a second one while they hold the first.  A connection that comes back   *)
(* goes to any one of those who wait, and a wait ends with the request.    *)
(***************************************************************************)
EXTENDS Naturals, FiniteSets

CONSTANTS
  Caller,     \* goroutines that use the database
  MaxOpen     \* DBMaxOpenConns

ASSUME PoolConstants == MaxOpen \in Nat \ {0} /\ IsFiniteSet(Caller)

VARIABLES
  free,      \* connections that are idle or not yet opened
  call,      \* where each caller is
  nests      \* callers whose transaction asks for a second connection

poolVars == <<free, call, nests>>

CallStep == {"idle", "waits", "holds", "waitsInner", "holdsInner"}

PoolTypeOK ==
  /\ free \in 0 .. MaxOpen
  /\ call \in [Caller -> CallStep]
  /\ nests \in SUBSET Caller

PoolInit ==
  /\ free = MaxOpen
  /\ call = [c \in Caller |-> "idle"]
  /\ nests = {}

-----------------------------------------------------------------------------
(* database/sql                                                            *)

Waiting(at) == {c \in Caller : at[c] \in {"waits", "waitsInner"}}

AfterWait(step) == IF step = "waits" THEN "holds" ELSE "holdsInner"

(* A caller asks: it gets a connection or waits.                           *)
Ask(c, wait) ==
  \/ /\ free > 0
     /\ free' = free - 1
     /\ call' = [call EXCEPT ![c] = AfterWait(wait)]
  \/ /\ free = 0
     /\ call' = [call EXCEPT ![c] = wait]
     /\ UNCHANGED free

(* The connections come back and the caller goes on at next; each goes to  *)
(* one who waits, if there is one.                                         *)
GiveBack(c, connections, next) ==
  LET at     == [call EXCEPT ![c] = next]
      others == Waiting(at)
      given  == IF Cardinality(others) < connections THEN Cardinality(others) ELSE connections
  IN  \E served \in {S \in SUBSET others : Cardinality(S) = given} :
        /\ call' = [d \in Caller |-> IF d \in served THEN AfterWait(at[d]) ELSE at[d]]
        /\ free' = free + connections - given

-----------------------------------------------------------------------------
(* The transactions                                                        *)

BeginTx(c, inner) ==
  /\ call[c] = "idle"
  /\ Ask(c, "waits")
  /\ nests' = IF inner THEN nests \cup {c} ELSE nests

(* GetAttachmentByID within the transaction of SoftDeleteAttachment, and   *)
(* the last resort of the look-up of permissions at a sign-in.             *)
BeginInner(c) ==
  /\ call[c] = "holds" /\ c \in nests
  /\ Ask(c, "waitsInner")
  /\ UNCHANGED nests

(* What a caller holds.                                                    *)
Held(step) ==
  CASE step \in {"idle", "waits"}       -> 0
    [] step \in {"holds", "waitsInner"} -> 1
    [] step = "holdsInner"              -> 2

(* The inner transaction ends, well or not, and the outer one goes on.     *)
EndInner(c) ==
  /\ call[c] = "holdsInner"
  /\ GiveBack(c, 1, "holds")
  /\ nests' = nests \ {c}

(* Commit, or the deferred rollback after an error of a statement: also of *)
(* the one that sets the search path, before the inner one begins.         *)
EndTx(c) ==
  /\ call[c] = "holds"
  /\ GiveBack(c, 1, "idle")
  /\ nests' = nests \ {c}

(* Mutant: an error of the inner transaction leaves the outer one open. *)
RequestTimesOut_OuterOpen(c) ==
  /\ call[c] # "idle"
  /\ GiveBack(c, Cardinality({call[c]} \cap {"holds", "holdsInner"}), "idle")
  /\ nests' = nests \ {c}

(* The request's thirty seconds are over, its client has gone, or the      *)
(* handler panics: every wait and statement ends with an error, and what   *)
(* the caller holds is rolled back.                                        *)
RequestTimesOut(c) ==
  /\ call[c] # "idle"
  /\ GiveBack(c, Held(call[c]), "idle")
  /\ nests' = nests \ {c}

PoolNext ==
  \E c \in Caller :
    \/ BeginTx(c, TRUE) \/ BeginTx(c, FALSE)
    \/ BeginInner(c) \/ EndInner(c) \/ EndTx(c)
    \/ RequestTimesOut(c)

PoolSpec == PoolInit /\ [][PoolNext]_poolVars

-----------------------------------------------------------------------------
(* Properties                                                              *)

(* Whatever fails and wherever a request ends, no connection is lost and   *)
(* none is free while somebody waits; and nobody can go on but by a        *)
(* timeout only if every connection is held by one who waits for a second: *)
(* as many deletions and sign-ins as there are connections, and no fewer.  *)
PoolIsSound ==
  LET holding(step) == {c \in Caller : call[c] \in step} IN
  /\ free + Cardinality(holding({"holds", "waitsInner", "holdsInner"}))
          + Cardinality(holding({"holdsInner"})) = MaxOpen
  /\ free > 0 => Waiting(call) = {}
  /\ (Waiting(call) # {} /\ holding({"holds", "holdsInner"}) = {})
       => Cardinality(nests) >= MaxOpen /\ Cardinality(holding({"waitsInner"})) = MaxOpen
=============================================================================
