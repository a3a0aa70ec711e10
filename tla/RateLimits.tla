----------------------------- MODULE RateLimits -----------------------------
(***************************************************************************)
(* The rate limits of one client address.  The limiter of the whole API    *)
(* and the one of the sign-in routes are built on one store and count      *)
(* under one key, the address: a sign-in is counted by both, and every     *)
(* other request uses up what the sign-ins have.  The counter is in Redis; *)
(* when Redis does not answer, the process counts for itself.              *)
(***************************************************************************)
EXTENDS Naturals, FiniteSets

CONSTANTS
  SignIn,       \* sign-ins under way at a time
  LoginLimit,   \* DefaultLoginRateLimitPerMinute
  ApiLimit      \* API_RATE_LIMIT_PER_MINUTE

ASSUME RateConstants ==
  /\ LoginLimit \in Nat \ {0}
  /\ ApiLimit \in Nat \ {0}
  /\ IsFiniteSet(SignIn)

VARIABLES
  window,    \* the key in Redis, 0 without one
  memory,    \* the entry of the MemoryRateLimitStore
  passing,   \* sign-ins between the two limiters
  steady,    \* Redis answered every call of its window, for the properties
  claims,     \* for each store, counts that the requests of its window ask for
  through,   \* sign-ins let through in the window of Redis
  early      \* whether one was refused that nothing explains

rateVars == <<window, memory, passing, steady, claims, through, early>>

Store == {"redis", "memory"}

(* Bound: no count above it makes a difference.                            *)
MostCounted == ApiLimit + LoginLimit + 1

Plus(n, k) == IF n + k > MostCounted THEN MostCounted ELSE n + k

RateTypeOK ==
  /\ window \in 0 .. MostCounted
  /\ memory \in 0 .. MostCounted
  /\ passing \in SUBSET SignIn
  /\ {steady, early} \subseteq BOOLEAN
  /\ claims \in [Store -> Nat]
  /\ through \in 0 .. MostCounted

RateInit ==
  /\ window = 0 /\ memory = 0 /\ passing = {}
  /\ steady = TRUE /\ claims = [s \in Store |-> 0] /\ through = 0 /\ early = FALSE

-----------------------------------------------------------------------------
(* Mutant: the limit itself is one too many. *)
Within_Below(count, limit) == count + 1 < limit

(* Is the request after so many others of the window allowed?              *)
Within(count, limit) == count < limit

(* The script of RedisRateLimitStore counts first and compares then, in    *)
(* one step.                                                               *)
CountInRedis(limit, allowed) ==
  /\ allowed = Within(window, limit)
  /\ window' = Plus(window, 1)
  /\ UNCHANGED <<memory, steady>>

(* MemoryRateLimitStore.Allow does not count what it refuses.  Redis may   *)
(* have run the script all the same.                                       *)
CountInMemory(limit, allowed) ==
  /\ allowed = Within(memory, limit)
  /\ memory' = IF allowed THEN Plus(memory, 1) ELSE memory
  /\ window' \in {window, Plus(window, 1)}
  /\ steady' = FALSE

(* A refusal is explained if the store was asked for more than its limit.   *)
Count(limit, allowed, asks) ==
  /\ claims' = [s \in Store |-> Plus(claims[s], asks)]
  /\ \/ /\ CountInRedis(limit, allowed)
        /\ early' = (early \/ (~allowed /\ claims'["redis"] <= limit))
     \/ /\ CountInMemory(limit, allowed)
        /\ early' = (early \/ (~allowed /\ claims'["memory"] <= limit))

(* Any other request of the address: the limiter of the API.               *)
OtherRequest(allowed) ==
  /\ Count(ApiLimit, allowed, 1)
  /\ UNCHANGED <<passing, through>>

(* A sign-in meets it first,                                               *)
MeetApiLimit(r, allowed) ==
  /\ r \notin passing
  /\ Count(ApiLimit, allowed, 2)
  /\ passing' = IF allowed THEN passing \cup {r} ELSE passing
  /\ UNCHANGED through

(* and then the limiter of its route.                                      *)
MeetLoginLimit(r, allowed) ==
  /\ r \in passing
  /\ Count(LoginLimit, allowed, 0)
  /\ passing' = passing \ {r}
  /\ through' = IF allowed THEN Plus(through, 1) ELSE through

(* The key expires; what a sign-in under way will ask for is left.         *)
WindowEnds ==
  /\ window' = 0 /\ through' = 0 /\ steady' = TRUE
  /\ claims' = [claims EXCEPT !["redis"] = Cardinality(passing)]
  /\ UNCHANGED <<memory, passing, early>>

(* The entry's time is over, and the next request begins another.          *)
MemoryWindowEnds ==
  /\ memory' = 0
  /\ claims' = [claims EXCEPT !["memory"] = Cardinality(passing)]
  /\ UNCHANGED <<window, passing, steady, through, early>>

(* The process starts again: its entries and its requests are gone.        *)
LimiterRestarts ==
  /\ memory' = 0 /\ passing' = {}
  /\ claims' = [claims EXCEPT !["memory"] = 0]
  /\ UNCHANGED <<window, steady, through, early>>

RateNext ==
  \/ \E allowed \in BOOLEAN : OtherRequest(allowed)
  \/ \E r \in SignIn, allowed \in BOOLEAN : MeetApiLimit(r, allowed) \/ MeetLoginLimit(r, allowed)
  \/ WindowEnds \/ MemoryWindowEnds \/ LimiterRestarts

RateSpec == RateInit /\ [][RateNext]_rateVars

-----------------------------------------------------------------------------
(* Properties                                                              *)

(* While Redis answers, no more sign-ins than the limit get through in a   *)
(* window, two limiters and a window that ends between them or not; and    *)
(* none is refused before the requests of its address, whatever they are,  *)
(* with each sign-in counted twice, are more than the limit.               *)
SignInsAreLimited ==
  /\ steady => through <= LoginLimit
  /\ ~early
=============================================================================
