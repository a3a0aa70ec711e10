------------------------------- MODULE WaChat -------------------------------
(***************************************************************************)
(* The dialogue of ProcessAIChat that spans messages: a scanned receipt    *)
(* waits in the memory of the process that read it until the same chat     *)
(* answers yes or no, or five minutes pass.  The lock is held for the      *)
(* look-up and again for the removal, not between them, and messages of    *)
(* one chat are handled by several goroutines and, when the queue cannot   *)
(* be written, by a second process with a map of its own.                  *)
(***************************************************************************)
EXTENDS Naturals, FiniteSets

CONSTANTS Chat, ChatProcess, ChatHandler, Scan, NoScan

ASSUME ChatConstants == NoScan \notin Scan /\ IsFiniteSet(ChatHandler)

VARIABLES
  pending,     \* pendingScans of each process
  stale,       \* entries whose ExpiresAt has passed
  hand,        \* handlers between two uses of the lock
  recorded,    \* transactions recorded from each scan
  shown,       \* scans whose result was sent to the chat
  shared,      \* scans that two handlers held at once, for the property
  dropped,     \* scans removed by the answer to another scan, for the property
  late         \* scans put while an answer was on its way, for the property

chatVars == <<pending, stale, hand, recorded, shown, shared, dropped, late>>

ChatIdle == [step |-> "idle", at |-> {}, scan |-> NoScan]

Place == ChatProcess \X Chat

ChatTypeOK ==
  /\ pending \in [Place -> Scan \cup {NoScan}]
  /\ stale \subseteq Place
  /\ hand \in [ChatHandler -> [step : {"idle", "scan", "yes", "no", "record"},
                               at : SUBSET Place, scan : Scan \cup {NoScan}]]
  /\ recorded \in [Scan -> 0 .. Cardinality(ChatHandler)]
  /\ {shown, shared, dropped, late} \subseteq SUBSET Scan

ChatInit ==
  /\ pending = [x \in Place |-> NoScan]
  /\ stale = {}
  /\ hand = [h \in ChatHandler |-> ChatIdle]
  /\ recorded = [s \in Scan |-> 0]
  /\ shown = {} /\ shared = {} /\ dropped = {} /\ late = {}

ChatEnds(h) == hand' = [hand EXCEPT ![h] = ChatIdle]

(* The entry a message finds: an expired one is removed under the lock.    *)
Found(x) == IF x \in stale THEN NoScan ELSE pending[x]

(* A message starts: a yes or no that finds an entry takes its copy along, *)
(* !scan fetches and reads the image; any other message, and a yes or no   *)
(* without an entry, goes to the model and does not touch the map again.   *)
LookUp(h, x, message) ==
  /\ hand[h].step = "idle"
  /\ pending' = [pending EXCEPT ![x] = Found(x)]
  /\ stale' = stale \ {x}
  /\ \/ /\ message \in {"yes", "no"} /\ Found(x) # NoScan
        /\ hand' = [hand EXCEPT ![h] = [step |-> message, at |-> {x}, scan |-> Found(x)]]
        /\ shared' = IF message = "yes" /\ \E g \in ChatHandler : hand[g].scan = Found(x)
                     THEN shared \cup {Found(x)} ELSE shared
     \/ /\ message = "scan"
        /\ hand' = [hand EXCEPT ![h] = [step |-> "scan", at |-> {x}, scan |-> NoScan]]
        /\ UNCHANGED shared
     \/ /\ message = "other" \/ (message # "scan" /\ Found(x) = NoScan)
        /\ UNCHANGED <<hand, shared>>
  /\ UNCHANGED <<recorded, shown, dropped, late>>

(* The result replaces what is pending for the chat.                       *)
PutScan(h, s) ==
  \E x \in hand[h].at :
    /\ hand[h].step = "scan"
    /\ s \notin shown
    /\ pending' = [pending EXCEPT ![x] = s]
    /\ stale' = stale \ {x}
    /\ shown' = shown \cup {s}
    /\ late' = IF \E g \in ChatHandler : hand[g].step \in {"yes", "no"} /\ hand[g].at = {x}
               THEN late \cup {s} ELSE late
    /\ ChatEnds(h)
    /\ UNCHANGED <<recorded, shared, dropped>>

(* Mutant: the confirmed entry is not removed. *)
TakePending_Keeps(h) ==
  \E x \in hand[h].at :
    /\ hand[h].step \in {"yes", "no"}
    /\ IF hand[h].step = "yes" THEN hand' = [hand EXCEPT ![h].step = "record"] ELSE ChatEnds(h)
    /\ UNCHANGED <<pending, stale, recorded, shown, shared, dropped, late>>

(* The answer locks again and removes whatever is pending by now.          *)
TakePending(h) ==
  \E x \in hand[h].at :
    /\ hand[h].step \in {"yes", "no"}
    /\ pending' = [pending EXCEPT ![x] = NoScan]
    /\ stale' = stale \ {x}
    /\ dropped' = dropped \cup ({pending[x]} \ {NoScan, hand[h].scan})
    /\ IF hand[h].step = "yes" THEN hand' = [hand EXCEPT ![h].step = "record"] ELSE ChatEnds(h)
    /\ UNCHANGED <<recorded, shown, shared, late>>

(* CreateChatTransaction of the copy; a failure is told and not retried.   *)
RecordScan(h) ==
  /\ hand[h].step = "record"
  /\ recorded' \in {recorded, [recorded EXCEPT ![hand[h].scan] = @ + 1]}
  /\ ChatEnds(h)
  /\ UNCHANGED <<pending, stale, shown, shared, dropped, late>>

(* The image cannot be fetched or read, the session or the workspace's     *)
(* code cannot be found again.                                             *)
ScanFails(h) ==
  /\ hand[h].step = "scan"
  /\ ChatEnds(h)
  /\ UNCHANGED <<pending, stale, recorded, shown, shared, dropped, late>>

FiveMinutesPass(x) ==
  /\ pending[x] # NoScan /\ x \notin stale
  /\ stale' = stale \cup {x}
  /\ UNCHANGED <<pending, hand, recorded, shown, shared, dropped, late>>

(* The map and the handlers of a process end with it.                      *)
ChatProcessRestarts(p) ==
  /\ pending' = [x \in Place |-> IF x[1] = p THEN NoScan ELSE pending[x]]
  /\ stale' = {x \in stale : x[1] # p}
  /\ hand' = [h \in ChatHandler |-> IF \E x \in hand[h].at : x[1] = p THEN ChatIdle ELSE hand[h]]
  /\ UNCHANGED <<recorded, shown, shared, dropped, late>>

ChatNext ==
  \/ \E h \in ChatHandler, x \in Place, message \in {"yes", "no", "scan", "other"} :
       LookUp(h, x, message)
  \/ \E h \in ChatHandler, s \in Scan : PutScan(h, s)
  \/ \E h \in ChatHandler : TakePending(h) \/ RecordScan(h) \/ ScanFails(h)
  \/ \E x \in Place : FiveMinutesPass(x)
  \/ \E p \in ChatProcess : ChatProcessRestarts(p)

ChatSpec == ChatInit /\ [][ChatNext]_chatVars

-----------------------------------------------------------------------------
(* Properties                                                              *)

(* A scan is recorded twice only if two confirmations held it at once, and *)
(* an answer removes a scan it was not about only if that scan came while  *)
(* the answer was between its two uses of the lock.                        *)
ScanAccounted ==
  /\ \A s \in Scan : recorded[s] > 1 => s \in shared
  /\ dropped \subseteq late
=============================================================================
