----------------------------- MODULE WaBotQueue -----------------------------
(***************************************************************************)
(* The WhatsApp chatbot queue: the webhook of the API process that accepts *)
(* a message, the table whatsapp_bot_queue, the goroutines of the AI       *)
(* process that take rows from it, and the retry button of the admin page. *)
(*                                                                         *)
(* Every message here asks the bot to record one transaction.  The gateway *)
(* (WAHA, Fonnte, Meta) is external: it posts a message until it has seen  *)
(* a 200.  Database calls, sends and processes fail where Faults says so.  *)
(***************************************************************************)
EXTENDS Integers, Sequences, FiniteSets

CONSTANTS
  Message,        \* messages that users wrote to the bot
  Handler,        \* webhook requests the API process serves at a time
  Worker,         \* goroutines started by StartQueueWorker
  NoMessage,      \* what an idle handler or worker holds
  MsgId,          \* the deduplication id the webhook derives from a message
  Faults,         \* the kinds of failure that may happen, see FaultKind
  MaxDeliveries,  \* bound: posts of one message by the gateway
  MaxRetries      \* bound: admin retries of one row

FaultKind == {"api crash", "ai crash", "enqueue error", "worker db error",
              "chat error", "send error", "lost response"}

ASSUME QueueConstants ==
  /\ NoMessage \notin Message
  /\ Faults \subseteq FaultKind
  /\ DOMAIN MsgId = Message
  /\ MaxDeliveries \in Nat
  /\ MaxRetries \in Nat
  /\ IsFiniteSet(Worker)         \* a number in the settings, read at the start

VARIABLES
  \* the gateway
  deliveries,  \* posts made of each message
  acked,       \* messages whose webhook call was answered with 200
  \* the API process
  hpc, hmsg,   \* where each request handler is and the message it handles
  \* the table whatsapp_bot_queue
  status,      \* status column of the message's row, "none" without a row
  arrival,     \* rows in the order of received_at
  \* the AI process
  wpc, wmsg,   \* where each worker goroutine is and the row it took
  \* the admin pages
  listed,      \* rows that some open page shows as failed
  \* the outside world, for the properties
  recorded,    \* transactions committed to the ledger for each message
  replied,     \* messages whose sender got an answer about their outcome
  starts,      \* times a worker began to process each row
  retries,     \* times an admin retried each row
  syncs        \* times the webhook processed the message itself

gatewayVars == <<deliveries, acked>>
handlerVars == <<hpc, hmsg>>
rowVars     == <<status, arrival>>
workerVars  == <<wpc, wmsg>>
chatVars    == <<recorded, replied>>
countVars   == <<starts, retries, syncs>>
vars == <<gatewayVars, handlerVars, rowVars, workerVars, listed, chatVars, countVars>>

Status == {"pending", "processing", "success", "failed"}

TypeOK ==
  /\ deliveries \in [Message -> Nat]
  /\ acked \in SUBSET Message
  /\ hpc \in [Handler -> {"idle", "enqueue", "sync", "syncReply", "respond"}]
  /\ hmsg \in [Handler -> Message \cup {NoMessage}]
  /\ status \in [Message -> Status \cup {"none"}]
  /\ arrival \in Seq(Message)
  /\ wpc \in [Worker -> {"idle", "selected", "claimed", "processing", "reply",
                         "success", "failed"}]
  /\ wmsg \in [Worker -> Message \cup {NoMessage}]
  /\ listed \in SUBSET Message
  /\ recorded \in [Message -> Nat]
  /\ replied \in SUBSET Message
  /\ starts \in [Message -> Nat]
  /\ retries \in [Message -> Nat]
  /\ syncs \in [Message -> Nat]

Init ==
  /\ deliveries = [m \in Message |-> 0]
  /\ acked = {}
  /\ hpc = [h \in Handler |-> "idle"]
  /\ hmsg = [h \in Handler |-> NoMessage]
  /\ status = [m \in Message |-> "none"]
  /\ arrival = <<>>
  /\ wpc = [w \in Worker |-> "idle"]
  /\ wmsg = [w \in Worker |-> NoMessage]
  /\ listed = {}
  /\ recorded = [m \in Message |-> 0]
  /\ replied = {}
  /\ starts = [m \in Message |-> 0]
  /\ retries = [m \in Message |-> 0]
  /\ syncs = [m \in Message |-> 0]

-----------------------------------------------------------------------------
(* The webhook                                                             *)

(* The gateway posts a message it has no 200 for yet.  The handler has     *)
(* parsed the payload, found that it is no login code and derived MsgId.   *)
Receive(h, m) ==
  /\ hpc[h] = "idle"
  /\ m \notin acked
  /\ deliveries[m] < MaxDeliveries
  /\ deliveries' = [deliveries EXCEPT ![m] = @ + 1]
  /\ hpc' = [hpc EXCEPT ![h] = "enqueue"]
  /\ hmsg' = [hmsg EXCEPT ![h] = m]
  /\ UNCHANGED <<acked, rowVars, workerVars, listed, chatVars, countVars>>

(* Mutant: the unique index of migration 0042 is missing. *)
IdTaken_NoIndex(m) == FALSE

(* The unique index on message_id: a row with this id is in the table. *)
IdTaken(m) == \E n \in Message : MsgId[n] = MsgId[m] /\ status[n] # "none"

InsertRow(m) ==
  /\ ~IdTaken(m)
  /\ status' = [status EXCEPT ![m] = "pending"]
  /\ arrival' = Append(arrival, m)

(* EnqueueMessage: the row is inserted, or the unique index refuses it and *)
(* the webhook ignores the duplicate; both are answered with 200.          *)
Enqueue(h) ==
  /\ hpc[h] = "enqueue"
  /\ \/ InsertRow(hmsg[h])
     \/ IdTaken(hmsg[h]) /\ UNCHANGED rowVars
  /\ hpc' = [hpc EXCEPT ![h] = "respond"]
  /\ UNCHANGED <<gatewayVars, hmsg, workerVars, listed, chatVars, countVars>>

(* Mutant: the webhook answers 200 after a failed insert. *)
EnqueueFails_NoFallback(h) ==
  /\ "enqueue error" \in Faults
  /\ hpc[h] = "enqueue"
  /\ hpc' = [hpc EXCEPT ![h] = "respond"]
  /\ UNCHANGED <<gatewayVars, hmsg, rowVars, workerVars, listed, chatVars, countVars>>

(* Any other error of the insert sends the handler to its synchronous      *)
(* fallback.  The error of a commit whose answer was lost leaves the row.  *)
EnqueueFails(h) ==
  /\ "enqueue error" \in Faults
  /\ hpc[h] = "enqueue"
  /\ InsertRow(hmsg[h]) \/ UNCHANGED rowVars
  /\ hpc' = [hpc EXCEPT ![h] = "sync"]
  /\ UNCHANGED <<gatewayVars, hmsg, workerVars, listed, chatVars, countVars>>

(* ProcessAIChat on a message that asks to record a transaction: the model *)
(* answers and CreateChatTransaction commits, or one of them fails and the *)
(* failure becomes the text of the answer.  No path returns an error.      *)
ProcessAIChat(m) ==
  \/ recorded' = [recorded EXCEPT ![m] = @ + 1]
  \/ "chat error" \in Faults /\ UNCHANGED recorded

SyncChat(h) ==
  /\ hpc[h] = "sync"
  /\ ProcessAIChat(hmsg[h])
  /\ syncs' = [syncs EXCEPT ![hmsg[h]] = @ + 1]
  /\ hpc' = [hpc EXCEPT ![h] = "syncReply"]
  /\ UNCHANGED <<gatewayVars, hmsg, rowVars, workerVars, listed, replied, starts, retries>>

(* SendWhatsAppMessage of the fallback: an error is dropped. *)
SyncReply(h) ==
  /\ hpc[h] = "syncReply"
  /\ \/ replied' = replied \cup {hmsg[h]}
     \/ "send error" \in Faults /\ UNCHANGED replied
  /\ hpc' = [hpc EXCEPT ![h] = "respond"]
  /\ UNCHANGED <<gatewayVars, hmsg, rowVars, workerVars, listed, recorded, countVars>>

(* The 200 reaches the gateway or is lost on the way (a timeout of the     *)
(* gateway counts as lost).                                                *)
Respond(h) ==
  /\ hpc[h] = "respond"
  /\ \/ acked' = acked \cup {hmsg[h]}
     \/ "lost response" \in Faults /\ UNCHANGED acked
  /\ hpc' = [hpc EXCEPT ![h] = "idle"]
  /\ hmsg' = [hmsg EXCEPT ![h] = NoMessage]
  /\ UNCHANGED <<deliveries, rowVars, workerVars, listed, chatVars, countVars>>

(* The API process stops: its requests are gone. *)
CrashAPI ==
  /\ "api crash" \in Faults
  /\ \E h \in Handler : hpc[h] # "idle"
  /\ hpc' = [h \in Handler |-> "idle"]
  /\ hmsg' = [h \in Handler |-> NoMessage]
  /\ UNCHANGED <<gatewayVars, rowVars, workerVars, listed, chatVars, countVars>>

-----------------------------------------------------------------------------
(* The queue workers: processNextQueueItem, on every tick                  *)

Moves(w, from, to) == wpc[w] = from /\ wpc' = [wpc EXCEPT ![w] = to]

(* The row is locked by the SELECT ... FOR UPDATE of an open transaction. *)
RowLocked(m) == \E w \in Worker : wpc[w] = "selected" /\ wmsg[w] = m

(* Mutants: the SELECT also returns failed rows, or rows of any status. *)
Selectable_Failed(i) ==
  status[arrival[i]] \in {"pending", "failed"} /\ ~RowLocked(arrival[i])
Selectable_Any(i) == ~RowLocked(arrival[i])

(* What the SELECT can return: pending and not locked (SKIP LOCKED). *)
Selectable(i) == status[arrival[i]] = "pending" /\ ~RowLocked(arrival[i])

(* GetPendingQueueItems: the oldest such row, LIMIT 1. *)
Select(w) ==
  /\ Moves(w, "idle", "selected")
  /\ \E i \in DOMAIN arrival :
       /\ Selectable(i)
       /\ \A j \in 1 .. i - 1 : ~Selectable(j)
       /\ wmsg' = [wmsg EXCEPT ![w] = arrival[i]]
  /\ UNCHANGED <<gatewayVars, handlerVars, rowVars, listed, chatVars, countVars>>

(* Its transaction commits, and the lock on the row is gone. *)
CommitSelect(w) ==
  /\ Moves(w, "selected", "claimed")
  /\ UNCHANGED <<gatewayVars, handlerVars, rowVars, wmsg, listed, chatVars, countVars>>

(* UpdateQueueItemStatus(id, "processing"), by id whatever the status is;  *)
(* it waits while another transaction holds the row.                       *)
MarkProcessing(w) ==
  /\ Moves(w, "claimed", "processing")
  /\ ~RowLocked(wmsg[w])
  /\ status' = [status EXCEPT ![wmsg[w]] = "processing"]
  /\ starts' = [starts EXCEPT ![wmsg[w]] = @ + 1]
  /\ UNCHANGED <<gatewayVars, handlerVars, arrival, wmsg, listed, chatVars, retries, syncs>>

(* Mutant: the goroutine ends when a database call fails. *)
GiveUp_Ends(w) ==
  /\ "worker db error" \in Faults
  /\ wpc[w] \in {"selected", "claimed"}
  /\ wpc' = [wpc EXCEPT ![w] = "ended"]
  /\ UNCHANGED <<gatewayVars, handlerVars, rowVars, wmsg, listed, chatVars, countVars>>

(* The commit of the SELECT or the marking fails: the worker gives up      *)
(* until its next tick and the row stays as it is.                         *)
GiveUp(w) ==
  /\ "worker db error" \in Faults
  /\ wpc[w] \in {"selected", "claimed"}
  /\ wpc' = [wpc EXCEPT ![w] = "idle"]
  /\ wmsg' = [wmsg EXCEPT ![w] = NoMessage]
  /\ UNCHANGED <<gatewayVars, handlerVars, rowVars, listed, chatVars, countVars>>

Chat(w) ==
  /\ Moves(w, "processing", "reply")
  /\ ProcessAIChat(wmsg[w])
  /\ UNCHANGED <<gatewayVars, handlerVars, rowVars, wmsg, listed, replied, countVars>>

(* Mutant: the error of the send is dropped. *)
SendReply_NoCheck(w) ==
  /\ Moves(w, "reply", "success")
  /\ \/ replied' = replied \cup {wmsg[w]}
     \/ "send error" \in Faults /\ UNCHANGED replied
  /\ UNCHANGED <<gatewayVars, handlerVars, rowVars, wmsg, listed, recorded, countVars>>

(* The answer is sent; it is never empty. *)
SendReply(w) ==
  /\ \/ Moves(w, "reply", "success") /\ replied' = replied \cup {wmsg[w]}
     \/ "send error" \in Faults /\ Moves(w, "reply", "failed") /\ UNCHANGED replied
  /\ UNCHANGED <<gatewayVars, handlerVars, rowVars, wmsg, listed, recorded, countVars>>

(* Mutants: the outcome is written with the status name of the API guide,  *)
(* a failed row goes back to pending.                                      *)
Finish_As(w, s) ==
  /\ wpc[w] \in {"success", "failed"}
  /\ ~RowLocked(wmsg[w])
  /\ status' = [status EXCEPT ![wmsg[w]] = s]
  /\ wpc' = [wpc EXCEPT ![w] = "idle"]
  /\ wmsg' = [wmsg EXCEPT ![w] = NoMessage]
  /\ UNCHANGED <<gatewayVars, handlerVars, arrival, listed, chatVars, countVars>>
Finish_Completed(w) ==
  Finish_As(w, IF wpc[w] = "success" THEN "completed" ELSE wpc[w])
Finish_Requeue(w) ==
  Finish_As(w, IF wpc[w] = "failed" THEN "pending" ELSE wpc[w])

(* UpdateQueueItemStatus with the outcome, again by id only; its error is  *)
(* dropped, and then the row keeps the status it has.                      *)
Finish(w) ==
  /\ wpc[w] \in {"success", "failed"}
  /\ ~RowLocked(wmsg[w])
  /\ \/ status' = [status EXCEPT ![wmsg[w]] = wpc[w]]
     \/ "worker db error" \in Faults /\ UNCHANGED status
  /\ wpc' = [wpc EXCEPT ![w] = "idle"]
  /\ wmsg' = [wmsg EXCEPT ![w] = NoMessage]
  /\ UNCHANGED <<gatewayVars, handlerVars, arrival, listed, chatVars, countVars>>

(* The AI process stops (main does not wait for its goroutines) or panics: *)
(* its open transactions roll back, its rows stay as they are.             *)
CrashAI ==
  /\ "ai crash" \in Faults
  /\ \E w \in Worker : wpc[w] # "idle"
  /\ wpc' = [w \in Worker |-> "idle"]
  /\ wmsg' = [w \in Worker |-> NoMessage]
  /\ UNCHANGED <<gatewayVars, handlerVars, rowVars, listed, chatVars, countVars>>

-----------------------------------------------------------------------------
(* The admin page                                                          *)

(* An admin loads the queue history: failed rows get a retry button, and   *)
(* the page keeps showing it when the row has moved on.                    *)
ListFailed ==
  /\ listed' = listed \cup {m \in Message : status[m] = "failed"}
  /\ UNCHANGED <<gatewayVars, handlerVars, rowVars, workerVars, chatVars, countVars>>

(* RetryWhatsAppQueueMessage: by id whatever the status is. *)
Retry(m) ==
  /\ m \in listed
  /\ retries[m] < MaxRetries
  /\ ~RowLocked(m)
  /\ status' = [status EXCEPT ![m] = "pending"]
  /\ retries' = [retries EXCEPT ![m] = @ + 1]
  /\ UNCHANGED <<gatewayVars, handlerVars, arrival, workerVars, listed, chatVars, starts, syncs>>

-----------------------------------------------------------------------------
HandlerStep(h) == \/ Enqueue(h) \/ EnqueueFails(h) \/ SyncChat(h)
                  \/ SyncReply(h) \/ Respond(h)

WorkerStep(w) == \/ Select(w) \/ CommitSelect(w) \/ MarkProcessing(w) \/ GiveUp(w)
                 \/ Chat(w) \/ SendReply(w) \/ Finish(w)

Next ==
  \/ \E h \in Handler, m \in Message : Receive(h, m)
  \/ \E h \in Handler : HandlerStep(h)
  \/ CrashAPI
  \/ \E w \in Worker : WorkerStep(w)
  \/ CrashAI
  \/ ListFailed
  \/ \E m \in Message : Retry(m)

Spec == Init /\ [][Next]_vars

(* The ticker of each goroutine and the runtime of the API process keep    *)
(* calling; a database call that may fail does not fail for ever.          *)
Fairness ==
  /\ \A h \in Handler : WF_vars(HandlerStep(h))
  /\ \A w \in Worker : /\ SF_vars(Select(w)) /\ SF_vars(CommitSelect(w))
                       /\ SF_vars(MarkProcessing(w))
                       /\ WF_vars(Chat(w)) /\ WF_vars(SendReply(w)) /\ WF_vars(Finish(w))

FairSpec == Spec /\ Fairness
-----------------------------------------------------------------------------
(* Properties                                                              *)

(* A message answered with 200 is never lost: it has a row in the queue or *)
(* the webhook processed it itself.  The gateway will not post it again,   *)
(* so a message that is neither is gone (webhook_handler.go 389-415).      *)
AckedIsKept == \A m \in acked : status[m] # "none" \/ syncs[m] > 0

(* A row is only marked successful when its sender got an answer, as the   *)
(* status table of the integration guide says: the status is written after *)
(* the send, and no other worker's write can get in between                *)
(* (service.go 1322-1340).                                                 *)
SuccessMeansAnswered == \A m \in Message : status[m] = "success" => m \in replied

(* How often the row's message may be recorded: once for its insertion and *)
(* once for each retry, and once for each time the webhook fell back.      *)
Grants(m) == (IF status[m] = "none" THEN 0 ELSE 1) + retries[m]

(* A message is not recorded twice in the ledger unless an admin retried   *)
(* it or the webhook processed it itself: no crash, redelivery or failed   *)
(* database call doubles a transaction.  Only one worker keeps this.       *)
RecordedWithinGrants ==
  \A m \in Message : recorded[m] <= Grants(m) + syncs[m]

(* The damage that several workers can do, since the claim of a row is not *)
(* one transaction: each of them records the message at most once for each *)
(* time it was pending.                                                    *)
DuplicatesBounded ==
  \A m \in Message : recorded[m] <= Cardinality(Worker) * Grants(m) + syncs[m]

(* A row leaves a final status only by a retry: no late write of a worker  *)
(* takes a row that has its outcome back into processing.                  *)
FinalOnlyRetried ==
  [][\A m \in Message :
       status[m] \in {"success", "failed"} /\ status'[m] # status[m]
         => retries'[m] = retries[m] + 1]_vars

(* The queue as an abstract job queue: what it promises with one worker.   *)
PhaseOf(m) == CASE status[m] = "none"       -> "absent"
                [] status[m] = "pending"    -> "waiting"
                [] status[m] = "processing" -> "running"
                [] OTHER                    -> "closed"

JQ == INSTANCE JobQueue WITH
        Job    <- Message,
        phase  <- [m \in Message |-> PhaseOf(m)],
        grants <- [m \in Message |-> Grants(m)],
        runs   <- starts

ImplementsJobQueue == JQ!JQSpec

(* Every pending row is taken in the end, whatever crashes and failed      *)
(* calls happen in between: a row that keeps failing to be marked is at    *)
(* the head of the queue and is tried again on every tick.                 *)
PendingIsTaken ==
  \A m \in Message : status[m] = "pending" ~> status[m] # "pending"
=============================================================================
