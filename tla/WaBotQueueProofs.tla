-------------------------- MODULE WaBotQueueProofs --------------------------
(***************************************************************************)
(* Theorems about WaBotQueue, for every number of messages, handlers,      *)
(* workers and every set of faults.                                        *)
(***************************************************************************)
EXTENDS WaBotQueue, FiniteSetTheorems, TLAPS

(* An actor that is not idle holds a message. *)
Holding ==
  /\ \A h \in Handler : hpc[h] # "idle" => hmsg[h] \in Message
  /\ \A w \in Worker : wpc[w] # "idle" => wmsg[w] \in Message

(* The type invariant is inductive together with Holding. *)
TypeInv == TypeOK /\ Holding

LEMMA InitTypeInv == Init => TypeInv
BY DEF Init, TypeInv, TypeOK, Holding

(* The columns of the table keep their types when a row is inserted. *)
LEMMA InsertRowType ==
  ASSUME TypeOK, NEW m \in Message, InsertRow(m) \/ UNCHANGED rowVars
  PROVE  /\ status' \in [Message -> Status \cup {"none"}]
         /\ arrival' \in Seq(Message)
<1>1. CASE InsertRow(m)
  BY <1>1 DEF TypeOK, InsertRow, Status
<1>2. CASE UNCHANGED rowVars
  BY <1>2 DEF TypeOK, rowVars
<1>3. QED
  BY <1>1, <1>2

(* So does the ledger when the bot processes a message. *)
LEMMA ProcessAIChatType ==
  ASSUME TypeOK, NEW m \in Message, ProcessAIChat(m)
  PROVE  recorded' \in [Message -> Nat]
<1>1. CASE recorded' = [recorded EXCEPT ![m] = @ + 1]
  BY <1>1 DEF TypeOK
<1>2. CASE UNCHANGED recorded
  BY <1>2 DEF TypeOK
<1>3. QED
  BY <1>1, <1>2 DEF ProcessAIChat

LEMMA HandlerTypeInv ==
  ASSUME TypeInv, NEW h \in Handler, HandlerStep(h)
  PROVE  TypeInv'
<1> USE DEF TypeInv, TypeOK, Holding, gatewayVars, handlerVars, rowVars, workerVars,
            chatVars, countVars, Status
<1>1. CASE Enqueue(h)
  <2>1. hmsg[h] \in Message
    BY <1>1 DEF Enqueue
  <2>2. /\ status' \in [Message -> Status \cup {"none"}]
        /\ arrival' \in Seq(Message)
    BY <1>1, <2>1, InsertRowType DEF Enqueue
  <2>3. QED
    BY <1>1, <2>1, <2>2 DEF Enqueue
<1>2. CASE EnqueueFails(h)
  <2>1. hmsg[h] \in Message
    BY <1>2 DEF EnqueueFails
  <2>2. /\ status' \in [Message -> Status \cup {"none"}]
        /\ arrival' \in Seq(Message)
    BY <1>2, <2>1, InsertRowType DEF EnqueueFails
  <2>3. QED
    BY <1>2, <2>1, <2>2 DEF EnqueueFails
<1>3. CASE SyncChat(h)
  <2>1. recorded' \in [Message -> Nat]
    BY <1>3, ProcessAIChatType DEF SyncChat
  <2>2. syncs' \in [Message -> Nat]
    BY <1>3 DEF SyncChat
  <2>3. QED
    BY <1>3, <2>1, <2>2 DEF SyncChat
<1>4. CASE SyncReply(h)
  BY <1>4 DEF SyncReply
<1>5. CASE Respond(h)
  BY <1>5 DEF Respond
<1>6. QED
  BY <1>1, <1>2, <1>3, <1>4, <1>5 DEF HandlerStep

LEMMA WorkerTypeInv ==
  ASSUME TypeInv, NEW w \in Worker, WorkerStep(w)
  PROVE  TypeInv'
<1> USE DEF TypeInv, TypeOK, Holding, gatewayVars, handlerVars, rowVars, workerVars,
            chatVars, countVars, Status, Moves
<1>1. CASE Select(w)
  <2>1. PICK i \in DOMAIN arrival : wmsg' = [wmsg EXCEPT ![w] = arrival[i]]
    BY <1>1 DEF Select
  <2>2. arrival[i] \in Message
    BY <2>1
  <2>3. QED
    BY <1>1, <2>1, <2>2 DEF Select
<1>2. CASE CommitSelect(w)
  BY <1>2 DEF CommitSelect
<1>3. CASE MarkProcessing(w)
  BY <1>3 DEF MarkProcessing
<1>4. CASE GiveUp(w)
  BY <1>4 DEF GiveUp
<1>5. CASE Chat(w)
  <2>1. recorded' \in [Message -> Nat]
    BY <1>5, ProcessAIChatType DEF Chat
  <2>2. QED
    BY <1>5, <2>1 DEF Chat
<1>6. CASE SendReply(w)
  BY <1>6 DEF SendReply
<1>7. CASE Finish(w)
  BY <1>7 DEF Finish
<1>8. QED
  BY <1>1, <1>2, <1>3, <1>4, <1>5, <1>6, <1>7 DEF WorkerStep

LEMMA NextTypeInv == TypeInv /\ [Next]_vars => TypeInv'
<1> SUFFICES ASSUME TypeInv, [Next]_vars
             PROVE  TypeInv'
  OBVIOUS
<1>1. ASSUME NEW h \in Handler, NEW m \in Message, Receive(h, m)
      PROVE  TypeInv'
  <2>1. deliveries' \in [Message -> Nat]
    BY <1>1 DEF TypeInv, TypeOK, Receive
  <2>2. QED
    BY <1>1, <2>1 DEF TypeInv, TypeOK, Holding, Receive, rowVars, workerVars,
                      chatVars, countVars
<1>2. ASSUME NEW h \in Handler, HandlerStep(h)
      PROVE  TypeInv'
  BY <1>2, HandlerTypeInv
<1>3. CASE CrashAPI
  BY <1>3 DEF TypeInv, TypeOK, Holding, CrashAPI, gatewayVars, rowVars, workerVars,
              chatVars, countVars
<1>4. ASSUME NEW w \in Worker, WorkerStep(w)
      PROVE  TypeInv'
  BY <1>4, WorkerTypeInv
<1>5. CASE CrashAI
  BY <1>5 DEF TypeInv, TypeOK, Holding, CrashAI, gatewayVars, handlerVars, rowVars,
              chatVars, countVars
<1>6. CASE ListFailed
  BY <1>6 DEF TypeInv, TypeOK, Holding, ListFailed, gatewayVars, handlerVars, rowVars,
              workerVars, chatVars, countVars
<1>7. ASSUME NEW m \in Message, Retry(m)
      PROVE  TypeInv'
  BY <1>7 DEF TypeInv, TypeOK, Holding, Retry, Status, gatewayVars, handlerVars,
              workerVars, chatVars
<1>8. CASE UNCHANGED vars
  BY <1>8 DEF TypeInv, TypeOK, Holding, vars, gatewayVars, handlerVars, rowVars,
              workerVars, chatVars, countVars
<1>9. QED
  BY <1>1, <1>2, <1>3, <1>4, <1>5, <1>6, <1>7, <1>8 DEF Next

LEMMA AlwaysTypeInv == Spec => []TypeInv
BY InitTypeInv, NextTypeInv, PTL DEF Spec

(* Every variable keeps its type, whatever the actors do and whatever fails. *)
THEOREM TypeCorrect == Spec => []TypeOK
<1>1. TypeInv => TypeOK
  BY DEF TypeInv
<1>2. QED
  BY <1>1, AlwaysTypeInv, PTL

-----------------------------------------------------------------------------
(* No accepted message is lost                                             *)

Kept(m) == status[m] # "none" \/ syncs[m] > 0

(* A kept message stays kept: no action deletes a row or forgets that the  *)
(* webhook processed the message.                                          *)
LEMMA KeptStays ==
  ASSUME TypeInv, [Next]_vars, NEW m \in Message, Kept(m)
  PROVE  Kept(m)'
<1> USE DEF Kept, TypeInv, TypeOK, Holding, Status, gatewayVars, handlerVars, rowVars,
            workerVars, chatVars, countVars
<1>1. ASSUME NEW h \in Handler, NEW n \in Message, Receive(h, n)
      PROVE  Kept(m)'
  BY <1>1 DEF Receive
<1>2. ASSUME NEW h \in Handler, HandlerStep(h)
      PROVE  Kept(m)'
  <2>1. CASE Enqueue(h)
    BY <2>1 DEF Enqueue, InsertRow
  <2>2. CASE EnqueueFails(h)
    BY <2>2 DEF EnqueueFails, InsertRow
  <2>3. CASE SyncChat(h)
    BY <2>3 DEF SyncChat
  <2>4. CASE SyncReply(h)
    BY <2>4 DEF SyncReply
  <2>5. CASE Respond(h)
    BY <2>5 DEF Respond
  <2>6. QED
    BY <1>2, <2>1, <2>2, <2>3, <2>4, <2>5 DEF HandlerStep
<1>3. CASE CrashAPI
  BY <1>3 DEF CrashAPI
<1>4. ASSUME NEW w \in Worker, WorkerStep(w)
      PROVE  Kept(m)'
  <2>1. CASE MarkProcessing(w)
    BY <2>1 DEF MarkProcessing
  <2>2. CASE Finish(w)
    BY <2>2 DEF Finish
  <2>3. CASE Select(w) \/ CommitSelect(w) \/ GiveUp(w) \/ Chat(w) \/ SendReply(w)
    BY <2>3 DEF Select, CommitSelect, GiveUp, Chat, SendReply
  <2>4. QED
    BY <1>4, <2>1, <2>2, <2>3 DEF WorkerStep
<1>5. CASE CrashAI
  BY <1>5 DEF CrashAI
<1>6. CASE ListFailed
  BY <1>6 DEF ListFailed
<1>7. ASSUME NEW n \in Message, Retry(n)
      PROVE  Kept(m)'
  BY <1>7 DEF Retry
<1>8. CASE UNCHANGED vars
  BY <1>8 DEF vars
<1>9. QED
  BY <1>1, <1>2, <1>3, <1>4, <1>5, <1>6, <1>7, <1>8 DEF Next

(* The 200 is decided before it is sent: a handler that is about to send   *)
(* it must already have kept the message.                                  *)
KeptInv ==
  /\ AckedIsKept
  /\ \A h \in Handler : hpc[h] \in {"syncReply", "respond"} => Kept(hmsg[h])

(* The ids that WAHA and Meta send tell messages apart. *)
IdsDistinct == \A m, n \in Message : MsgId[m] = MsgId[n] => m = n

LEMMA NextKeptInv ==
  ASSUME IdsDistinct, TypeInv, KeptInv, [Next]_vars
  PROVE  KeptInv'
<1>1. ASSUME NEW m \in Message, Kept(m)
      PROVE  Kept(m)'
  BY <1>1, KeptStays
<1>2. AckedIsKept'
  <2>1. ASSUME NEW m \in Message, m \in acked'
        PROVE  Kept(m)'
    <3>1. CASE m \in acked
      BY <1>1, <3>1 DEF KeptInv, AckedIsKept, Kept
    <3>2. CASE m \notin acked
      <4>1. PICK h \in Handler : Respond(h)
        BY <2>1, <3>2 DEF Next, vars, gatewayVars, handlerVars, Receive, HandlerStep,
                          Enqueue, EnqueueFails, SyncChat, SyncReply, CrashAPI, WorkerStep,
                          Select, CommitSelect, MarkProcessing, GiveUp, Chat, SendReply,
                          Finish, CrashAI, ListFailed, Retry
      <4>2. m = hmsg[h] /\ hpc[h] = "respond"
        BY <2>1, <3>2, <4>1 DEF Respond
      <4>3. QED
        BY <1>1, <4>2 DEF KeptInv
    <3>3. QED
      BY <3>1, <3>2
  <2>2. acked' \in SUBSET Message
    BY NextTypeInv DEF TypeInv, TypeOK
  <2>3. QED
    BY <2>1, <2>2 DEF AckedIsKept, Kept
<1>3. ASSUME NEW h \in Handler, hpc'[h] \in {"syncReply", "respond"}
      PROVE  Kept(hmsg[h])'
  <2>1. CASE hpc'[h] = hpc[h] /\ hmsg'[h] = hmsg[h]
    <3>1. hmsg[h] \in Message /\ Kept(hmsg[h])
      BY <1>3, <2>1 DEF KeptInv, TypeInv, Holding
    <3>2. QED
      BY <1>1, <2>1, <3>1 DEF Kept
  <2>2. CASE ~(hpc'[h] = hpc[h] /\ hmsg'[h] = hmsg[h])
    <3>1. Enqueue(h) \/ SyncChat(h) \/ SyncReply(h)
      <4>1. HandlerStep(h)
        <5>1. ASSUME NEW g \in Handler, NEW m \in Message, Receive(g, m)
              PROVE  FALSE
          BY <1>3, <2>2, <5>1 DEF Receive, TypeInv, TypeOK
        <5>2. ASSUME NEW g \in Handler, HandlerStep(g), g # h
              PROVE  FALSE
          BY <2>2, <5>2 DEF HandlerStep, Enqueue, EnqueueFails, SyncChat, SyncReply,
                            Respond, TypeInv, TypeOK
        <5>3. CASE CrashAPI
          BY <1>3, <5>3 DEF CrashAPI
        <5>4. CASE UNCHANGED handlerVars
          BY <2>2, <5>4 DEF handlerVars
        <5>5. QED
          BY <5>1, <5>2, <5>3, <5>4 DEF Next, vars, WorkerStep, Select, CommitSelect,
               MarkProcessing, GiveUp, Chat, SendReply, Finish, CrashAI, ListFailed, Retry
      <4>2. QED
        BY <1>3, <4>1 DEF HandlerStep, EnqueueFails, Respond, TypeInv, TypeOK
    <3>2. hmsg'[h] = hmsg[h] /\ hmsg[h] \in Message
      BY <3>1 DEF Enqueue, SyncChat, SyncReply, TypeInv, Holding
    <3>3. CASE Enqueue(h)
      <4>1. status'[hmsg[h]] # "none"
        BY <3>2, <3>3 DEF Enqueue, InsertRow, IdTaken, IdsDistinct, rowVars, TypeInv, TypeOK
      <4>2. QED
        BY <3>2, <4>1 DEF Kept
    <3>4. CASE SyncChat(h)
      <4>1. syncs'[hmsg[h]] > 0
        BY <3>2, <3>4 DEF SyncChat, TypeInv, TypeOK
      <4>2. QED
        BY <3>2, <4>1 DEF Kept
    <3>5. CASE SyncReply(h)
      <4>1. Kept(hmsg[h])
        BY <3>5 DEF SyncReply, KeptInv
      <4>2. QED
        BY <1>1, <3>2, <4>1 DEF Kept
    <3>6. QED
      BY <3>1, <3>3, <3>4, <3>5
  <2>3. QED
    BY <2>1, <2>2
<1>4. QED
  BY <1>2, <1>3 DEF KeptInv

(* With ids of the gateway, a message whose webhook call was answered with *)
(* 200 has a row or was processed by the webhook, for every number of      *)
(* concurrent deliveries and every fault.                                  *)
THEOREM AckedNeverLost ==
  ASSUME IdsDistinct
  PROVE  Spec => []AckedIsKept
<1>1. Init => KeptInv
  BY DEF Init, KeptInv, AckedIsKept
<1>2. TypeInv /\ KeptInv /\ [Next]_vars => KeptInv'
  BY NextKeptInv
<1>3. KeptInv => AckedIsKept
  BY DEF KeptInv
<1>4. QED
  BY <1>1, <1>2, <1>3, AlwaysTypeInv, PTL DEF Spec

-----------------------------------------------------------------------------
(* One worker                                                              *)

(* What makes the two-step claim safe when w is the only worker: the row   *)
(* it claimed is still pending when it is marked, each start uses up one   *)
(* grant, and each transaction uses up one start or one fallback.          *)
RowsOfWorker(w) ==
  /\ wpc[w] \in {"selected", "claimed"} => status[wmsg[w]] = "pending"
  /\ wpc[w] \in {"processing", "reply", "success", "failed"} =>
       status[wmsg[w]] \in {"pending", "processing"}

StartsPaid(m) ==
  /\ starts[m] <= Grants(m)
  /\ status[m] = "pending" => starts[m] < Grants(m)

RecordsPaid(w, m) ==
  /\ recorded[m] <= starts[m] + syncs[m]
  /\ wpc[w] = "processing" /\ wmsg[w] = m => recorded[m] < starts[m] + syncs[m]

OneWorkerInv(w) ==
  /\ RowsOfWorker(w)
  /\ \A m \in listed : status[m] # "none"
  /\ \A m \in Message : StartsPaid(m) /\ RecordsPaid(w, m)

LEMMA InitOneWorkerInv ==
  ASSUME NEW w \in Worker, Init
  PROVE  OneWorkerInv(w)
BY DEF Init, OneWorkerInv, RowsOfWorker, StartsPaid, RecordsPaid, Grants

LEMMA NextOneWorkerInv ==
  ASSUME NEW w, Worker = {w}, TypeInv, OneWorkerInv(w), [Next]_vars
  PROVE  OneWorkerInv(w)'
<1> USE DEF OneWorkerInv, RowsOfWorker, StartsPaid, RecordsPaid, Grants, TypeInv, TypeOK,
            Holding, Status, gatewayVars, handlerVars, rowVars, workerVars, chatVars,
            countVars, Moves
<1>1. ASSUME NEW h \in Handler, NEW n \in Message, Receive(h, n)
      PROVE  OneWorkerInv(w)'
  BY <1>1 DEF Receive
<1>2. ASSUME NEW h \in Handler, HandlerStep(h)
      PROVE  OneWorkerInv(w)'
  <2>1. CASE Enqueue(h)
    <3>1. RowsOfWorker(w)'
      BY <2>1 DEF Enqueue, InsertRow, IdTaken
    <3>2. ASSUME NEW m \in Message
          PROVE  StartsPaid(m)'
      <4>1. status'[m] = status[m] \/ (status[m] = "none" /\ status'[m] = "pending")
        BY <2>1 DEF Enqueue, InsertRow, IdTaken
      <4>2. starts'[m] = starts[m] /\ retries'[m] = retries[m]
        BY <2>1 DEF Enqueue
      <4>3. QED
        BY <4>1, <4>2
    <3>3. ASSUME NEW m \in Message
          PROVE  RecordsPaid(w, m)'
      BY <2>1 DEF Enqueue, InsertRow, IdTaken
    <3>4. \A m \in listed' : status'[m] # "none"
      BY <2>1 DEF Enqueue, InsertRow, IdTaken
    <3>5. QED
      BY <3>1, <3>2, <3>3, <3>4
  <2>2. CASE EnqueueFails(h)
    <3>1. RowsOfWorker(w)'
      BY <2>2 DEF EnqueueFails, InsertRow, IdTaken
    <3>2. ASSUME NEW m \in Message
          PROVE  StartsPaid(m)'
      <4>1. status'[m] = status[m] \/ (status[m] = "none" /\ status'[m] = "pending")
        BY <2>2 DEF EnqueueFails, InsertRow, IdTaken
      <4>2. starts'[m] = starts[m] /\ retries'[m] = retries[m]
        BY <2>2 DEF EnqueueFails
      <4>3. QED
        BY <4>1, <4>2
    <3>3. ASSUME NEW m \in Message
          PROVE  RecordsPaid(w, m)'
      BY <2>2 DEF EnqueueFails, InsertRow, IdTaken
    <3>4. \A m \in listed' : status'[m] # "none"
      BY <2>2 DEF EnqueueFails, InsertRow, IdTaken
    <3>5. QED
      BY <3>1, <3>2, <3>3, <3>4
  <2>3. CASE SyncChat(h)
    <3>1. RowsOfWorker(w)'
      BY <2>3 DEF SyncChat, ProcessAIChat
    <3>2. ASSUME NEW m \in Message
          PROVE  StartsPaid(m)'
      BY <2>3 DEF SyncChat, ProcessAIChat
    <3>3. ASSUME NEW m \in Message
          PROVE  RecordsPaid(w, m)'
      <4>1. CASE recorded' = recorded
        BY <2>3, <4>1 DEF SyncChat
      <4>2. CASE recorded' = [recorded EXCEPT ![hmsg[h]] = @ + 1]
        BY <2>3, <4>2 DEF SyncChat
      <4>3. QED
        BY <2>3, <4>1, <4>2 DEF SyncChat, ProcessAIChat
    <3>4. \A m \in listed' : status'[m] # "none"
      BY <2>3 DEF SyncChat, ProcessAIChat
    <3>5. QED
      BY <3>1, <3>2, <3>3, <3>4
  <2>4. CASE SyncReply(h)
    BY <2>4 DEF SyncReply
  <2>5. CASE Respond(h)
    BY <2>5 DEF Respond
  <2>6. QED
    BY <1>2, <2>1, <2>2, <2>3, <2>4, <2>5 DEF HandlerStep
<1>3. CASE CrashAPI
  BY <1>3 DEF CrashAPI
<1>4. CASE WorkerStep(w)
  <2>1. CASE Select(w)
    BY <2>1 DEF Select, Selectable
  <2>2. CASE CommitSelect(w)
    BY <2>2 DEF CommitSelect
  <2>3. CASE MarkProcessing(w)
    BY <2>3 DEF MarkProcessing
  <2>4. CASE GiveUp(w)
    BY <2>4 DEF GiveUp
  <2>5. CASE Chat(w)
    <3>1. RowsOfWorker(w)'
      BY <2>5 DEF Chat, ProcessAIChat
    <3>2. ASSUME NEW m \in Message
          PROVE  StartsPaid(m)'
      BY <2>5 DEF Chat, ProcessAIChat
    <3>3. ASSUME NEW m \in Message
          PROVE  RecordsPaid(w, m)'
      <4>1. CASE recorded' = recorded
        BY <2>5, <4>1 DEF Chat
      <4>2. CASE recorded' = [recorded EXCEPT ![wmsg[w]] = @ + 1]
        BY <2>5, <4>2 DEF Chat
      <4>3. QED
        BY <2>5, <4>1, <4>2 DEF Chat, ProcessAIChat
    <3>4. \A m \in listed' : status'[m] # "none"
      BY <2>5 DEF Chat, ProcessAIChat
    <3>5. QED
      BY <3>1, <3>2, <3>3, <3>4
  <2>6. CASE SendReply(w)
    BY <2>6 DEF SendReply
  <2>7. CASE Finish(w)
    <3>1. RowsOfWorker(w)'
      BY <2>7 DEF Finish
    <3>2. ASSUME NEW m \in Message
          PROVE  StartsPaid(m)'
      BY <2>7 DEF Finish
    <3>3. ASSUME NEW m \in Message
          PROVE  RecordsPaid(w, m)'
      BY <2>7 DEF Finish
    <3>4. \A m \in listed' : status'[m] # "none"
      BY <2>7 DEF Finish
    <3>5. QED
      BY <3>1, <3>2, <3>3, <3>4
  <2>8. QED
    BY <1>4, <2>1, <2>2, <2>3, <2>4, <2>5, <2>6, <2>7 DEF WorkerStep
<1>5. CASE CrashAI
  BY <1>5 DEF CrashAI
<1>6. CASE ListFailed
  <2>1. \A m \in listed' : status'[m] # "none"
    BY <1>6 DEF ListFailed
  <2>2. UNCHANGED <<status, wpc, wmsg, recorded, starts, retries, syncs>>
    BY <1>6 DEF ListFailed
  <2>3. QED
    BY <2>1, <2>2
<1>7. ASSUME NEW n \in Message, Retry(n)
      PROVE  OneWorkerInv(w)'
  <2>1. RowsOfWorker(w)'
    BY <1>7 DEF Retry
  <2>2. ASSUME NEW m \in Message
        PROVE  StartsPaid(m)'
    <3>1. starts'[m] = starts[m]
      BY <1>7 DEF Retry
    <3>2. CASE m # n
      BY <1>7, <3>1, <3>2 DEF Retry
    <3>3. CASE m = n
      <4>1. status[m] # "none"
        BY <1>7, <3>3 DEF Retry
      <4>2. retries'[m] = retries[m] + 1
        BY <1>7, <3>3 DEF Retry
      <4>3. status'[m] = "pending"
        BY <1>7, <3>3 DEF Retry
      <4>4. starts[m] \in Nat /\ retries[m] \in Nat /\ starts[m] <= 1 + retries[m]
        BY <4>1
      <4>5. starts[m] <= 1 + (retries[m] + 1) /\ starts[m] < 1 + (retries[m] + 1)
        BY ONLY <4>4
      <4> HIDE DEF TypeInv, OneWorkerInv, TypeOK
      <4>6. starts'[m] <= 1 + retries'[m] /\ starts'[m] < 1 + retries'[m]
        BY ONLY <3>1, <4>2, <4>5, Zenon
      <4>7. QED
        BY <4>3, <4>6
    <3>4. QED
      BY <3>2, <3>3
  <2>3. ASSUME NEW m \in Message
        PROVE  RecordsPaid(w, m)'
    BY <1>7 DEF Retry
  <2>4. \A m \in listed' : status'[m] # "none"
    BY <1>7 DEF Retry
  <2>5. QED
    BY <2>1, <2>2, <2>3, <2>4
<1>8. CASE UNCHANGED vars
  BY <1>8 DEF vars
<1>9. QED
  BY <1>1, <1>2, <1>3, <1>4, <1>5, <1>6, <1>7, <1>8 DEF Next

(* With one worker, no crash, redelivery or failed database call records a *)
(* message twice: every further transaction is due to an admin's retry or  *)
(* to a synchronous fallback.                                              *)
THEOREM OneWorkerRecordsWithinGrants ==
  ASSUME NEW w, Worker = {w}
  PROVE  Spec => []RecordedWithinGrants
<1>1. Init => OneWorkerInv(w)
  BY InitOneWorkerInv
<1>2. TypeInv /\ OneWorkerInv(w) /\ [Next]_vars => OneWorkerInv(w)'
  BY NextOneWorkerInv
<1>3. TypeInv /\ OneWorkerInv(w) => RecordedWithinGrants
  <2>1. ASSUME TypeInv, OneWorkerInv(w), NEW m \in Message
        PROVE  recorded[m] <= Grants(m) + syncs[m]
    <3>1. /\ recorded[m] \in Nat /\ starts[m] \in Nat
          /\ syncs[m] \in Nat /\ Grants(m) \in Nat
      BY <2>1 DEF TypeInv, TypeOK, Grants
    <3>2. starts[m] <= Grants(m) /\ recorded[m] <= starts[m] + syncs[m]
      BY <2>1 DEF OneWorkerInv, StartsPaid, RecordsPaid
    <3>3. QED
      BY <3>1, <3>2
  <2>2. QED
    BY <2>1 DEF RecordedWithinGrants
<1>4. QED
  BY <1>1, <1>2, <1>3, AlwaysTypeInv, PTL DEF Spec

-----------------------------------------------------------------------------
(* A successful row was answered                                           *)

AnsweredInv ==
  /\ SuccessMeansAnswered
  /\ \A w \in Worker : wpc[w] = "success" => wmsg[w] \in replied

LEMMA NextAnsweredInv ==
  ASSUME TypeInv, AnsweredInv, [Next]_vars
  PROVE  AnsweredInv'
<1> USE DEF AnsweredInv, SuccessMeansAnswered, TypeInv, TypeOK, Holding, Status, gatewayVars,
            handlerVars, rowVars, workerVars, chatVars, countVars, Moves
<1>1. ASSUME NEW h \in Handler, NEW n \in Message, Receive(h, n)
      PROVE  AnsweredInv'
  BY <1>1 DEF Receive
<1>2. ASSUME NEW h \in Handler, HandlerStep(h)
      PROVE  AnsweredInv'
  <2>1. CASE Enqueue(h)
    BY <2>1 DEF Enqueue, InsertRow
  <2>2. CASE EnqueueFails(h)
    BY <2>2 DEF EnqueueFails, InsertRow
  <2>3. CASE SyncChat(h)
    BY <2>3 DEF SyncChat
  <2>4. CASE SyncReply(h)
    BY <2>4 DEF SyncReply
  <2>5. CASE Respond(h)
    BY <2>5 DEF Respond
  <2>6. QED
    BY <1>2, <2>1, <2>2, <2>3, <2>4, <2>5 DEF HandlerStep
<1>3. CASE CrashAPI
  BY <1>3 DEF CrashAPI
<1>4. ASSUME NEW w \in Worker, WorkerStep(w)
      PROVE  AnsweredInv'
  <2>1. CASE Select(w)
    BY <2>1 DEF Select
  <2>2. CASE CommitSelect(w)
    BY <2>2 DEF CommitSelect
  <2>3. CASE MarkProcessing(w)
    BY <2>3 DEF MarkProcessing
  <2>4. CASE GiveUp(w)
    BY <2>4 DEF GiveUp
  <2>5. CASE Chat(w)
    BY <2>5 DEF Chat
  <2>6. CASE SendReply(w)
    BY <2>6 DEF SendReply
  <2>7. CASE Finish(w)
    BY <2>7 DEF Finish
  <2>8. QED
    BY <1>4, <2>1, <2>2, <2>3, <2>4, <2>5, <2>6, <2>7 DEF WorkerStep
<1>5. CASE CrashAI
  BY <1>5 DEF CrashAI
<1>6. CASE ListFailed
  BY <1>6 DEF ListFailed
<1>7. ASSUME NEW n \in Message, Retry(n)
      PROVE  AnsweredInv'
  BY <1>7 DEF Retry
<1>8. CASE UNCHANGED vars
  BY <1>8 DEF vars
<1>9. QED
  BY <1>1, <1>2, <1>3, <1>4, <1>5, <1>6, <1>7, <1>8 DEF Next

(* However many workers run, a row is only marked successful when its      *)
(* sender got an answer.                                                   *)
THEOREM SuccessWasAnswered == Spec => []SuccessMeansAnswered
<1>1. Init => AnsweredInv
  BY DEF Init, AnsweredInv, SuccessMeansAnswered
<1>2. TypeInv /\ AnsweredInv /\ [Next]_vars => AnsweredInv'
  BY NextAnsweredInv
<1>3. AnsweredInv => SuccessMeansAnswered
  BY DEF AnsweredInv
<1>4. QED
  BY <1>1, <1>2, <1>3, AlwaysTypeInv, PTL DEF Spec

-----------------------------------------------------------------------------
(* With one worker the queue is a job queue                                *)

phaseMap == [m \in Message |-> PhaseOf(m)]
grantMap == [m \in Message |-> Grants(m)]

(* The abstract state is a function of status, retries and starts: a step  *)
(* that leaves them alone stutters.                                        *)
LEMMA AbstractStutter ==
  ASSUME UNCHANGED <<status, retries, starts>>
  PROVE  UNCHANGED JQ!jqVars
BY DEF JQ!jqVars, PhaseOf, Grants

(* A step that changes the row of one message m, told by what it changes.  *)
LEMMA AbstractSubmit ==
  ASSUME TypeInv, NEW m \in Message, InsertRow(m), UNCHANGED <<retries, starts>>
  PROVE  JQ!Submit(m)
<1>1. status[m] = "none"
  BY DEF InsertRow, IdTaken
<1>2. phaseMap[m] = "absent"
  BY <1>1 DEF phaseMap, PhaseOf
<1>3. phaseMap' = [phaseMap EXCEPT ![m] = "waiting"]
  BY DEF InsertRow, phaseMap, PhaseOf, TypeInv, TypeOK
<1>4. grantMap' = [grantMap EXCEPT ![m] = @ + 1]
  <2>1. /\ Grants(m) = retries[m]
        /\ Grants(m)' = 1 + retries[m]
        /\ retries[m] \in Nat
    BY <1>1 DEF InsertRow, Grants, TypeInv, TypeOK
  <2>2. \A n \in Message : n # m => Grants(n)' = Grants(n)
    BY DEF InsertRow, Grants, TypeInv, TypeOK
  <2>3. Grants(m)' = Grants(m) + 1
    BY ONLY <2>1
  <2>4. QED
    BY ONLY <2>2, <2>3 DEF grantMap
<1>5. QED
  BY <1>2, <1>3, <1>4 DEF JQ!Submit, phaseMap, grantMap

LEMMA AbstractStart ==
  ASSUME TypeInv, NEW m \in Message,
         status[m] = "pending",
         status' = [status EXCEPT ![m] = "processing"],
         starts' = [starts EXCEPT ![m] = @ + 1],
         UNCHANGED retries
  PROVE  JQ!Start(m)
<1>1. phaseMap[m] = "waiting"
  BY DEF phaseMap, PhaseOf
<1>2. phaseMap' = [phaseMap EXCEPT ![m] = "running"]
  BY DEF phaseMap, PhaseOf, TypeInv, TypeOK
<1>3. grantMap' = grantMap
  BY DEF grantMap, Grants, TypeInv, TypeOK
<1>4. QED
  BY <1>1, <1>2, <1>3 DEF JQ!Start, phaseMap, grantMap

LEMMA AbstractClose ==
  ASSUME TypeInv, NEW m \in Message, NEW r \in {"success", "failed"},
         status[m] \in {"pending", "processing"},
         status' = [status EXCEPT ![m] = r],
         UNCHANGED <<retries, starts>>
  PROVE  JQ!Close(m)
<1>1. phaseMap[m] \in {"waiting", "running"}
  BY DEF phaseMap, PhaseOf
<1>2. phaseMap' = [phaseMap EXCEPT ![m] = "closed"]
  BY DEF phaseMap, PhaseOf, TypeInv, TypeOK
<1>3. grantMap' = grantMap
  BY DEF grantMap, Grants, TypeInv, TypeOK
<1>4. QED
  BY <1>1, <1>2, <1>3 DEF JQ!Close, phaseMap, grantMap

LEMMA AbstractReopen ==
  ASSUME TypeInv, NEW m \in Message,
         status[m] # "none",
         status' = [status EXCEPT ![m] = "pending"],
         retries' = [retries EXCEPT ![m] = @ + 1],
         UNCHANGED starts
  PROVE  JQ!Reopen(m)
<1>1. phaseMap[m] # "absent"
  BY DEF phaseMap, PhaseOf
<1>2. phaseMap' = [phaseMap EXCEPT ![m] = "waiting"]
  BY DEF phaseMap, PhaseOf, TypeInv, TypeOK
<1>3. grantMap' = [grantMap EXCEPT ![m] = @ + 1]
  <2>1. /\ Grants(m) = 1 + retries[m]
        /\ Grants(m)' = 1 + (retries[m] + 1)
        /\ retries[m] \in Nat
    BY DEF Grants, TypeInv, TypeOK
  <2>2. \A n \in Message : n # m => Grants(n)' = Grants(n)
    BY DEF Grants, TypeInv, TypeOK
  <2>3. Grants(m)' = Grants(m) + 1
    BY ONLY <2>1
  <2>4. QED
    BY ONLY <2>2, <2>3 DEF grantMap
<1>4. QED
  BY <1>1, <1>2, <1>3 DEF JQ!Reopen, phaseMap, grantMap

LEMMA AbstractStep ==
  ASSUME NEW w, Worker = {w}, TypeInv, OneWorkerInv(w), [Next]_vars
  PROVE  [JQ!JQNext]_JQ!jqVars
<1> USE DEF TypeInv, Holding, gatewayVars, handlerVars, rowVars, workerVars, chatVars,
            countVars, Moves
<1>1. ASSUME NEW h \in Handler, HandlerStep(h)
      PROVE  [JQ!JQNext]_JQ!jqVars
  <2>1. CASE Enqueue(h) \/ EnqueueFails(h)
    <3>1. hmsg[h] \in Message /\ UNCHANGED <<retries, starts>>
      BY <2>1 DEF Enqueue, EnqueueFails
    <3>2. CASE InsertRow(hmsg[h])
      BY <3>1, <3>2, AbstractSubmit DEF JQ!JQNext
    <3>3. CASE UNCHANGED rowVars
      BY <3>1, <3>3, AbstractStutter
    <3>4. QED
      BY <2>1, <3>2, <3>3 DEF Enqueue, EnqueueFails
  <2>2. CASE SyncChat(h) \/ SyncReply(h) \/ Respond(h)
    BY <2>2, AbstractStutter DEF SyncChat, SyncReply, Respond
  <2>3. QED
    BY <1>1, <2>1, <2>2 DEF HandlerStep
<1>2. CASE MarkProcessing(w)
  <2>1. wmsg[w] \in Message /\ status[wmsg[w]] = "pending"
    BY <1>2 DEF MarkProcessing, OneWorkerInv, RowsOfWorker
  <2>2. QED
    BY <1>2, <2>1, AbstractStart DEF MarkProcessing, JQ!JQNext
<1>3. CASE Finish(w)
  <2>1. CASE UNCHANGED status
    BY <1>3, <2>1, AbstractStutter DEF Finish
  <2>2. CASE status' = [status EXCEPT ![wmsg[w]] = wpc[w]]
    <3>1. wmsg[w] \in Message /\ status[wmsg[w]] \in {"pending", "processing"}
      BY <1>3 DEF Finish, OneWorkerInv, RowsOfWorker
    <3>2. wpc[w] \in {"success", "failed"} /\ UNCHANGED <<retries, starts>>
      BY <1>3 DEF Finish
    <3>3. QED
      BY <2>2, <3>1, <3>2, AbstractClose DEF JQ!JQNext
  <2>3. QED
    BY <1>3, <2>1, <2>2 DEF Finish
<1>4. ASSUME NEW m \in Message, Retry(m)
      PROVE  [JQ!JQNext]_JQ!jqVars
  <2>1. status[m] # "none"
    BY <1>4 DEF Retry, OneWorkerInv
  <2>2. QED
    BY <1>4, <2>1, AbstractReopen DEF Retry, JQ!JQNext
<1>5. CASE Select(w) \/ CommitSelect(w) \/ GiveUp(w) \/ Chat(w) \/ SendReply(w)
  BY <1>5, AbstractStutter DEF Select, CommitSelect, GiveUp, Chat, SendReply
<1>6. CASE CrashAPI \/ CrashAI \/ ListFailed
  BY <1>6, AbstractStutter DEF CrashAPI, CrashAI, ListFailed
<1>7. ASSUME NEW h \in Handler, NEW m \in Message, Receive(h, m)
      PROVE  [JQ!JQNext]_JQ!jqVars
  BY <1>7, AbstractStutter DEF Receive
<1>8. CASE UNCHANGED vars
  BY <1>8, AbstractStutter DEF vars
<1>9. QED
  BY <1>1, <1>2, <1>3, <1>4, <1>5, <1>6, <1>7, <1>8 DEF Next, WorkerStep

(* With one worker the webhook, the worker, the crashes and the admin page *)
(* implement the abstract job queue: a row is only run when it was waiting *)
(* and each submission or retry is used up by one run.                     *)
THEOREM OneWorkerImplementsJobQueue ==
  ASSUME NEW w, Worker = {w}
  PROVE  Spec => ImplementsJobQueue
<1>1. Init => JQ!JQInit
  BY DEF Init, JQ!JQInit, PhaseOf, Grants
<1>2. Init => OneWorkerInv(w)
  BY InitOneWorkerInv
<1>3. TypeInv /\ OneWorkerInv(w) /\ [Next]_vars => OneWorkerInv(w)'
  BY NextOneWorkerInv
<1>4. TypeInv /\ OneWorkerInv(w) /\ [Next]_vars => [JQ!JQNext]_JQ!jqVars
  BY AbstractStep
<1>5. QED
  BY <1>1, <1>2, <1>3, <1>4, AlwaysTypeInv, PTL DEF Spec, ImplementsJobQueue, JQ!JQSpec

(* A step of one worker leaves a final status alone: the row that a worker *)
(* holds is pending or in processing until it writes the outcome.          *)
LEMMA FinalStep ==
  ASSUME NEW w, Worker = {w}, TypeInv, OneWorkerInv(w), Next, NEW m \in Message,
         status[m] \in {"success", "failed"}, status'[m] # status[m]
  PROVE  retries'[m] = retries[m] + 1
<1>typed. status \in [Message -> Status \cup {"none"}] /\ retries \in [Message -> Nat]
  BY DEF TypeInv, TypeOK
<1>1. ASSUME NEW h \in Handler, HandlerStep(h) PROVE FALSE
  <2>1. UNCHANGED status \/ InsertRow(hmsg[h])
    BY <1>1 DEF HandlerStep, Enqueue, EnqueueFails, SyncChat, SyncReply, Respond, rowVars
  <2>2. InsertRow(hmsg[h]) => status[m] = "none" \/ status'[m] = status[m]
    BY <1>typed DEF InsertRow, IdTaken
  <2> QED
    BY <2>1, <2>2
<1>2. ASSUME WorkerStep(w) PROVE FALSE
  <2>1. CASE MarkProcessing(w) \/ Finish(w)
    <3>1. status[wmsg[w]] \in {"pending", "processing"}
      BY <2>1 DEF MarkProcessing, Finish, Moves, OneWorkerInv, RowsOfWorker
    <3>2. \/ UNCHANGED status
          \/ \E s : status' = [status EXCEPT ![wmsg[w]] = s]
      BY <2>1 DEF MarkProcessing, Finish
    <3> QED
      BY <1>typed, <3>1, <3>2
  <2>2. CASE Select(w) \/ CommitSelect(w) \/ GiveUp(w) \/ Chat(w) \/ SendReply(w)
    BY <2>2 DEF Select, CommitSelect, GiveUp, Chat, SendReply, rowVars
  <2> QED
    BY <1>2, <2>1, <2>2 DEF WorkerStep
<1>3. CASE \E h \in Handler, n \in Message : Receive(h, n)
  BY <1>3 DEF Receive, rowVars
<1>4. CASE CrashAPI \/ CrashAI \/ ListFailed
  BY <1>4 DEF CrashAPI, CrashAI, ListFailed, rowVars
<1>5. ASSUME NEW n \in Message, Retry(n) PROVE retries'[m] = retries[m] + 1
  <2>1. /\ status' = [status EXCEPT ![n] = "pending"]
        /\ retries' = [retries EXCEPT ![n] = @ + 1]
    BY <1>5 DEF Retry
  <2>2. n = m
    BY <1>typed, <2>1
  <2> QED
    BY <1>typed, <2>1, <2>2
<1> QED
  BY <1>1, <1>2, <1>3, <1>4, <1>5 DEF Next

(* With one worker a row that has its outcome keeps it until an admin      *)
(* retries the row: no late write of the worker takes it back.             *)
THEOREM FinalStatusesStay ==
  ASSUME NEW w, Worker = {w}
  PROVE  Spec => FinalOnlyRetried
<1>1. Init => OneWorkerInv(w)
  BY InitOneWorkerInv
<1>2. TypeInv /\ OneWorkerInv(w) /\ [Next]_vars => OneWorkerInv(w)'
  BY NextOneWorkerInv
<1>3. TypeInv /\ OneWorkerInv(w) /\ [Next]_vars =>
        [\A m \in Message : status[m] \in {"success", "failed"} /\ status'[m] # status[m]
                              => retries'[m] = retries[m] + 1]_vars
  BY FinalStep
<1> QED
  BY <1>1, <1>2, <1>3, AlwaysTypeInv, PTL DEF Spec, FinalOnlyRetried

-----------------------------------------------------------------------------
(* Several workers                                                         *)

(* The workers that have read the row and not marked it, and those that    *)
(* have marked it and not yet processed the message.                       *)
Reading(m) == {w \in Worker : wpc[w] \in {"selected", "claimed"} /\ wmsg[w] = m}
Marked(m) == {w \in Worker : wpc[w] = "processing" /\ wmsg[w] = m}

(* As long as the row is pending every worker may still come to record it; *)
(* afterwards only those that have read it before.                         *)
MayRecord(m) ==
  Cardinality(Marked(m))
    + (IF status[m] = "pending" THEN Cardinality(Worker) ELSE Cardinality(Reading(m)))

Allowed(m) == Cardinality(Worker) * Grants(m)

WorkersInv == \A m \in Message : recorded[m] + MayRecord(m) <= Allowed(m) + syncs[m]

(* Sets of workers can be counted.                                         *)
LEMMA WorkersFinite ==
  ASSUME NEW S, S \subseteq Worker
  PROVE  /\ IsFiniteSet(S) /\ Cardinality(S) \in Nat /\ Cardinality(Worker) \in Nat
         /\ Cardinality(S) <= Cardinality(Worker)
<1>1. IsFiniteSet(S) /\ Cardinality(S) <= Cardinality(Worker)
  BY QueueConstants, FS_Subset
<1> QED
  BY <1>1, QueueConstants, FS_CardinalityType

(* A grant more allows each worker one record more.                        *)
LEMMA MoreGrants ==
  ASSUME NEW k \in Nat, NEW a \in Nat, NEW b \in Nat
  PROVE  /\ k * a \in Nat
         /\ a <= b => k * a <= k * b
         /\ b = a + 1 => k * b = k * a + k
<1>1. k * (a + 1) = k * a + k /\ k * a \in Nat
  BY SMT
<1>2. ASSUME a <= b PROVE k * a <= k * b
  <2>1. b - a \in Nat /\ b = a + (b - a)
    BY <1>2
  <2>2. k * b = k * a + k * (b - a)
    BY <2>1, SMT
  <2>3. k * (b - a) \in Nat
    BY <2>1, SMT
  <2> QED
    BY <1>1, <2>2, <2>3
<1> QED
  BY <1>1, <1>2

(* The numbers of the invariant are numbers.                               *)
LEMMA WorkerNumbers ==
  ASSUME TypeInv, NEW m \in Message
  PROVE  /\ Reading(m) \subseteq Worker /\ Marked(m) \subseteq Worker
         /\ Cardinality(Worker) \in Nat /\ Cardinality(Reading(m)) \in Nat
         /\ Cardinality(Marked(m)) \in Nat
         /\ Cardinality(Reading(m)) <= Cardinality(Worker)
         /\ Grants(m) \in Nat /\ Allowed(m) \in Nat
         /\ recorded[m] \in Nat /\ syncs[m] \in Nat
<1>1. Reading(m) \subseteq Worker /\ Marked(m) \subseteq Worker
  BY DEF Reading, Marked
<1>2. Grants(m) \in Nat /\ recorded[m] \in Nat /\ syncs[m] \in Nat
  BY DEF TypeInv, TypeOK, Grants
<1> QED
  BY <1>1, <1>2, WorkersFinite, MoreGrants DEF Allowed

(* They are after a step, too.                                             *)
LEMMA WorkerNumbersNext ==
  ASSUME TypeInv', NEW m \in Message
  PROVE  /\ Cardinality(Reading(m)') \in Nat /\ Cardinality(Marked(m)') \in Nat
         /\ Grants(m)' \in Nat /\ Allowed(m)' \in Nat /\ MayRecord(m)' \in Nat
         /\ recorded'[m] \in Nat /\ syncs'[m] \in Nat
<1>1. Reading(m)' \subseteq Worker /\ Marked(m)' \subseteq Worker
  BY DEF Reading, Marked
<1>2. Grants(m)' \in Nat /\ recorded'[m] \in Nat /\ syncs'[m] \in Nat
  BY DEF TypeInv, TypeOK, Grants
<1>3. /\ Cardinality(Reading(m)') \in Nat /\ Cardinality(Marked(m)') \in Nat
      /\ Cardinality(Worker) \in Nat
  BY <1>1, WorkersFinite
<1>4. Allowed(m)' \in Nat
  BY <1>2, <1>3, MoreGrants DEF Allowed
<1> QED
  BY <1>2, <1>3, <1>4 DEF MayRecord

(* A step after which no more workers may record a row that has no fewer   *)
(* grants keeps the bound.                                                 *)
LEMMA FewerWorkers ==
  ASSUME TypeInv, TypeInv', WorkersInv, NEW m \in Message,
         Grants(m) <= Grants(m)', recorded'[m] - syncs'[m] <= recorded[m] - syncs[m],
         Reading(m)' \subseteq Reading(m), Marked(m)' \subseteq Marked(m),
         status'[m] = "pending" => status[m] = "pending"
  PROVE  recorded'[m] + MayRecord(m)' <= Allowed(m)' + syncs'[m]
<1>1. Allowed(m) <= Allowed(m)'
  <2>1. Grants(m) \in Nat /\ Grants(m)' \in Nat /\ Cardinality(Worker) \in Nat
    BY WorkerNumbers, WorkerNumbersNext
  <2> QED
    BY <2>1, MoreGrants DEF Allowed
<1>2. Cardinality(Reading(m)') <= Cardinality(Reading(m))
  BY WorkerNumbers, WorkersFinite, FS_Subset
<1>3. Cardinality(Marked(m)') <= Cardinality(Marked(m))
  BY WorkerNumbers, WorkersFinite, FS_Subset
<1>4. MayRecord(m)' <= MayRecord(m) /\ MayRecord(m) \in Nat /\ MayRecord(m)' \in Nat
  BY <1>2, <1>3, WorkerNumbers, WorkerNumbersNext DEF MayRecord
<1>5. recorded[m] + MayRecord(m) <= Allowed(m) + syncs[m]
  BY DEF WorkersInv
<1>6. /\ Allowed(m) \in Nat /\ Allowed(m)' \in Nat /\ recorded[m] \in Nat /\ syncs[m] \in Nat
      /\ recorded'[m] \in Nat /\ syncs'[m] \in Nat
  BY WorkerNumbers, WorkerNumbersNext
<1> QED
  BY <1>1, <1>4, <1>5, <1>6

(* One that gives the row a grant makes it pending for every worker.       *)
LEMMA OneGrantMore ==
  ASSUME TypeInv, TypeInv', WorkersInv, NEW m \in Message,
         Grants(m) + 1 <= Grants(m)', recorded'[m] = recorded[m], syncs'[m] = syncs[m],
         Marked(m)' = Marked(m), status'[m] = "pending"
  PROVE  recorded'[m] + MayRecord(m)' <= Allowed(m)' + syncs'[m]
<1>1. Allowed(m) + Cardinality(Worker) <= Allowed(m)'
  <2>1. Grants(m) \in Nat /\ Grants(m)' \in Nat /\ Grants(m) + 1 \in Nat /\ Cardinality(Worker) \in Nat
    BY WorkerNumbers, WorkerNumbersNext
  <2>2. Cardinality(Worker) * (Grants(m) + 1) = Allowed(m) + Cardinality(Worker)
    BY <2>1, MoreGrants DEF Allowed
  <2>3. Cardinality(Worker) * (Grants(m) + 1) <= Cardinality(Worker) * Grants(m)'
    BY <2>1, MoreGrants
  <2> QED
    BY <2>2, <2>3 DEF Allowed
<1>2. MayRecord(m)' = Cardinality(Marked(m)) + Cardinality(Worker)
  BY DEF MayRecord
<1>3. recorded[m] + MayRecord(m) <= Allowed(m) + syncs[m] /\ MayRecord(m) >= Cardinality(Marked(m))
  BY WorkerNumbers DEF WorkersInv, MayRecord
<1>4. /\ Allowed(m) \in Nat /\ Allowed(m)' \in Int /\ recorded[m] \in Nat /\ syncs[m] \in Nat
      /\ Cardinality(Marked(m)) \in Nat /\ Cardinality(Worker) \in Nat /\ MayRecord(m) \in Nat
  BY WorkerNumbers, WorkerNumbersNext DEF MayRecord
<1> QED
  BY <1>1, <1>2, <1>3, <1>4

(* Which workers hold a row changes with where they are.                   *)
LEMMA SameWorkers ==
  ASSUME UNCHANGED workerVars, NEW m
  PROVE  Reading(m)' = Reading(m) /\ Marked(m)' = Marked(m)
BY DEF Reading, Marked, workerVars

(* The steps of the webhook: a row that is inserted is granted once, and a *)
(* fallback may record the message once.                                   *)
LEMMA WorkersHandler ==
  ASSUME TypeInv, TypeInv', WorkersInv, NEW h \in Handler, HandlerStep(h), NEW m \in Message
  PROVE  recorded'[m] + MayRecord(m)' <= Allowed(m)' + syncs'[m]
<1>1. UNCHANGED workerVars /\ retries' = retries
  BY DEF HandlerStep, Enqueue, EnqueueFails, SyncChat, SyncReply, Respond, countVars
<1>2. Reading(m)' = Reading(m) /\ Marked(m)' = Marked(m)
  BY <1>1, SameWorkers
<1>3. CASE Enqueue(h) \/ EnqueueFails(h)
  <2>1. recorded' = recorded /\ syncs' = syncs
    BY <1>3 DEF Enqueue, EnqueueFails, chatVars, countVars
  <2>2. status'[m] = status[m] \/ (status[m] = "none" /\ status'[m] = "pending")
    BY <1>3 DEF Enqueue, EnqueueFails, InsertRow, IdTaken, rowVars, TypeInv, TypeOK, Holding
  <2>3. CASE status'[m] = status[m]
    <3>1. Grants(m)' = Grants(m)
      BY <1>1, <2>3 DEF Grants
    <3> QED
      BY <1>2, <2>1, <2>3, <3>1, FewerWorkers, WorkerNumbers
  <2>4. CASE status[m] = "none" /\ status'[m] = "pending"
    <3>1. Grants(m)' = Grants(m) + 1
      BY <1>1, <2>4 DEF Grants, TypeInv, TypeOK
    <3> QED
      BY <1>2, <2>1, <2>4, <3>1, OneGrantMore, WorkerNumbers
  <2> QED
    BY <2>2, <2>3, <2>4
<1>4. CASE SyncChat(h)
  <2>1. status' = status /\ hmsg[h] \in Message
    BY <1>4 DEF SyncChat, rowVars, TypeInv, Holding
  <2>2. Grants(m)' = Grants(m)
    BY <1>1, <2>1 DEF Grants
  <2>3. recorded'[m] - syncs'[m] <= recorded[m] - syncs[m]
    <3>1. /\ recorded \in [Message -> Nat] /\ syncs \in [Message -> Nat]
          /\ syncs' = [syncs EXCEPT ![hmsg[h]] = @ + 1]
          /\ \/ recorded' = recorded
             \/ recorded' = [recorded EXCEPT ![hmsg[h]] = @ + 1]
      BY <1>4 DEF SyncChat, ProcessAIChat, TypeInv, TypeOK
    <3> QED
      BY <2>1, <3>1
  <2> QED
    BY <1>2, <2>1, <2>2, <2>3, FewerWorkers, WorkerNumbers
<1>5. CASE SyncReply(h) \/ Respond(h)
  <2>1. UNCHANGED <<status, recorded, syncs>>
    BY <1>5 DEF SyncReply, Respond, rowVars, chatVars, countVars
  <2>2. Grants(m)' = Grants(m)
    BY <1>1, <2>1 DEF Grants
  <2> QED
    BY <1>2, <2>1, <2>2, FewerWorkers, WorkerNumbers
<1> QED
  BY <1>3, <1>4, <1>5 DEF HandlerStep

(* The steps of a worker: it comes to a row only while that is pending,    *)
(* and what it then records uses up its place.                             *)
LEMMA WorkersWorker ==
  ASSUME TypeInv, TypeInv', WorkersInv, NEW w \in Worker, WorkerStep(w), NEW m \in Message
  PROVE  recorded'[m] + MayRecord(m)' <= Allowed(m)' + syncs'[m]
<1>1. retries' = retries /\ syncs' = syncs
  BY DEF WorkerStep, Select, CommitSelect, MarkProcessing, GiveUp, Chat, SendReply, Finish,
         countVars
<1>typed. /\ wpc \in [Worker -> {"idle", "selected", "claimed", "processing", "reply",
                                  "success", "failed"}]
          /\ wmsg \in [Worker -> Message \cup {NoMessage}]
          /\ status \in [Message -> Status \cup {"none"}]
          /\ recorded \in [Message -> Nat]
          /\ \A v \in Worker : wpc[v] # "idle" => wmsg[v] \in Message
  BY DEF TypeInv, TypeOK, Holding
<1>2. CASE Select(w)
  <2>1. UNCHANGED <<status, recorded>> /\ wpc[w] = "idle" /\ wpc' = [wpc EXCEPT ![w] = "selected"]
    BY <1>2 DEF Select, Moves, rowVars, chatVars
  <2>2. PICK i \in DOMAIN arrival :
          status[arrival[i]] = "pending" /\ wmsg' = [wmsg EXCEPT ![w] = arrival[i]]
    BY <1>2 DEF Select, Selectable
  <2>3. Marked(m)' = Marked(m)
    BY <1>typed, <2>1, <2>2 DEF Marked
  <2>4. Grants(m)' = Grants(m)
    BY <1>1, <2>1 DEF Grants
  <2>5. CASE status[m] = "pending"
    <3>1. MayRecord(m)' = MayRecord(m) /\ Allowed(m)' = Allowed(m)
      BY <2>1, <2>3, <2>4, <2>5 DEF MayRecord, Allowed
    <3> QED
      BY <1>1, <2>1, <3>1 DEF WorkersInv
  <2>6. CASE status[m] # "pending"
    <3>1. Reading(m)' = Reading(m)
      BY <1>typed, <2>1, <2>2, <2>6 DEF Reading
    <3> QED
      BY <1>1, <2>1, <2>3, <2>4, <3>1, FewerWorkers, WorkerNumbers
  <2> QED
    BY <2>5, <2>6
<1>3. CASE CommitSelect(w)
  <2>1. UNCHANGED <<status, recorded, wmsg>> /\ Moves(w, "selected", "claimed")
    BY <1>3 DEF CommitSelect, rowVars, chatVars
  <2>2. Reading(m)' = Reading(m) /\ Marked(m)' = Marked(m)
    BY <1>typed, <2>1 DEF Reading, Marked, Moves
  <2>3. Grants(m)' = Grants(m)
    BY <1>1, <2>1 DEF Grants
  <2> QED
    BY <1>1, <2>1, <2>2, <2>3, FewerWorkers, WorkerNumbers
<1>4. CASE MarkProcessing(w)
  <2>1. /\ recorded' = recorded /\ wmsg' = wmsg /\ wpc[w] = "claimed"
        /\ wpc' = [wpc EXCEPT ![w] = "processing"]
        /\ status' = [status EXCEPT ![wmsg[w]] = "processing"]
    BY <1>4 DEF MarkProcessing, Moves, chatVars
  <2>2. Grants(m) <= Grants(m)'
    BY <1>1, <1>typed, <2>1 DEF Grants, TypeInv, TypeOK
  <2>3. CASE wmsg[w] # m
    <3>1. Reading(m)' = Reading(m) /\ Marked(m)' = Marked(m) /\ status'[m] = status[m]
      BY <1>typed, <2>1, <2>3 DEF Reading, Marked
    <3> QED
      BY <1>1, <2>1, <2>2, <3>1, FewerWorkers, WorkerNumbers
  <2>4. CASE wmsg[w] = m
    <3>1. /\ w \in Reading(m) /\ Reading(m)' = Reading(m) \ {w}
          /\ w \notin Marked(m) /\ Marked(m)' = Marked(m) \cup {w}
          /\ status'[m] = "processing"
      BY <1>typed, <2>1, <2>4 DEF Reading, Marked
    <3>2. /\ Cardinality(Reading(m)') = Cardinality(Reading(m)) - 1
          /\ Cardinality(Marked(m)') = Cardinality(Marked(m)) + 1
      <4>1. IsFiniteSet(Reading(m)) /\ IsFiniteSet(Marked(m))
        BY WorkerNumbers, WorkersFinite
      <4>2. Cardinality(Reading(m) \ {w}) = Cardinality(Reading(m)) - 1
        BY <3>1, <4>1, FS_RemoveElement
      <4>3. Cardinality(Marked(m) \cup {w}) = Cardinality(Marked(m)) + 1
        BY <3>1, <4>1, FS_AddElement
      <4> QED
        BY <3>1, <4>2, <4>3
    <3>3. MayRecord(m)' <= MayRecord(m)
      BY <3>1, <3>2, WorkerNumbers DEF MayRecord
    <3>4. Allowed(m) <= Allowed(m)'
      <4>1. Grants(m) \in Nat /\ Grants(m)' \in Nat /\ Cardinality(Worker) \in Nat
        BY WorkerNumbers, WorkerNumbersNext
      <4> QED
        BY <2>2, <4>1, MoreGrants DEF Allowed
    <3>5. recorded[m] + MayRecord(m) <= Allowed(m) + syncs[m] /\ MayRecord(m) \in Nat
      BY WorkerNumbers DEF WorkersInv, MayRecord
    <3> QED
      BY <1>1, <2>1, <3>3, <3>4, <3>5, WorkerNumbers, WorkerNumbersNext
  <2> QED
    BY <2>3, <2>4
<1>5. CASE GiveUp(w) \/ SendReply(w)
  <2>1. /\ UNCHANGED <<status, recorded>>
        /\ \A v \in Worker : \/ wpc'[v] = wpc[v] /\ wmsg'[v] = wmsg[v]
                             \/ wpc'[v] \in {"idle", "success", "failed"}
    BY <1>5, <1>typed DEF GiveUp, SendReply, Moves, rowVars, chatVars
  <2>2. Reading(m)' \subseteq Reading(m) /\ Marked(m)' \subseteq Marked(m)
    BY <2>1 DEF Reading, Marked
  <2>3. Grants(m)' = Grants(m)
    BY <1>1, <2>1 DEF Grants
  <2> QED
    BY <1>1, <2>1, <2>2, <2>3, FewerWorkers, WorkerNumbers
<1>6. CASE Chat(w)
  <2>1. /\ UNCHANGED <<status, wmsg>> /\ wpc[w] = "processing"
        /\ wpc' = [wpc EXCEPT ![w] = "reply"]
        /\ \/ recorded' = recorded
           \/ recorded' = [recorded EXCEPT ![wmsg[w]] = @ + 1]
    BY <1>6 DEF Chat, Moves, ProcessAIChat, rowVars
  <2>2. Grants(m)' = Grants(m) /\ Reading(m)' = Reading(m)
    BY <1>1, <1>typed, <2>1 DEF Grants, Reading
  <2>3. CASE wmsg[w] # m
    <3>1. Marked(m)' = Marked(m) /\ recorded'[m] = recorded[m]
      BY <1>typed, <2>1, <2>3 DEF Marked
    <3> QED
      BY <1>1, <2>1, <2>2, <3>1, FewerWorkers, WorkerNumbers
  <2>4. CASE wmsg[w] = m
    <3>1. w \in Marked(m) /\ Marked(m)' = Marked(m) \ {w}
      BY <1>typed, <2>1, <2>4 DEF Marked
    <3>2. Cardinality(Marked(m)') = Cardinality(Marked(m)) - 1
      BY <3>1, WorkerNumbers, WorkersFinite, FS_RemoveElement
    <3>3. MayRecord(m)' = MayRecord(m) - 1 /\ Allowed(m)' = Allowed(m)
      BY <2>1, <2>2, <3>2, WorkerNumbers DEF MayRecord, Allowed
    <3>4. recorded'[m] <= recorded[m] + 1
      BY <1>typed, <2>1, <2>4
    <3>5. recorded[m] + MayRecord(m) <= Allowed(m) + syncs[m] /\ MayRecord(m) \in Nat
      BY WorkerNumbers DEF WorkersInv, MayRecord
    <3> QED
      BY <1>1, <3>3, <3>4, <3>5, WorkerNumbers, WorkerNumbersNext
  <2> QED
    BY <2>3, <2>4
<1>7. CASE Finish(w)
  <2>1. /\ recorded' = recorded /\ wpc[w] \in {"success", "failed"}
        /\ \/ status' = [status EXCEPT ![wmsg[w]] = wpc[w]]
           \/ status' = status
        /\ \A v \in Worker : \/ wpc'[v] = wpc[v] /\ wmsg'[v] = wmsg[v]
                             \/ wpc'[v] = "idle"
    BY <1>7, <1>typed DEF Finish, chatVars
  <2>2. Reading(m)' \subseteq Reading(m) /\ Marked(m)' \subseteq Marked(m)
    BY <2>1 DEF Reading, Marked
  <2>3. Grants(m) <= Grants(m)'
    <3>1. status[m] # "none" => status'[m] # "none"
      BY <1>typed, <2>1
    <3>2. retries'[m] = retries[m] /\ retries[m] \in Nat
      BY <1>1 DEF TypeInv, TypeOK
    <3> QED
      BY <3>1, <3>2 DEF Grants
  <2>4. status'[m] = "pending" => status[m] = "pending"
    BY <1>typed, <2>1
  <2> QED
    BY <1>1, <2>1, <2>2, <2>3, <2>4, FewerWorkers, WorkerNumbers
<1> QED
  BY <1>2, <1>3, <1>4, <1>5, <1>6, <1>7 DEF WorkerStep

(* The other steps: a retry is a grant, a crash takes the workers' places. *)
LEMMA WorkersOther ==
  ASSUME TypeInv, TypeInv', WorkersInv, NEW m \in Message,
         \/ \E h \in Handler, n \in Message : Receive(h, n)
         \/ CrashAPI \/ CrashAI \/ ListFailed
         \/ \E n \in Message : Retry(n)
         \/ UNCHANGED vars
  PROVE  recorded'[m] + MayRecord(m)' <= Allowed(m)' + syncs'[m]
<1>1. CASE \/ \E h \in Handler, n \in Message : Receive(h, n)
           \/ CrashAPI \/ ListFailed \/ UNCHANGED vars
  <2>1. UNCHANGED <<workerVars, status, recorded, retries, syncs>>
    BY <1>1 DEF Receive, CrashAPI, ListFailed, vars, rowVars, chatVars, countVars
  <2>2. Grants(m)' = Grants(m) /\ Reading(m)' = Reading(m) /\ Marked(m)' = Marked(m)
    BY <2>1, SameWorkers DEF Grants
  <2> QED
    BY <2>1, <2>2, FewerWorkers, WorkerNumbers
<1>2. CASE CrashAI
  <2>1. UNCHANGED <<status, recorded, retries, syncs>> /\ \A w \in Worker : wpc'[w] = "idle"
    BY <1>2 DEF CrashAI, rowVars, chatVars, countVars
  <2>2. Reading(m)' \subseteq Reading(m) /\ Marked(m)' \subseteq Marked(m)
    BY <2>1 DEF Reading, Marked
  <2>3. Grants(m)' = Grants(m)
    BY <2>1 DEF Grants
  <2> QED
    BY <2>1, <2>2, <2>3, FewerWorkers, WorkerNumbers
<1>3. ASSUME NEW n \in Message, Retry(n)
      PROVE  recorded'[m] + MayRecord(m)' <= Allowed(m)' + syncs'[m]
  <2>1. /\ UNCHANGED <<workerVars, recorded, syncs>>
        /\ status' = [status EXCEPT ![n] = "pending"]
        /\ retries' = [retries EXCEPT ![n] = @ + 1]
    BY <1>3 DEF Retry, chatVars
  <2>2. Reading(m)' = Reading(m) /\ Marked(m)' = Marked(m)
    BY <2>1, SameWorkers
  <2>3. status \in [Message -> Status \cup {"none"}] /\ retries \in [Message -> Nat]
    BY DEF TypeInv, TypeOK
  <2>4. CASE m = n
    <3>1. status'[m] = "pending" /\ retries'[m] = retries[m] + 1
      BY <2>1, <2>3, <2>4
    <3>2. Grants(m) + 1 <= Grants(m)'
      BY <2>3, <3>1 DEF Grants
    <3> QED
      BY <2>1, <2>2, <3>1, <3>2, OneGrantMore
  <2>5. CASE m # n
    <3>1. status'[m] = status[m] /\ Grants(m)' = Grants(m)
      BY <2>1, <2>3, <2>5 DEF Grants
    <3> QED
      BY <2>1, <2>2, <3>1, FewerWorkers, WorkerNumbers
  <2> QED
    BY <2>4, <2>5
<1> QED
  BY <1>1, <1>2, <1>3

(* For any number of workers, whose claim is not one transaction: each of  *)
(* them records a message at most once for each time its row was pending,  *)
(* whatever crashes, retries and late writes come between its read of the  *)
(* row and its mark (processNextQueueItem).                                *)
THEOREM DuplicatesAreBounded == Spec => []DuplicatesBounded
<1>1. Init => WorkersInv
  <2> SUFFICES ASSUME Init, NEW m \in Message
               PROVE  recorded[m] + MayRecord(m) <= Allowed(m) + syncs[m]
    BY DEF WorkersInv
  <2>1. Marked(m) = {} /\ Reading(m) = {}
    BY DEF Init, Marked, Reading
  <2>2. MayRecord(m) = 0
    BY <2>1, FS_EmptySet DEF Init, MayRecord
  <2>3. Allowed(m) \in Nat
    BY InitTypeInv, WorkerNumbers
  <2> QED
    BY <2>2, <2>3 DEF Init
<1>2. TypeInv /\ TypeInv' /\ WorkersInv /\ [Next]_vars => WorkersInv'
  <2> SUFFICES ASSUME TypeInv, TypeInv', WorkersInv, [Next]_vars, NEW m \in Message
               PROVE  recorded'[m] + MayRecord(m)' <= Allowed(m)' + syncs'[m]
    BY DEF WorkersInv
  <2> QED
    BY WorkersHandler, WorkersWorker, WorkersOther DEF Next
<1>3. TypeInv /\ WorkersInv => DuplicatesBounded
  <2> SUFFICES ASSUME TypeInv, WorkersInv, NEW m \in Message
               PROVE  recorded[m] <= Cardinality(Worker) * Grants(m) + syncs[m]
    BY DEF DuplicatesBounded
  <2>1. MayRecord(m) \in Nat /\ recorded[m] + MayRecord(m) <= Allowed(m) + syncs[m]
    BY WorkerNumbers DEF WorkersInv, MayRecord
  <2> QED
    BY <2>1, WorkerNumbers DEF Allowed
<1> QED
  BY <1>1, <1>2, <1>3, AlwaysTypeInv, PTL DEF Spec
=============================================================================
