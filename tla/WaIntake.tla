------------------------------ MODULE WaIntake ------------------------------
(***************************************************************************)
(* Whose message is it?  The webhook reads the posts of five gateways,     *)
(* looks up the account that the sender's number is linked to, and puts    *)
(* both into the queue; the worker looks the account up again, later and   *)
(* by whatever the row has, and records under what it finds.  The links    *)
(* change meanwhile.  One message of one person.                           *)
(***************************************************************************)
EXTENDS Naturals, Sequences, Functions

CONSTANTS Holder,    \* accounts the person links and unlinks
          NoHolder

ASSUME IntakeConstants == NoHolder \notin Holder

VARIABLES
  linked,   \* whatsapp_sessions: the account under each form of the number
  phase,    \* where the message is
  msg,      \* what the webhook made of the post
  ids,      \* tenant and user in the queue's row
  charged,  \* the account it is recorded for
  held,     \* accounts of the sender since it was posted, for the property
  always    \* whether the sender had the first of them all along, likewise

intakeVars == <<linked, phase, msg, ids, charged, held, always>>

(* The person's number and the alias a gateway may send in its place; an   *)
(* account page keeps the number in its local form.                        *)
Sent == {"number", "alias"}
Form == Sent \cup {"local"}

Unread == [sender |-> "group", group |-> FALSE]

IntakeTypeOK ==
  /\ linked \in [Form -> Holder \cup {NoHolder}]
  /\ phase \in {"none", "read", "found", "queued", "sync", "record", "done"}
  /\ msg \in [sender : Sent \cup {"group"}, group : BOOLEAN]
  /\ {ids, charged} \subseteq Holder \cup {NoHolder}
  /\ held \in SUBSET Holder
  /\ always \in BOOLEAN

IntakeInit ==
  /\ linked = [f \in Form |-> NoHolder]
  /\ phase = "none" /\ msg = Unread
  /\ ids = NoHolder /\ charged = NoHolder
  /\ held = {} /\ always = FALSE

-----------------------------------------------------------------------------
(* The posts                                                               *)

(* The words that matter, in their order; named: the post says which       *)
(* member of a group wrote it; own: it is the bot's own message.           *)
Words == {<<>>, <<"text">>, <<"scan">>, <<"mention">>, <<"mention", "scan">>,
          <<"scan", "mention">>, <<"mention", "text">>}

Post == [gateway : {"form", "fonnte", "evolution", "waha", "cloud"}, group : BOOLEAN,
         form : Sent, named : BOOLEAN, own : BOOLEAN, words : Words, image : BOOLEAN]

(* What the gateways send: only two of them groups without a name of the   *)
(* member, aliases, or the bot's own messages.                             *)
Sendable(p) ==
  /\ p.gateway \in {"form", "cloud"} => ~p.group
  /\ p.gateway \notin {"evolution", "waha"} => p.form = "number" /\ ~p.own /\ p.named
  /\ p.words # <<>> \/ p.image

(* Who the message is from: in a private chat the other side of it, in a   *)
(* group the member, or the group itself if none is named.  Only WAHA says *)
(* which messages are the bot's own in a way that is looked at.            *)
ReadSender(p) ==
  IF p.gateway = "waha" /\ p.own THEN {}
  ELSE IF p.group /\ ~p.named THEN {"group"}
  ELSE {p.form}

(* The words: an image alone asks for a scan, and its address is added to  *)
(* a command that begins with it.  Of the Cloud API's images not even the  *)
(* caption is read.                                                        *)
ReadWords(p) ==
  LET words == IF p.image /\ p.gateway = "cloud" THEN <<>>
               ELSE IF p.image /\ p.words = <<>> THEN <<"scan">>
               ELSE p.words
  IN  IF p.image /\ words # <<>> /\ Head(words) = "scan" THEN Append(words, "address") ELSE words

(* A message to a group must name the bot, and the name is taken out.      *)
Addressed(p) == ~p.group \/ "mention" \in Range(ReadWords(p))

(* The words that are left, whatever their order.                          *)
Asked(p) == Range(ReadWords(p)) \ (IF p.group THEN {"mention"} ELSE {})

Taken(p) == ReadWords(p) # <<>> /\ Addressed(p)

-----------------------------------------------------------------------------
(* The webhook                                                             *)

(* A post with the wrong secret is refused, others may be none of ours.    *)
Arrives(p) ==
  /\ phase = "none" /\ Taken(p)
  /\ \E s \in ReadSender(p) :
       /\ msg' = [sender |-> s, group |-> p.group]
       /\ held' = {linked[f] : f \in {s} \cap Sent} \ {NoHolder}
  /\ always' = (held' # {})
  /\ phase' = "read"
  /\ UNCHANGED <<linked, ids, charged>>

(* GetSessionByPhone                                                       *)
HolderOf(sender) == IF sender \in Sent THEN linked[sender] ELSE NoHolder

LookUpSender ==
  /\ phase = "read"
  /\ ids' = HolderOf(msg.sender)
  /\ phase' = "found"
  /\ UNCHANGED <<linked, msg, charged, held, always>>

(* The row gets the chat to answer to and the account; if it cannot be     *)
(* written the webhook goes on with the sender.                            *)
QueueMessage ==
  /\ phase = "found"
  /\ phase' \in {"queued", "sync"}
  /\ UNCHANGED <<linked, msg, ids, charged, held, always>>

(* Mutant: the worker asks for the chat's number only. *)
FindHolder_ByChat == IF phase = "queued" /\ msg.group THEN NoHolder ELSE HolderOf(msg.sender)

(* ProcessAIChat: by the account if there is one, under whatever number it *)
(* is linked by now; otherwise by the sender, or by the row's chat.        *)
FindHolder ==
  IF ids # NoHolder
  THEN IF \E f \in Form : linked[f] = ids THEN ids ELSE NoHolder
  ELSE IF phase = "queued" /\ msg.group THEN NoHolder
  ELSE HolderOf(msg.sender)

(* Without an account the answer says that the number is not registered.   *)
StartChat ==
  /\ phase \in {"queued", "sync"}
  /\ charged' = FindHolder
  /\ phase' = IF FindHolder = NoHolder THEN "done" ELSE "record"
  /\ UNCHANGED <<linked, msg, ids, held, always>>

RecordMessage ==
  /\ phase = "record"
  /\ phase' = "done"
  /\ UNCHANGED <<linked, msg, ids, charged, held, always>>

-----------------------------------------------------------------------------
(* The links, as the chat and the account page change them                 *)

(* The history of the sender's link, while the message is under way.       *)
Follow ==
  LET now == {linked'[f] : f \in {msg.sender} \cap Sent} \ {NoHolder} IN
  IF phase \in {"none", "done"} THEN UNCHANGED <<held, always>>
  ELSE /\ held' = held \cup now
       /\ always' = (always /\ now # {} /\ held' = held)

(* resolveJIDViaWAHA: what the first address answers is taken, even if the *)
(* second would know the alias.                                            *)
Resolved(first, second) == IF first = "none" THEN second ELSE first

(* ProcessLogin with a code of account a: the profile's number is the      *)
(* sender's, or what the gateway makes of it is.  The older rows of the    *)
(* account are removed unless that fails.                                  *)
LinkFromChat(f, a, first, second, removed) ==
  /\ f = "number" \/ Resolved(first, second) = f
  /\ linked' = [g \in Form |-> CASE g = f -> a
                                 [] g # f /\ removed /\ linked[g] = a -> NoHolder
                                 [] OTHER -> linked[g]]
  /\ Follow
  /\ UNCHANGED <<phase, msg, ids, charged>>

(* ConnectDirect from the account page.                                    *)
LinkFromPage(a, removed) ==
  /\ linked["local"] = NoHolder
  /\ linked' = [g \in Form |-> CASE g = "local" -> a
                                 [] g # "local" /\ removed /\ linked[g] = a -> NoHolder
                                 [] OTHER -> linked[g]]
  /\ Follow
  /\ UNCHANGED <<phase, msg, ids, charged>>

Unlink(a) ==
  /\ \E f \in Form : linked[f] = a
  /\ linked' = [f \in Form |-> IF linked[f] = a THEN NoHolder ELSE linked[f]]
  /\ Follow
  /\ UNCHANGED <<phase, msg, ids, charged>>

IntakeNext ==
  \/ \E p \in Post : Sendable(p) /\ Arrives(p)
  \/ LookUpSender \/ QueueMessage \/ StartChat \/ RecordMessage
  \/ \E f \in Sent, a \in Holder, removed \in BOOLEAN,
        first \in {"none", "number", "alias"}, second \in {"none", "alias"} :
       LinkFromChat(f, a, first, second, removed)
  \/ \E a \in Holder : Unlink(a) \/ \E removed \in BOOLEAN : LinkFromPage(a, removed)

IntakeSpec == IntakeInit /\ [][IntakeNext]_intakeVars

-----------------------------------------------------------------------------
(* Properties                                                              *)

(* No post is read as someone's who did not write it, but for the bot's    *)
(* own messages through Evolution; and one taken that asks for the scan of *)
(* an image reaches the chat with the image, unless it names the bot       *)
(* before the command.                                                     *)
PostsAreReadRight ==
  \A p \in Post : Sendable(p) /\ Taken(p) =>
    /\ p.own => ReadSender(p) = {} \/ p.gateway = "evolution"
    /\ ReadSender(p) \subseteq {p.form} \cup (IF p.named THEN {} ELSE {"group"})
    /\ p.image /\ "scan" \in Asked(p) =>
         "address" \in Asked(p) \/ p.words[1] = "mention"

(* A message is recorded for an account that its sender's number had at    *)
(* some time since it was posted, and for the sender's account if that was *)
(* the same all along, wherever it waited and however it was looked up.    *)
MessageIsItsSenders ==
  phase = "done" =>
    /\ charged \in held \cup {NoHolder}
    /\ always => charged \in held

IntakeIsRight == PostsAreReadRight /\ MessageIsItsSenders
=============================================================================
