---------------------------- MODULE AiProviders -----------------------------
(***************************************************************************)
(* Which AI provider is called, and with which key.  The admin page saves  *)
(* one provider as the chosen one, one for the chat's answers, and a key   *)
(* under each provider's name; a workspace may have keys of its own.       *)
(* Three readers in the chat and two in the receipts work the choice out   *)
(* by themselves.  A key is encrypted under the secret of its time.        *)
(***************************************************************************)
EXTENDS FiniteSets

CONSTANTS
  PageCode,    \* providers the admin page offers
  OwnCode,     \* providers a workspace has a key of its own for
  NoCode       \* an empty setting

Listed == {"gemini", "openai", "anthropic", "sumopod", "openai_compatible"}

ASSUME AiConstants ==
  /\ PageCode \subseteq {"gemini", "openai", "claude", "sumopod"} /\ "gemini" \in PageCode
  /\ OwnCode \subseteq Listed
  /\ NoCode \notin Listed \cup PageCode

VARIABLES
  chosen,      \* receipt_active_ai_provider
  botChosen,   \* wa_bot_active_ai_provider
  keys,        \* receipt_api_key_<name> and the secret it was encrypted under
  own,         \* finance_receipt_provider_configs
  legacy       \* whether the earlier secret is still listed for the receipts

aiVars == <<chosen, botChosen, keys, own, legacy>>

KeyState == {"none", "current", "earlier"}

AiTypeOK ==
  /\ {chosen, botChosen} \subseteq PageCode \cup {NoCode}
  /\ keys \in [PageCode -> KeyState]
  /\ own \in [OwnCode -> [enabled : BOOLEAN, key : KeyState]]
  /\ legacy \in BOOLEAN

AiInit ==
  /\ chosen = NoCode /\ botChosen = NoCode
  /\ keys = [c \in PageCode |-> "none"]
  /\ own = [c \in OwnCode |-> [enabled |-> FALSE, key |-> "none"]]
  /\ legacy \in BOOLEAN

-----------------------------------------------------------------------------
(* The chat's three readers: where the call goes and under which name the  *)
(* key is looked for.                                                      *)

Normalized(c) == IF c = "claude" THEN "anthropic" ELSE c

OrGemini(c) == IF c = NoCode THEN "gemini" ELSE c

(* parseTransactionWithLLM looks for the key before it normalizes the name. *)
ParseTransaction ==
  LET c == OrGemini(chosen) IN [endpoint |-> Normalized(c), slot |-> c]

(* scanReceiptWithLLM normalizes first.                                    *)
ScanReceiptOfChat ==
  LET c == Normalized(OrGemini(chosen)) IN [endpoint |-> c, slot |-> c]

(* Mutant: without a provider of its own the answer goes to Gemini. *)
InteractiveResponse_OwnOrGemini ==
  LET c == Normalized(OrGemini(botChosen))
  IN [endpoint |-> c, slot |-> c]

(* generateInteractiveResponseWithLLM has a setting of its own.            *)
InteractiveResponse ==
  LET c == Normalized(OrGemini(IF botChosen = NoCode THEN chosen ELSE botChosen))
  IN [endpoint |-> c, slot |-> c]

(* GetGlobalSettingRaw: what cannot be decrypted is returned as it is.     *)
Stored(c) == c \in PageCode /\ keys[c] # "none"

(* A name without a key leaves the call to the key of Gemini, if any.      *)
CallOf(t) ==
  [endpoint |-> t.endpoint,
   slot |-> IF Stored(t.slot) THEN t.slot
            ELSE IF Stored("gemini") THEN "gemini" ELSE NoCode]

-----------------------------------------------------------------------------
(* The receipts' readers                                                   *)

(* decryptSavedAPIKey tries the secrets listed.                            *)
Readable(k) == k = "current" \/ (k = "earlier" /\ legacy)

(* GetConfigStatus                                                         *)
HasConfiguredProvider ==
  \/ \E c \in OwnCode : own[c].enabled /\ own[c].key # "none"
  \/ \E c \in Listed : Stored(c)

(* resolveAllActiveProviders: the workspace's own, then the admin's.       *)
OwnProviders == {c \in OwnCode : own[c].enabled /\ Readable(own[c].key)}

GlobalProviders ==
  {c \in Listed \cup ({chosen} \ {NoCode}) : Stored(c) /\ Readable(keys[c])} \ OwnProviders

(* extractReceipt has no case for a name it does not know.                 *)
Usable == (OwnProviders \cup GlobalProviders) \cap Listed

(* The first candidate, when the scan asks for none: the row is made out   *)
(* to it before any is tried.  "gemini" comes first unless one is chosen.  *)
Primary ==
  IF OwnProviders # {} THEN OwnProviders
  ELSE IF OrGemini(chosen) \in GlobalProviders THEN {OrGemini(chosen)}
  ELSE GlobalProviders

(* TestProviderConnection without a key typed in: the saved one.           *)
TestPasses(c) == c \in OwnCode /\ own[c].key # "none" /\ Readable(own[c].key)

-----------------------------------------------------------------------------
(* Writers of the settings                                                 *)

(* The admin page saves one setting at a time; a key only when typed in.   *)
SetProvider(c) ==
  /\ \/ chosen' = c /\ UNCHANGED botChosen
     \/ botChosen' = c /\ UNCHANGED chosen
  /\ UNCHANGED <<keys, own, legacy>>

SetKey(c) ==
  /\ keys' = [keys EXCEPT ![c] = "current"]
  /\ UNCHANGED <<chosen, botChosen, own, legacy>>

(* UpsertProviderConfig: without a key typed in the row keeps its own.     *)
UpsertProviderConfig(c, enabled, key) ==
  /\ own' = [own EXCEPT ![c] =
       [enabled |-> enabled,
        key |-> CASE key = "typed" -> "current" [] key = "cleared" -> "none"
                  [] OTHER -> own[c].key]]
  /\ UNCHANGED <<chosen, botChosen, keys, legacy>>

(* The program starts again with another secret, and lists the last one    *)
(* for the receipts or does not.                                           *)
Older(k) == IF k = "current" THEN "earlier" ELSE k

ChangeSecret(listed) ==
  /\ \A c \in PageCode : keys[c] # "earlier"
  /\ \A c \in OwnCode : own[c].key # "earlier"
  /\ keys' = [c \in PageCode |-> Older(keys[c])]
  /\ own' = [c \in OwnCode |-> [own[c] EXCEPT !.key = Older(own[c].key)]]
  /\ legacy' = listed
  /\ UNCHANGED <<chosen, botChosen>>

AiNext ==
  \/ \E c \in PageCode : SetProvider(c) \/ SetKey(c)
  \/ \E c \in OwnCode, enabled \in BOOLEAN, key \in {"typed", "cleared", "kept"} :
       UpsertProviderConfig(c, enabled, key)
  \/ \E listed \in BOOLEAN : ChangeSecret(listed)

AiSpec == AiInit /\ [][AiNext]_aiVars

-----------------------------------------------------------------------------
(* Properties                                                              *)

(* The status says that a receipt can be scanned exactly when a provider   *)
(* is left to try, but for keys of an earlier secret that is not listed; a *)
(* provider that is switched on and passes its test is among those tried.  *)
StatusIsTrue ==
  /\ Usable # {} => HasConfiguredProvider
  /\ HasConfiguredProvider =>
       \/ Usable # {}
       \/ /\ ~legacy
          /\ \/ \E c \in OwnCode : own[c].enabled /\ own[c].key = "earlier"
             \/ \E c \in PageCode \cap Listed : keys[c] = "earlier"
  /\ \A c \in OwnCode : own[c].enabled /\ TestPasses(c) => c \in Usable

(* The chat's readers do not always agree.  A text is not read as a        *)
(* receipt is, the same provider with the same key, exactly when Claude is *)
(* chosen and has a key, which only the text finds; an answer is not made  *)
(* as a receipt is read exactly when the answers' provider is another.  A  *)
(* provider is called with the key of another only when the settings hold  *)
(* none under its own name.  A receipt sent to the page is tried first at  *)
(* the provider a receipt sent to the chat is, when the workspace has no   *)
(* provider of its own and that one's key can be read.                     *)
ReadersAgree ==
  /\ CallOf(ParseTransaction) # CallOf(ScanReceiptOfChat) <=>
       chosen = "claude" /\ Stored("claude")
  /\ CallOf(InteractiveResponse) # CallOf(ScanReceiptOfChat) <=>
       botChosen # NoCode /\ Normalized(botChosen) # Normalized(OrGemini(chosen))
  /\ \A t \in {ParseTransaction, ScanReceiptOfChat, InteractiveResponse} :
       CallOf(t).slot # t.endpoint => ~Stored(t.endpoint)
  /\ (OwnProviders = {} /\ ScanReceiptOfChat.endpoint \in GlobalProviders) =>
       ScanReceiptOfChat.endpoint \in Primary

(* The status and the readers agree but for the cases named.               *)
ProvidersAgree == StatusIsTrue /\ ReadersAgree
=============================================================================
