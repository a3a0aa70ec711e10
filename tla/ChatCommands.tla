---------------------------- MODULE ChatCommands ----------------------------
(***************************************************************************)
(* Commands of the chat on recorded transactions.  A message names one by  *)
(* the first characters of its id and is carried out in two transactions:  *)
(* the first finds a row, the second searches again and deletes or writes  *)
(* it.  The second writes every field: what the message does not ask for   *)
(* is filled in from the row found first, the category by the name it is   *)
(* shown under, which is then looked up again.                             *)
(***************************************************************************)
EXTENDS FiniteSets

CONSTANTS
  ChatTx,           \* rows of the ledger
  RowType,          \* types of rows
  FieldValue,       \* amounts, descriptions and dates
  ChatCategory, ChatName,
  Nameless,         \* "Tanpa Kategori", which a row without a category is shown under
  ChatMessage,      \* what messages ask for
  CommandHandler, NoChatCategory, Unsaid

Field == {"type", "category", "text"}

ASSUME CommandConstants ==
  /\ RowType \subseteq {"expense", "income", "transfer", "savings"} /\ RowType # {}
  /\ FieldValue # {}
  /\ Nameless \in ChatName /\ NoChatCategory \notin ChatCategory
  /\ Unsaid \notin RowType \cup ChatName \cup FieldValue
  /\ ChatMessage \subseteq [type : RowType \cup {Unsaid}, category : ChatName \cup {Unsaid},
                            text : FieldValue \cup {Unsaid}]

VARIABLES
  rows,        \* finance_transactions, as far as the commands see them
  chatCats,    \* finance_categories
  command      \* handlers between their two transactions

commandVars == <<rows, chatCats, command>>

HasCategory(type) == type \notin {"transfer", "savings"}

NoRow == [state |-> "unborn", type |-> CHOOSE y \in RowType : TRUE,
          category |-> NoChatCategory, text |-> CHOOSE x \in FieldValue : TRUE]

NoChatCategoryRow == [live |-> FALSE, name |-> Nameless, type |-> CHOOSE y \in RowType : TRUE]

CommandIdle == [step |-> "idle", ids |-> {}, found |-> {}, asked |-> {}, write |-> {},
                stale |-> FALSE]

(* stale: the row found, or its category, was written since, for the       *)
(* property.                                                               *)
CommandTypeOK ==
  /\ rows \in [ChatTx -> [state : {"unborn", "live", "gone"}, type : RowType,
                          category : ChatCategory \cup {NoChatCategory},
                          text : FieldValue]]
  /\ chatCats \in [ChatCategory -> [live : BOOLEAN, name : ChatName, type : RowType]]
  /\ command \in [CommandHandler ->
        [step : {"idle", "delete", "update"}, ids : SUBSET ChatTx, found : SUBSET ChatTx,
         asked : SUBSET Field,
         write : SUBSET [type : RowType, category : ChatName, text : FieldValue],
         stale : BOOLEAN]]

CommandInit ==
  /\ rows = [t \in ChatTx |-> NoRow]
  /\ chatCats = [c \in ChatCategory |-> NoChatCategoryRow]
  /\ command = [h \in CommandHandler |-> CommandIdle]

(* The rows there are of those whose ids begin as the message says.        *)
Named(ids) == {t \in ids : rows[t].state = "live"}

ShownAs(c) == IF c = NoChatCategory THEN Nameless ELSE chatCats[c].name

CategoriesCalled(name, type) ==
  {c \in ChatCategory : chatCats[c].live /\ chatCats[c].name = name /\ chatCats[c].type = type}

(* Rows are written: whoever has found one of them holds what it was.      *)
Outdated(T) ==
  [h \in CommandHandler |->
     [command[h] EXCEPT !.stale = command[h].stale \/ T \cap command[h].found # {}]]

RowsOf(c) == {t \in ChatTx : rows[t].category = c}

-----------------------------------------------------------------------------
(* The chat                                                                *)

(* FindChatTransaction: LIMIT 1 without an order.  No row, and a row that  *)
(* cannot be read, are answered so.                                        *)
FindForDelete(h, ids) ==
  /\ command[h].step = "idle"
  /\ Named(ids) # {}
  /\ command' = [command EXCEPT ![h] = [CommandIdle EXCEPT !.step = "delete", !.ids = ids]]
  /\ UNCHANGED <<rows, chatCats>>

OrElse(said, found) == IF said = Unsaid THEN found ELSE said

FindForUpdate(h, ids, m) ==
  /\ command[h].step = "idle"
  /\ \E t \in Named(ids) :
       command' = [command EXCEPT ![h] =
         [step |-> "update", ids |-> ids, found |-> {t},
          asked |-> {f \in Field : m[f] # Unsaid},
          write |-> {[type |-> OrElse(m.type, rows[t].type),
                      category |-> OrElse(m.category, ShownAs(rows[t].category)),
                      text |-> OrElse(m.text, rows[t].text)]},
          stale |-> FALSE]]
  /\ UNCHANGED <<rows, chatCats>>

(* DeleteChatTransaction searches again; its items go with the row.        *)
DeleteChatTransaction(h) ==
  /\ command[h].step = "delete"
  /\ \E t \in Named(command[h].ids) : rows' = [rows EXCEPT ![t] = [NoRow EXCEPT !.state = "gone"]]
  /\ command' = [command EXCEPT ![h] = CommandIdle]
  /\ UNCHANGED chatCats

(* The category of a name: one that is there, or a new one.                *)
CategoryFor(c, name, type) ==
  \/ c \in CategoriesCalled(name, type) /\ UNCHANGED chatCats
  \/ /\ CategoriesCalled(name, type) = {} /\ c \in ChatCategory /\ ~chatCats[c].live
     /\ chatCats' = [chatCats EXCEPT ![c] = [live |-> TRUE, name |-> name, type |-> type]]

(* Mutant: the type the message does not give is an expense's.             *)
UpdateChatTransaction_AsExpense(h) ==
  /\ command[h].step = "update"
  /\ \E w \in command[h].write, t \in Named(command[h].ids),
        c \in ChatCategory \cup {NoChatCategory} :
       /\ CategoryFor(c, w.category, "expense")
       /\ rows' = [rows EXCEPT ![t] = [state |-> "live", type |-> "expense", category |-> c,
                                       text |-> w.text]]
       /\ command' = [Outdated({t}) EXCEPT ![h] = CommandIdle]

(* UpdateChatTransaction searches again too, and may find another row.     *)
(* The subtotal, which no message asks for, always becomes the amount; it  *)
(* is not among the fields kept here.                                      *)
UpdateChatTransaction(h) ==
  /\ command[h].step = "update"
  /\ \E w \in command[h].write, t \in Named(command[h].ids),
        c \in ChatCategory \cup {NoChatCategory} :
       /\ IF HasCategory(w.type) THEN CategoryFor(c, w.category, w.type)
          ELSE c = NoChatCategory /\ UNCHANGED chatCats
       /\ rows' = [rows EXCEPT ![t] = [state |-> "live", type |-> w.type, category |-> c,
                                       text |-> w.text]]
       /\ command' = [Outdated({t}) EXCEPT ![h] = CommandIdle]

(* No row, or a failure, rolls the second transaction back.                *)
CommandFails(h) ==
  /\ command[h].step # "idle"
  /\ command' = [command EXCEPT ![h] = CommandIdle]
  /\ UNCHANGED <<rows, chatCats>>

-----------------------------------------------------------------------------
(* The pages                                                               *)

(* A row is recorded, or written by its form.  Its category was looked at  *)
(* before; the foreign key asks only that it is still there.               *)
WriteRow(t, state, type, c, text) ==
  /\ rows[t].state = state
  /\ IF c = NoChatCategory THEN TRUE ELSE chatCats[c].live /\ HasCategory(type)
  /\ rows' = [rows EXCEPT ![t] = [state |-> "live", type |-> type, category |-> c,
                                  text |-> text]]
  /\ command' = Outdated({t})
  /\ UNCHANGED chatCats

DeleteRow(t) ==
  /\ rows[t].state = "live"
  /\ rows' = [rows EXCEPT ![t] = [NoRow EXCEPT !.state = "gone"]]
  /\ UNCHANGED <<chatCats, command>>

(* The form of a category adds one and changes it, whatever else is called *)
(* so; the foreign key clears the category of the rows of one deleted.     *)
WriteCategory(c, name, type) ==
  /\ HasCategory(type)
  /\ chatCats' = [chatCats EXCEPT ![c] = [live |-> TRUE, name |-> name, type |-> type]]
  /\ command' = Outdated(RowsOf(c))
  /\ UNCHANGED rows

DropCategory(c) ==
  /\ chatCats[c].live
  /\ chatCats' = [chatCats EXCEPT ![c] = NoChatCategoryRow]
  /\ rows' = [t \in ChatTx |-> IF t \in RowsOf(c)
                               THEN [rows[t] EXCEPT !.category = NoChatCategory] ELSE rows[t]]
  /\ command' = Outdated(RowsOf(c))

CommandNext ==
  \/ \E h \in CommandHandler, ids \in SUBSET ChatTx :
       FindForDelete(h, ids) \/ \E m \in ChatMessage : FindForUpdate(h, ids, m)
  \/ \E h \in CommandHandler :
       DeleteChatTransaction(h) \/ UpdateChatTransaction(h) \/ CommandFails(h)
  \/ \E t \in ChatTx, state \in {"unborn", "live"}, type \in RowType,
        c \in ChatCategory \cup {NoChatCategory}, text \in FieldValue :
       WriteRow(t, state, type, c, text)
  \/ \E t \in ChatTx : DeleteRow(t)
  \/ \E c \in ChatCategory, name \in ChatName, type \in RowType : WriteCategory(c, name, type)
  \/ \E c \in ChatCategory : DropCategory(c)

CommandSpec == CommandInit /\ [][CommandNext]_commandVars

-----------------------------------------------------------------------------
(* Properties                                                              *)

(* What a row's category is called does not lead back to it: there is      *)
(* none, its form made it one of another type, or another is called so.    *)
NotFoundAgain(t) ==
  LET c == rows[t].category
  IN  c = NoChatCategory \/ CategoriesCalled(chatCats[c].name, rows[t].type) # {c}

(* An id that begins like no other, of a row that was not written since it *)
(* was found, and neither was its category: the command changes none of    *)
(* the type, the category, the amount, the description and the date that   *)
(* it was not asked for, except the category, when the type is asked for   *)
(* or the category's name does not lead back to it; only then it makes a   *)
(* category nobody asked for.                                              *)
ChangesAsAsked(h, t) ==
  LET asked == command[h].asked
  IN  /\ command[h].step = "update" /\ command'[h].step = "idle"
      /\ command[h].ids = {t} /\ ~command[h].stale /\ rows' # rows
      => /\ \A u \in ChatTx \ {t} : rows'[u] = rows[u]
         /\ "type" \in asked \/ rows'[t].type = rows[t].type
         /\ "text" \in asked \/ rows'[t].text = rows[t].text
         /\ \/ {"type", "category"} \cap asked # {}
            \/ rows'[t].category = rows[t].category /\ UNCHANGED chatCats
            \/ NotFoundAgain(t)

UnaskedChangeIsExplained ==
  [][\A h \in CommandHandler, t \in ChatTx : ChangesAsAsked(h, t)]_commandVars
=============================================================================
