--------------------------- MODULE WhatsappProofs ---------------------------
(***************************************************************************)
(* Proofs about the chat: the link of a number to an account, the          *)
(* commands, the scans that wait for a yes, the sender of a message, and   *)
(* the choice of a provider, for any accounts, numbers, rows, scans,       *)
(* handlers and messages.                                                  *)
(***************************************************************************)
EXTENDS WaLink, ChatCommands, WaChat, WaIntake, AiProviders, FiniteSetTheorems,
        TLAPS

-----------------------------------------------------------------------------
(***************************************************************************)
(* The link: remove, then insert is enough but for a failed removal or two *)
(* requests past theirs at once.                                           *)
(***************************************************************************)
Explains(a) == a \in kept \cup crossed

(* Who is about to insert finds no row of the account,                     *)
InsertsIntoNone ==
  \A r \in LinkRequest : \A p \in Phone :
    lreq[r].step = "insert" /\ lreq[r].account \in Account /\ links[p] = lreq[r].account
      => Explains(lreq[r].account)

(* and so no account has two.                                              *)
AtMostOne ==
  \A a \in Account : \A p, q \in Phone :
    links[p] = a /\ links[q] = a /\ p # q => Explains(a)

(* A code and a request always have an account.                            *)
AccountsInUse ==
  /\ \A c \in LinkCode : codes[c].state # "none" => codes[c].account \in Account
  /\ \A r \in LinkRequest : lreq[r].step # "idle" => lreq[r].account \in Account

LinkInv == LinkTypeOK /\ AccountsInUse /\ InsertsIntoNone /\ AtMostOne

(* At first no number is linked.                                           *)
LEMMA LinkInitInv == LinkInit => LinkInv
BY LinkConstants DEF LinkInit, LinkInv, LinkTypeOK, AccountsInUse, InsertsIntoNone,
                      AtMostOne, LinkIdle, NoLinkCode

(* The types, and that accounts are accounts, hold after every action.     *)
Typed == LinkTypeOK /\ AccountsInUse

(* Every action keeps the types of rows and requests,                      *)
LEMMA LinkTypeStep == Typed /\ [LinkNext]_linkVars => Typed'
<1> SUFFICES ASSUME Typed, [LinkNext]_linkVars PROVE Typed'
  OBVIOUS
<1> USE DEF Typed, AccountsInUse, LinkTypeOK, LinkIdle, NoLinkCode, LinkStep, LinkEnds
<1>1. ASSUME NEW a \in Account, NEW c \in LinkCode, NEW cleared \in BOOLEAN,
             GenerateOTP(a, c, cleared)
      PROVE  Typed'
  BY <1>1 DEF GenerateOTP
<1>2. ASSUME NEW c \in LinkCode, CodeExpires(c) PROVE Typed'
  BY <1>2 DEF CodeExpires
<1>3. ASSUME NEW r \in LinkRequest, NEW n \in PhoneNumber, NEW c \in LinkCode, ReadCode(r, n, c)
      PROVE  Typed'
  BY <1>3 DEF ReadCode, Phone
<1>4. ASSUME NEW r \in LinkRequest, NEW a \in Account, NEW n \in PhoneNumber, ConnectDirect(r, a, n)
      PROVE  Typed'
  BY <1>4 DEF ConnectDirect, Phone
<1>5. ASSUME NEW r \in LinkRequest, MatchProfile(r) PROVE Typed'
  BY <1>5 DEF MatchProfile
<1>6. ASSUME NEW r \in LinkRequest, DropByPhone(r) PROVE Typed'
  BY <1>6 DEF DropByPhone
<1>7. ASSUME NEW r \in LinkRequest, DropByAccount(r) PROVE Typed'
  <2>1. links' \in [Phone -> Account \cup {NoAccount}] /\ UNCHANGED <<codes, crossed>>
    BY <1>7 DEF DropByAccount
  <2>2. lreq' = [lreq EXCEPT ![r].step = "insert"] /\ lreq[r].step = "dropAccount"
    BY <1>7 DEF DropByAccount
  <2>3. kept' \in SUBSET Account
    <3>1. CASE kept' = kept
      BY <3>1
    <3>2. CASE kept' = kept \cup {lreq[r].account} /\ lreq[r].account \in Account
      BY <3>2
    <3> QED
      BY <1>7, <3>1, <3>2 DEF DropByAccount
  <2> QED
    BY <2>1, <2>2, <2>3
<1>8. ASSUME NEW r \in LinkRequest, InsertLink(r) PROVE Typed'
  <2>1. links' \in [Phone -> Account \cup {NoAccount}] /\ UNCHANGED <<codes, kept>>
    BY <1>8 DEF InsertLink
  <2>2. /\ lreq[r].step = "insert"
        /\ lreq' = [lreq EXCEPT ![r].step = "dropCode"] \/ lreq' = [lreq EXCEPT ![r] = LinkIdle]
    BY <1>8 DEF InsertLink
  <2>3. crossed' \in SUBSET Account
    BY <1>8 DEF InsertLink
  <2> QED
    BY <2>1, <2>2, <2>3
<1>9. ASSUME NEW r \in LinkRequest, DropCode(r) PROVE Typed'
  BY <1>9 DEF DropCode
<1>10. ASSUME NEW r \in LinkRequest, LinkRequestDies(r) PROVE Typed'
  BY <1>10 DEF LinkRequestDies
<1>11. ASSUME NEW a \in Account, Disconnect(a) PROVE Typed'
  BY <1>11 DEF Disconnect
<1>12. CASE UNCHANGED linkVars
  BY <1>12 DEF linkVars
<1> QED
  BY <1>1, <1>2, <1>3, <1>4, <1>5, <1>6, <1>7, <1>8, <1>9, <1>10, <1>11, <1>12 DEF LinkNext

(* The two facts about rows, step by step.                                 *)
RowsOK == InsertsIntoNone /\ AtMostOne

(* and rows that are two for one account only for a cause.                 *)
LEMMA RowsStep == LinkInv /\ [LinkNext]_linkVars => RowsOK'
<1> SUFFICES ASSUME LinkInv, [LinkNext]_linkVars PROVE RowsOK'
  OBVIOUS
<1>now. LinkTypeOK /\ RowsOK /\ NoAccount \notin Account
  BY LinkConstants DEF LinkInv, RowsOK
<1> USE <1>now DEF RowsOK, InsertsIntoNone, AtMostOne, Explains, LinkTypeOK, LinkIdle,
                   LinkStep, LinkEnds
<1>1. CASE UNCHANGED <<links, lreq, kept, crossed>>
  BY <1>1
<1>2. ASSUME NEW r \in LinkRequest, NEW n \in PhoneNumber, NEW c \in LinkCode, ReadCode(r, n, c)
      PROVE  RowsOK'
  BY <1>2 DEF ReadCode
<1>3. ASSUME NEW r \in LinkRequest, NEW a \in Account, NEW n \in PhoneNumber, ConnectDirect(r, a, n)
      PROVE  RowsOK'
  BY <1>3 DEF ConnectDirect
<1>4. ASSUME NEW r \in LinkRequest,
             MatchProfile(r) \/ DropCode(r) \/ LinkRequestDies(r)
      PROVE  RowsOK'
  BY <1>4 DEF MatchProfile, DropCode, LinkRequestDies
<1>5. ASSUME NEW r \in LinkRequest, DropByPhone(r) PROVE RowsOK'
  <2>1. \A p \in Phone : links'[p] \in {links[p], NoAccount}
    BY <1>5 DEF DropByPhone
  <2> QED
    BY <1>5, <2>1 DEF DropByPhone
<1>6. ASSUME NEW r \in LinkRequest, DropByAccount(r) PROVE RowsOK'
  <2>1. CASE kept' = kept \cup {lreq[r].account} /\ UNCHANGED links
    BY <1>6, <2>1 DEF DropByAccount
  <2>2. CASE links' = [p \in Phone |-> IF links[p] = lreq[r].account THEN NoAccount ELSE links[p]]
             /\ UNCHANGED kept
    BY <1>6, <2>2 DEF DropByAccount
  <2> QED
    BY <1>6, <2>1, <2>2 DEF DropByAccount
<1>7. ASSUME NEW r \in LinkRequest, InsertLink(r) PROVE RowsOK'
  <2>1. CASE UNCHANGED links
    BY <1>7, <2>1 DEF InsertLink
  <2>2. CASE links' = [links EXCEPT ![lreq[r].phone] = lreq[r].account]
    BY <1>7, <2>2 DEF InsertLink
  <2> QED
    BY <1>7, <2>1, <2>2 DEF InsertLink
<1>8. ASSUME NEW a \in Account, Disconnect(a) PROVE RowsOK'
  BY <1>8 DEF Disconnect
<1> QED
  BY <1>1, <1>2, <1>3, <1>4, <1>5, <1>6, <1>7, <1>8
     DEF LinkNext, linkVars, GenerateOTP, CodeExpires

(* A set without two elements has at most one.                             *)
LEMMA LinkInvSound == LinkInv => LinkedTwiceIsExplained
<1> SUFFICES ASSUME LinkInv, NEW a \in Account, a \notin kept \cup crossed
             PROVE  ~(Cardinality(LinksOf(a)) > 1)
  BY DEF LinkedTwiceIsExplained, LinkInv
<1>1. CASE LinksOf(a) = {}
  BY <1>1, FS_EmptySet
<1>2. ASSUME NEW p \in LinksOf(a) PROVE ~(Cardinality(LinksOf(a)) > 1)
  <2>1. LinksOf(a) = {p}
    BY <1>2 DEF LinksOf, LinkInv, AtMostOne, Explains
  <2> QED
    BY <2>1, FS_Singleton
<1> QED
  BY <1>1, <1>2

(* For any number of accounts, numbers and requests: an account is linked  *)
(* twice only after a removal that failed, or when two requests were past  *)
(* theirs at once (ProcessLogin, ConnectDirect).                           *)
THEOREM LinkedTwiceExplained == LinkSpec => []LinkedTwiceIsExplained
<1>1. LinkInit => LinkInv
  BY LinkInitInv
<1>2. LinkInv /\ [LinkNext]_linkVars => LinkInv'
  BY LinkTypeStep, RowsStep DEF LinkInv, RowsOK, Typed
<1>3. LinkInv => LinkedTwiceIsExplained
  BY LinkInvSound
<1> QED
  BY <1>1, <1>2, <1>3, PTL DEF LinkSpec

-----------------------------------------------------------------------------
(***************************************************************************)
(* Commands: what was not asked for is written as it was found, and a      *)
(* category by what it was called.                                         *)
(***************************************************************************)
ChatRow == [state : {"unborn", "live", "gone"}, type : RowType,
            category : ChatCategory \cup {NoChatCategory}, text : FieldValue]

ChatCat == [live : BOOLEAN, name : ChatName, type : RowType]

Change == [type : RowType, category : ChatName, text : FieldValue]

Command ==
  [step : {"idle", "delete", "update"}, ids : SUBSET ChatTx, found : SUBSET ChatTx,
   asked : SUBSET Field, write : SUBSET Change, stale : BOOLEAN]

(* A row's category is there, and is a row's that has one.                 *)
RowIsTidy(t) ==
  LET c == rows[t].category
  IN  c = NoChatCategory \/ (chatCats[c].live /\ HasCategory(rows[t].type))

(* What is to be written to t agrees with it where nothing was asked.      *)
Agrees(h, w, t) ==
  LET asked == command[h].asked
  IN  /\ "type" \in asked \/ w.type = rows[t].type
      /\ "text" \in asked \/ w.text = rows[t].text
      /\ "category" \in asked \/ w.category = ShownAs(rows[t].category)

(* A command that is about to write found one row, and holds what that row *)
(* has in the unasked fields until it is deleted or written.               *)
FoundIsFresh(h) ==
  command[h].step = "update" =>
    \E t \in command[h].ids, w \in Change :
      /\ command[h].found = {t} /\ command[h].write = {w}
      /\ command[h].stale \/ rows[t].state # "live" \/ Agrees(h, w, t)

CommandsInv ==
  /\ CommandTypeOK
  /\ \A t \in ChatTx : RowIsTidy(t)
  /\ \A h \in CommandHandler : FoundIsFresh(h)

CommandTypes ==
  /\ rows \in [ChatTx -> ChatRow] /\ chatCats \in [ChatCategory -> ChatCat]
  /\ command \in [CommandHandler -> Command]

LEMMA CommandTypesOK == CommandTypeOK <=> CommandTypes
BY DEF CommandTypeOK, CommandTypes, ChatRow, ChatCat, Command, Change

(* At first no command is under way and there are no rows.                 *)
LEMMA CommandInitInv == CommandInit => CommandsInv
<1> SUFFICES ASSUME CommandInit PROVE CommandsInv
  OBVIOUS
<1>1. CommandIdle \in Command /\ CommandIdle.step = "idle"
  BY DEF CommandIdle, Command
<1>2. NoRow \in ChatRow /\ NoRow.category = NoChatCategory /\ NoChatCategoryRow \in ChatCat
  BY CommandConstants DEF NoRow, ChatRow, NoChatCategoryRow, ChatCat
<1>3. CommandTypeOK
  BY <1>1, <1>2, CommandTypesOK DEF CommandInit, CommandTypes
<1>4. (\A t \in ChatTx : RowIsTidy(t)) /\ (\A h \in CommandHandler : FoundIsFresh(h))
  BY <1>1, <1>2 DEF CommandInit, RowIsTidy, FoundIsFresh
<1> QED
  BY <1>3, <1>4 DEF CommandsInv

(* What a command found stays as it was while the row and what its         *)
(* category is called do, and is out of date otherwise.                    *)
LEMMA KeptFresh ==
  ASSUME NEW g \in CommandHandler, NEW T \in SUBSET ChatTx, FoundIsFresh(g),
         command'[g].step = command[g].step, command'[g].ids = command[g].ids,
         command'[g].found = command[g].found, command'[g].asked = command[g].asked,
         command'[g].write = command[g].write,
         ~command'[g].stale => ~command[g].stale /\ T \cap command[g].found = {},
         command[g].ids \subseteq ChatTx,
         \A t \in ChatTx \ T :
           \/ rows'[t].state # "live"
           \/ rows'[t] = rows[t] /\ ShownAs(rows[t].category)' = ShownAs(rows[t].category)
  PROVE  FoundIsFresh(g)'
<1> SUFFICES ASSUME command[g].step = "update"
             PROVE  \E t \in command[g].ids, w \in Change :
                      /\ command[g].found = {t} /\ command[g].write = {w}
                      /\ command'[g].stale \/ rows'[t].state # "live" \/ Agrees(g, w, t)'
  BY DEF FoundIsFresh
<1>1. PICK t \in command[g].ids, w \in Change :
        /\ command[g].found = {t} /\ command[g].write = {w}
        /\ command[g].stale \/ rows[t].state # "live" \/ Agrees(g, w, t)
  BY DEF FoundIsFresh
<1>2. CASE t \in T
  BY <1>1, <1>2
<1>3. CASE t \notin T /\ rows'[t].state # "live"
  BY <1>1, <1>3
<1>4. CASE /\ t \notin T /\ rows'[t] = rows[t]
           /\ ShownAs(rows[t].category)' = ShownAs(rows[t].category)
  <2>1. command[g].stale => command'[g].stale
    OBVIOUS
  <2>2. Agrees(g, w, t) => Agrees(g, w, t)'
    BY <1>4 DEF Agrees
  <2> QED
    BY <1>1, <1>4, <2>1, <2>2
<1> QED
  BY <1>1, <1>2, <1>3, <1>4

(* A write of the rows or categories: commands age or end.                 *)
LEMMA WrittenKeeps ==
  ASSUME CommandsInv, NEW T \in SUBSET ChatTx,
         rows' \in [ChatTx -> ChatRow], chatCats' \in [ChatCategory -> ChatCat],
         \A t \in ChatTx : RowIsTidy(t)',
         \A t \in ChatTx \ T :
           \/ rows'[t].state # "live"
           \/ rows'[t] = rows[t] /\ ShownAs(rows[t].category)' = ShownAs(rows[t].category),
         \/ UNCHANGED command /\ T = {}
         \/ T = {} /\ \E h \in CommandHandler : command' = [command EXCEPT ![h] = CommandIdle]
         \/ command' = Outdated(T)
         \/ \E h \in CommandHandler : command' = [Outdated(T) EXCEPT ![h] = CommandIdle]
  PROVE  CommandsInv'
<1>1. CommandTypes
  BY CommandTypesOK DEF CommandsInv
<1>2. Outdated(T) \in [CommandHandler -> Command]
  <2>1. ASSUME NEW h \in CommandHandler
        PROVE  [command[h] EXCEPT !.stale = command[h].stale \/ T \cap command[h].found # {}]
                  \in Command
    BY <1>1 DEF CommandTypes, Command
  <2> QED
    BY <2>1 DEF Outdated
<1>3. CommandIdle \in Command /\ CommandIdle.step = "idle"
  BY DEF CommandIdle, Command
<1>4. command' \in [CommandHandler -> Command]
  BY <1>1, <1>2, <1>3 DEF CommandTypes
<1>5. ASSUME NEW g \in CommandHandler
      PROVE  FoundIsFresh(g)'
  <2>1. CASE command'[g] = CommandIdle
    BY <2>1, <1>3 DEF FoundIsFresh
  <2>2. CASE command'[g] = Outdated(T)[g] \/ (command'[g] = command[g] /\ T = {})
    <3>1. /\ command[g] \in Command
          /\ command[g].ids \subseteq ChatTx
      BY <1>1 DEF CommandTypes, Command
    <3>2. Outdated(T)[g] =
            [command[g] EXCEPT !.stale = command[g].stale \/ T \cap command[g].found # {}]
      BY DEF Outdated
    <3>3. /\ command'[g].step = command[g].step /\ command'[g].ids = command[g].ids
          /\ command'[g].found = command[g].found /\ command'[g].asked = command[g].asked
          /\ command'[g].write = command[g].write
      BY <2>2, <3>1, <3>2 DEF Command
    <3>4. ~command'[g].stale => ~command[g].stale /\ T \cap command[g].found = {}
      BY <2>2, <3>1, <3>2 DEF Command
    <3>5. FoundIsFresh(g)
      BY DEF CommandsInv
    <3> QED
      BY <3>1, <3>3, <3>4, <3>5, KeptFresh
  <2> QED
    BY <2>1, <2>2, <1>2, <1>1 DEF CommandTypes
<1> QED
  BY <1>4, <1>5, CommandTypesOK DEF CommandsInv, CommandTypeOK, CommandTypes, ChatRow, ChatCat,
     Command, Change

(* A row is written with a category that is there, or is one more.         *)
LEMMA RowWritten ==
  ASSUME CommandTypes, NEW t \in ChatTx, NEW c \in ChatCategory \cup {NoChatCategory},
         NEW r \in ChatRow, rows' = [rows EXCEPT ![t] = r], r.category = c,
         chatCats' \in [ChatCategory -> ChatCat],
         \A d \in ChatCategory : chatCats[d].live => chatCats'[d] = chatCats[d],
         c # NoChatCategory => chatCats'[c].live /\ HasCategory(r.type),
         \A u \in ChatTx : RowIsTidy(u)
  PROVE  /\ rows' \in [ChatTx -> ChatRow]
         /\ \A u \in ChatTx : RowIsTidy(u)'
         /\ \A u \in ChatTx \ {t} :
              rows'[u] = rows[u] /\ ShownAs(rows[u].category)' = ShownAs(rows[u].category)
<1>1. rows' \in [ChatTx -> ChatRow] /\ rows'[t] = r /\ \A u \in ChatTx \ {t} : rows'[u] = rows[u]
  BY DEF CommandTypes
<1>2. RowIsTidy(t)'
  BY <1>1 DEF RowIsTidy
<1>3. ASSUME NEW u \in ChatTx \ {t}
      PROVE  RowIsTidy(u)' /\ ShownAs(rows[u].category)' = ShownAs(rows[u].category)
  <2>1. rows[u].category \in ChatCategory \cup {NoChatCategory}
    BY DEF CommandTypes, ChatRow
  <2>2. CASE rows[u].category = NoChatCategory
    BY <1>1, <2>2 DEF RowIsTidy, ShownAs
  <2>3. CASE rows[u].category \in ChatCategory
    BY <1>1, <2>3 DEF RowIsTidy, ShownAs
  <2> QED
    BY <2>1, <2>2, <2>3
<1> QED
  BY <1>1, <1>2, <1>3

(* The category of a name is there afterwards, and no other changes.       *)
LEMMA CategoryIsThere ==
  ASSUME CommandTypes, NEW name \in ChatName, NEW type \in RowType,
         NEW c \in ChatCategory \cup {NoChatCategory}, CategoryFor(c, name, type)
  PROVE  /\ chatCats' \in [ChatCategory -> ChatCat]
         /\ \A d \in ChatCategory : chatCats[d].live => chatCats'[d] = chatCats[d]
         /\ c \in ChatCategory /\ chatCats'[c].live
<1>1. CASE c \in CategoriesCalled(name, type) /\ UNCHANGED chatCats
  BY <1>1 DEF CategoriesCalled, CommandTypes
<1>2. CASE /\ c \in ChatCategory /\ ~chatCats[c].live
           /\ chatCats' = [chatCats EXCEPT ![c] = [live |-> TRUE, name |-> name, type |-> type]]
  BY <1>2 DEF CommandTypes, ChatCat
<1> QED
  BY <1>1, <1>2 DEF CategoryFor

(* What UpdateChatTransaction writes, and to which row.                    *)
LEMMA UpdateWrites ==
  ASSUME CommandsInv, NEW h \in CommandHandler, UpdateChatTransaction(h)
  PROVE  \E w \in command[h].write, t \in Named(command[h].ids),
            c \in ChatCategory \cup {NoChatCategory} :
           /\ t \in ChatTx /\ t \in command[h].ids /\ rows[t].state = "live" /\ w \in Change
           /\ IF HasCategory(w.type) THEN CategoryFor(c, w.category, w.type)
              ELSE c = NoChatCategory /\ UNCHANGED chatCats
           /\ rows' = [rows EXCEPT ![t] = [state |-> "live", type |-> w.type, category |-> c,
                                           text |-> w.text]]
           /\ command' = [Outdated({t}) EXCEPT ![h] = CommandIdle]
<1>1. command[h] \in Command
  BY CommandTypesOK DEF CommandsInv, CommandTypes
<1> QED
  BY <1>1 DEF UpdateChatTransaction, Named, Command

(* Every action keeps what a command found, or marks it out of date.       *)
LEMMA CommandsStep == CommandsInv /\ [CommandNext]_commandVars => CommandsInv'
<1> SUFFICES ASSUME CommandsInv, [CommandNext]_commandVars PROVE CommandsInv'
  OBVIOUS
<1>type. CommandTypes
  BY CommandTypesOK DEF CommandsInv
<1>tidy. \A t \in ChatTx : RowIsTidy(t)
  BY DEF CommandsInv
<1>same. UNCHANGED <<rows, chatCats>> =>
           /\ rows' \in [ChatTx -> ChatRow] /\ chatCats' \in [ChatCategory -> ChatCat]
           /\ \A t \in ChatTx : RowIsTidy(t)'
           /\ \A t \in ChatTx : /\ rows'[t] = rows[t]
                                /\ ShownAs(rows[t].category)' = ShownAs(rows[t].category)
  BY <1>type, <1>tidy DEF CommandTypes, RowIsTidy, ShownAs
(* A search: one command takes up a row, which is as it was read.          *)
<1>1. ASSUME NEW h \in CommandHandler, NEW q \in Command, UNCHANGED <<rows, chatCats>>,
             command' = [command EXCEPT ![h] = q], FoundIsFresh(h)'
      PROVE  CommandsInv'
  <2>1. command' \in [CommandHandler -> Command]
        /\ \A g \in CommandHandler \ {h} : command'[g] = command[g]
    BY <1>1, <1>type DEF CommandTypes
  <2>2. ASSUME NEW g \in CommandHandler \ {h} PROVE FoundIsFresh(g)'
    <3>1. FoundIsFresh(g)
      BY DEF CommandsInv
    <3> QED
      BY <1>1, <2>1, <3>1 DEF FoundIsFresh, Agrees, ShownAs
  <2>3. CommandTypeOK'
    BY <1>same, <1>1, <2>1 DEF CommandTypeOK, ChatRow, ChatCat, Command, Change
  <2> QED
    BY <1>same, <1>1, <2>2, <2>3 DEF CommandsInv
<1>2. ASSUME NEW h \in CommandHandler, NEW near \in SUBSET ChatTx, FindForDelete(h, near)
      PROVE  CommandsInv'
  <2> DEFINE q == [CommandIdle EXCEPT !.step = "delete", !.ids = near]
  <2>1. q \in Command /\ q.step = "delete"
    BY DEF CommandIdle, Command
  <2>2. command'[h] = q
    BY <1>2, <1>type DEF FindForDelete, CommandTypes
  <2>3. FoundIsFresh(h)'
    BY <2>1, <2>2 DEF FoundIsFresh
  <2> QED
    BY <1>1, <1>2, <2>1, <2>3 DEF FindForDelete
<1>3. ASSUME NEW h \in CommandHandler, NEW near \in SUBSET ChatTx, NEW m \in ChatMessage,
             FindForUpdate(h, near, m)
      PROVE  CommandsInv'
  <2>1. PICK t \in Named(near) :
          command' = [command EXCEPT ![h] =
            [step |-> "update", ids |-> near, found |-> {t},
             asked |-> {f \in Field : m[f] # Unsaid},
             write |-> {[type |-> OrElse(m.type, rows[t].type),
                         category |-> OrElse(m.category, ShownAs(rows[t].category)),
                         text |-> OrElse(m.text, rows[t].text)]},
             stale |-> FALSE]]
    BY <1>3 DEF FindForUpdate
  <2> DEFINE w == [type |-> OrElse(m.type, rows[t].type),
                   category |-> OrElse(m.category, ShownAs(rows[t].category)),
                   text |-> OrElse(m.text, rows[t].text)]
             asked == {f \in Field : m[f] # Unsaid}
             q == [step |-> "update", ids |-> near, found |-> {t}, asked |-> asked,
                   write |-> {w}, stale |-> FALSE]
  <2>2. t \in near /\ t \in ChatTx /\ rows[t] \in ChatRow
    BY <1>type DEF Named, CommandTypes
  <2>3. ShownAs(rows[t].category) \in ChatName
    BY <1>type, <2>2, CommandConstants DEF ShownAs, CommandTypes, ChatRow, ChatCat
  <2>4. m \in [type : RowType \cup {Unsaid}, category : ChatName \cup {Unsaid},
               text : FieldValue \cup {Unsaid}]
    BY CommandConstants
  <2>5. w \in Change
    BY <2>2, <2>3, <2>4 DEF OrElse, Change, ChatRow
  <2>6. q \in Command
    BY <2>2, <2>5 DEF Command
  <2>7. command'[h] = q
    BY <1>type, <2>1 DEF CommandTypes
  <2>8. /\ m.type = m["type"] /\ m.category = m["category"] /\ m.text = m["text"]
        /\ "type" \in asked \/ w.type = rows[t].type
        /\ "text" \in asked \/ w.text = rows[t].text
        /\ "category" \in asked \/ w.category = ShownAs(rows[t].category)
    BY DEF Field, OrElse
  <2>9. FoundIsFresh(h)'
    <3>1. /\ command'[h].ids = near /\ command'[h].found = {t} /\ command'[h].write = {w}
          /\ command'[h].asked = asked
      BY <2>7
    <3>2. UNCHANGED <<rows, chatCats>>
      BY <1>3 DEF FindForUpdate
    <3>3. rows'[t] = rows[t] /\ ShownAs(rows[t].category)' = ShownAs(rows[t].category)
      BY <3>2 DEF ShownAs
    <3>4. PICK y \in Change : y = w
      BY <2>5
    <3>5. Agrees(h, y, t)'
      BY <2>8, <3>1, <3>3, <3>4 DEF Agrees
    <3>6. command'[h].found = {t} /\ command'[h].write = {y} /\ t \in command'[h].ids
      BY <2>2, <3>1, <3>4
    <3> QED
      BY <3>5, <3>6 DEF FoundIsFresh
  <2> QED
    BY <1>1, <1>3, <2>1, <2>6, <2>9 DEF FindForUpdate
(* A row that goes: what was found of it does not matter any more.         *)
<1>gone. ASSUME NEW t \in ChatTx, rows' = [rows EXCEPT ![t] = [NoRow EXCEPT !.state = "gone"]],
                UNCHANGED chatCats,
                \/ UNCHANGED command
                \/ \E h \in CommandHandler : command' = [command EXCEPT ![h] = CommandIdle]
         PROVE  CommandsInv'
  <2>1. /\ [NoRow EXCEPT !.state = "gone"] \in ChatRow
        /\ [NoRow EXCEPT !.state = "gone"].category = NoChatCategory
        /\ [NoRow EXCEPT !.state = "gone"].state = "gone"
    BY CommandConstants DEF NoRow, ChatRow
  <2>2. /\ rows' \in [ChatTx -> ChatRow] /\ rows'[t].state = "gone"
        /\ \A u \in ChatTx : RowIsTidy(u)'
        /\ \A u \in ChatTx \ {t} :
              rows'[u] = rows[u] /\ ShownAs(rows[u].category)' = ShownAs(rows[u].category)
    BY <1>gone, <1>type, <1>tidy, <2>1, RowWritten DEF CommandTypes
  <2>3. \A u \in ChatTx \ {} :
           \/ rows'[u].state # "live"
           \/ rows'[u] = rows[u] /\ ShownAs(rows[u].category)' = ShownAs(rows[u].category)
    BY <2>2
  <2>4. chatCats' \in [ChatCategory -> ChatCat] /\ {} \in SUBSET ChatTx
    BY <1>gone, <1>type DEF CommandTypes
  <2> QED
    BY <1>gone, <2>2, <2>3, <2>4, WrittenKeeps
<1>4. ASSUME NEW h \in CommandHandler, DeleteChatTransaction(h) PROVE CommandsInv'
  <2>1. \A t \in Named(command[h].ids) : t \in ChatTx
    BY <1>type DEF Named, CommandTypes, Command
  <2> QED
    BY <1>4, <1>gone, <2>1 DEF DeleteChatTransaction
<1>5. ASSUME NEW t \in ChatTx, DeleteRow(t) PROVE CommandsInv'
  BY <1>5, <1>gone DEF DeleteRow
<1>6. ASSUME UNCHANGED <<rows, chatCats>>,
             \/ UNCHANGED command
             \/ \E h \in CommandHandler : command' = [command EXCEPT ![h] = CommandIdle]
      PROVE  CommandsInv'
  <2>1. {} \in SUBSET ChatTx
    OBVIOUS
  <2> QED
    BY <1>6, <1>same, <2>1, WrittenKeeps
<1>7. ASSUME NEW h \in CommandHandler, CommandFails(h) PROVE CommandsInv'
  BY <1>6, <1>7 DEF CommandFails
(* A row that is written makes what was found of it out of date.           *)
<1>8. ASSUME NEW h \in CommandHandler, UpdateChatTransaction(h) PROVE CommandsInv'
  <2>1. PICK w \in command[h].write, t \in Named(command[h].ids),
             c \in ChatCategory \cup {NoChatCategory} :
          /\ t \in ChatTx /\ t \in command[h].ids /\ rows[t].state = "live" /\ w \in Change
          /\ IF HasCategory(w.type) THEN CategoryFor(c, w.category, w.type)
             ELSE c = NoChatCategory /\ UNCHANGED chatCats
          /\ rows' = [rows EXCEPT ![t] = [state |-> "live", type |-> w.type, category |-> c,
                                          text |-> w.text]]
          /\ command' = [Outdated({t}) EXCEPT ![h] = CommandIdle]
    BY <1>8, UpdateWrites
  <2> DEFINE r == [state |-> "live", type |-> w.type, category |-> c, text |-> w.text]
  <2>2. r \in ChatRow /\ r.category = c /\ w.category \in ChatName /\ w.type \in RowType
    BY <2>1 DEF ChatRow, Change
  <2>3. /\ chatCats' \in [ChatCategory -> ChatCat]
        /\ \A d \in ChatCategory : chatCats[d].live => chatCats'[d] = chatCats[d]
        /\ c # NoChatCategory => chatCats'[c].live /\ HasCategory(r.type)
    <3>1. CASE HasCategory(w.type)
      BY <1>type, <2>1, <2>2, <3>1, CategoryIsThere
    <3>2. CASE ~HasCategory(w.type)
      BY <1>type, <2>1, <3>2 DEF CommandTypes
    <3> QED
      BY <3>1, <3>2
  <2>4. rows' = [rows EXCEPT ![t] = r] /\ t \in ChatTx
    BY <2>1
  <2>5. /\ rows' \in [ChatTx -> ChatRow]
        /\ \A u \in ChatTx : RowIsTidy(u)'
        /\ \A u \in ChatTx \ {t} :
              rows'[u] = rows[u] /\ ShownAs(rows[u].category)' = ShownAs(rows[u].category)
    BY <1>type, <1>tidy, <2>2, <2>3, <2>4, RowWritten
  <2>6. /\ {t} \in SUBSET ChatTx
        /\ \E g \in CommandHandler : command' = [Outdated({t}) EXCEPT ![g] = CommandIdle]
    BY <2>1
  <2> QED
    BY <2>3, <2>5, <2>6, WrittenKeeps
<1>9. ASSUME NEW t \in ChatTx, NEW state \in {"unborn", "live"}, NEW type \in RowType,
             NEW c \in ChatCategory \cup {NoChatCategory}, NEW text \in FieldValue,
             WriteRow(t, state, type, c, text)
      PROVE  CommandsInv'
  <2> DEFINE r == [state |-> "live", type |-> type, category |-> c, text |-> text]
  <2>1. r \in ChatRow /\ r.category = c
    BY DEF ChatRow
  <2>2. /\ chatCats' \in [ChatCategory -> ChatCat]
        /\ \A d \in ChatCategory : chatCats[d].live => chatCats'[d] = chatCats[d]
        /\ c # NoChatCategory => chatCats'[c].live /\ HasCategory(r.type)
        /\ rows' = [rows EXCEPT ![t] = r]
    BY <1>9, <1>type DEF WriteRow, CommandTypes
  <2>3. /\ rows' \in [ChatTx -> ChatRow]
        /\ \A u \in ChatTx : RowIsTidy(u)'
        /\ \A u \in ChatTx \ {t} :
              rows'[u] = rows[u] /\ ShownAs(rows[u].category)' = ShownAs(rows[u].category)
    BY <1>type, <1>tidy, <2>1, <2>2, RowWritten
  <2> QED
    BY <1>9, <2>2, <2>3, WrittenKeeps DEF WriteRow
(* So does a category that is renamed or deleted, for its rows.            *)
<1>10. ASSUME NEW c \in ChatCategory, NEW name \in ChatName, NEW type \in RowType,
              WriteCategory(c, name, type)
       PROVE  CommandsInv'
  <2>1. /\ chatCats' \in [ChatCategory -> ChatCat] /\ chatCats'[c].live
        /\ \A d \in ChatCategory \ {c} : chatCats'[d] = chatCats[d]
        /\ UNCHANGED rows
    BY <1>10, <1>type DEF WriteCategory, CommandTypes, ChatCat
  <2>2. rows' \in [ChatTx -> ChatRow] /\ RowsOf(c) \in SUBSET ChatTx
    BY <2>1, <1>type DEF CommandTypes, RowsOf
  <2>3. ASSUME NEW t \in ChatTx
        PROVE  /\ RowIsTidy(t)'
               /\ t \in ChatTx \ RowsOf(c) =>
                    rows'[t] = rows[t] /\ ShownAs(rows[t].category)' = ShownAs(rows[t].category)
    <3>1. rows[t].category \in ChatCategory \cup {NoChatCategory}
      BY <1>type DEF CommandTypes, ChatRow
    <3>2. RowIsTidy(t)
      BY <1>tidy
    <3> QED
      BY <2>1, <3>1, <3>2 DEF RowIsTidy, ShownAs, RowsOf
  <2> QED
    BY <1>10, <2>1, <2>2, <2>3, WrittenKeeps DEF WriteCategory
<1>11. ASSUME NEW c \in ChatCategory, DropCategory(c) PROVE CommandsInv'
  <2>1. NoChatCategoryRow \in ChatCat
    BY CommandConstants DEF NoChatCategoryRow, ChatCat
  <2>2. /\ chatCats' \in [ChatCategory -> ChatCat]
        /\ \A d \in ChatCategory \ {c} : chatCats'[d] = chatCats[d]
    BY <1>11, <1>type, <2>1 DEF DropCategory, CommandTypes
  <2>3. ASSUME NEW t \in ChatTx
        PROVE  /\ rows'[t] \in ChatRow /\ RowIsTidy(t)'
               /\ t \in ChatTx \ RowsOf(c) =>
                    rows'[t] = rows[t] /\ ShownAs(rows[t].category)' = ShownAs(rows[t].category)
    <3>1. rows[t] \in ChatRow /\ rows[t].category \in ChatCategory \cup {NoChatCategory}
      BY <1>type DEF CommandTypes, ChatRow
    <3>2. RowIsTidy(t)
      BY <1>tidy
    <3>3. CASE t \in RowsOf(c)
      <4>1. rows'[t] = [rows[t] EXCEPT !.category = NoChatCategory]
        BY <1>11, <3>3 DEF DropCategory
      <4> QED
        BY <3>1, <3>3, <4>1 DEF RowIsTidy, ChatRow
    <3>4. CASE t \notin RowsOf(c)
      <4>1. rows'[t] = rows[t] /\ rows[t].category # c
        BY <1>11, <3>4 DEF DropCategory, RowsOf
      <4> QED
        BY <2>2, <3>1, <3>2, <4>1 DEF RowIsTidy, ShownAs
    <3> QED
      BY <3>3, <3>4
  <2>4. rows' \in [ChatTx -> ChatRow] /\ RowsOf(c) \in SUBSET ChatTx
    BY <1>11, <2>3 DEF DropCategory, RowsOf
  <2> QED
    BY <1>11, <2>2, <2>3, <2>4, WrittenKeeps DEF DropCategory
<1>12. CASE UNCHANGED commandVars
  BY <1>6, <1>12 DEF commandVars
<1> QED
  BY <1>2, <1>3, <1>4, <1>5, <1>7, <1>8, <1>9, <1>10, <1>11, <1>12 DEF CommandNext

(* The second transaction of a command keeps what was not asked for.       *)
LEMMA ChangeIsAsAsked ==
  ASSUME CommandsInv, [CommandNext]_commandVars, NEW h \in CommandHandler, NEW t \in ChatTx
  PROVE  ChangesAsAsked(h, t)
<1> SUFFICES ASSUME command[h].step = "update", command'[h].step = "idle",
                    command[h].ids = {t}, ~command[h].stale, rows' # rows
             PROVE  /\ \A u \in ChatTx \ {t} : rows'[u] = rows[u]
                    /\ "type" \in command[h].asked \/ rows'[t].type = rows[t].type
                    /\ "text" \in command[h].asked \/ rows'[t].text = rows[t].text
                    /\ \/ {"type", "category"} \cap command[h].asked # {}
                       \/ rows'[t].category = rows[t].category /\ UNCHANGED chatCats
                       \/ NotFoundAgain(t)
  BY DEF ChangesAsAsked
<1>type. CommandTypes
  BY CommandTypesOK DEF CommandsInv
<1>1. UpdateChatTransaction(h)
  <2>h. command[h] \in Command
    BY <1>type DEF CommandTypes
  <2>aged. ASSUME NEW T \in SUBSET ChatTx PROVE Outdated(T)[h].step = "update"
    <3>1. Outdated(T)[h] =
            [command[h] EXCEPT !.stale = command[h].stale \/ T \cap command[h].found # {}]
      BY DEF Outdated
    <3> QED
      BY <2>h, <3>1 DEF Command
  <2>1. ASSUME NEW T \in SUBSET ChatTx, command' = Outdated(T) PROVE FALSE
    BY <2>1, <2>aged
  <2>2. ASSUME NEW g \in CommandHandler \ {h}, NEW q, command' = [command EXCEPT ![g] = q]
        PROVE  FALSE
    BY <1>type, <2>2 DEF CommandTypes
  <2>3. ASSUME NEW g \in CommandHandler \ {h}, UpdateChatTransaction(g) PROVE FALSE
    <3>1. PICK u \in ChatTx : command' = [Outdated({u}) EXCEPT ![g] = CommandIdle]
      BY <2>3, UpdateWrites
    <3>2. command'[h] = Outdated({u})[h]
      BY <3>1 DEF Outdated
    <3> QED
      BY <3>2, <2>aged
  <2>4. \A g \in CommandHandler, T \in SUBSET ChatTx :
          ~FindForDelete(g, T) /\ \A m \in ChatMessage : ~FindForUpdate(g, T, m)
    BY DEF FindForDelete, FindForUpdate
  <2>5. \A g \in CommandHandler : ~CommandFails(g)
    BY DEF CommandFails
  <2>6. ASSUME NEW g \in CommandHandler, DeleteChatTransaction(g) PROVE FALSE
    BY <2>2, <2>6 DEF DeleteChatTransaction
  <2>c. CommandNext
    BY DEF commandVars
  <2>7. \A c \in ChatCategory, name \in ChatName, type \in RowType : ~WriteCategory(c, name, type)
    BY DEF WriteCategory
  <2>8. \A c \in ChatCategory : ~DropCategory(c)
    BY <2>1 DEF DropCategory, RowsOf
  <2>9. \A u \in ChatTx : ~DeleteRow(u)
    BY DEF DeleteRow
  <2>10. ASSUME NEW u \in ChatTx, NEW state \in {"unborn", "live"}, NEW type \in RowType,
                NEW c \in ChatCategory \cup {NoChatCategory}, NEW text \in FieldValue,
                WriteRow(u, state, type, c, text)
         PROVE  FALSE
    BY <2>1, <2>10 DEF WriteRow
  <2> QED
    BY <2>3, <2>4, <2>5, <2>6, <2>7, <2>8, <2>9, <2>10, <2>c DEF CommandNext
<1>2. PICK w \in command[h].write, u \in Named(command[h].ids),
           c \in ChatCategory \cup {NoChatCategory} :
        /\ u \in ChatTx /\ u \in command[h].ids /\ rows[u].state = "live" /\ w \in Change
        /\ IF HasCategory(w.type) THEN CategoryFor(c, w.category, w.type)
           ELSE c = NoChatCategory /\ UNCHANGED chatCats
        /\ rows' = [rows EXCEPT ![u] = [state |-> "live", type |-> w.type, category |-> c,
                                        text |-> w.text]]
        /\ command' = [Outdated({u}) EXCEPT ![h] = CommandIdle]
  BY <1>1, UpdateWrites
<1>3. u = t /\ Agrees(h, w, t)
  BY <1>2 DEF CommandsInv, FoundIsFresh
<1>4. /\ rows'[t] = [state |-> "live", type |-> w.type, category |-> c, text |-> w.text]
      /\ \A v \in ChatTx \ {t} : rows'[v] = rows[v]
  BY <1>2, <1>3, <1>type DEF CommandTypes
<1>5. ASSUME {"type", "category"} \cap command[h].asked = {}, ~NotFoundAgain(t)
      PROVE  c = rows[t].category /\ UNCHANGED chatCats
  <2>1. w.type = rows[t].type /\ w.category = ShownAs(rows[t].category)
    BY <1>3, <1>5 DEF Agrees
  <2>2. /\ rows[t].category # NoChatCategory
        /\ CategoriesCalled(w.category, w.type) = {rows[t].category}
    BY <1>5, <2>1 DEF NotFoundAgain, ShownAs
  <2>3. HasCategory(w.type)
    BY <2>1, <2>2 DEF CommandsInv, RowIsTidy
  <2> QED
    BY <1>2, <2>2, <2>3 DEF CategoryFor
<1> QED
  BY <1>3, <1>4, <1>5 DEF Agrees

(* For any rows, categories, messages and commands at a time: a command on *)
(* a row whose id begins like no other, which was not written since it was *)
(* found, changes nothing it was not asked for but a category whose name   *)
(* does not lead back to it.                                               *)
THEOREM UnaskedChangesExplained == CommandSpec => UnaskedChangeIsExplained
<1>1. CommandsInv /\ [CommandNext]_commandVars
        => [\A h \in CommandHandler, t \in ChatTx : ChangesAsAsked(h, t)]_commandVars
  BY ChangeIsAsAsked
<1> QED
  BY <1>1, CommandInitInv, CommandsStep, PTL DEF CommandSpec, UnaskedChangeIsExplained
-----------------------------------------------------------------------------
(***************************************************************************)
(* Scans: each is recorded once, or something explains where it went.      *)
(***************************************************************************)
(* The types but for the bound on the count.                               *)
ChatTyped ==
  /\ pending \in [Place -> Scan \cup {NoScan}]
  /\ stale \subseteq Place
  /\ hand \in [ChatHandler -> [step : {"idle", "scan", "yes", "no", "record"},
                               at : SUBSET Place, scan : Scan \cup {NoScan}]]
  /\ recorded \in [Scan -> Nat]
  /\ {shown, shared, dropped, late} \subseteq SUBSET Scan

Confirms(h, s) == hand[h].scan = s /\ hand[h].step \in {"yes", "record"}

Answers(h, x) == hand[h].step \in {"yes", "no"} /\ hand[h].at = {x}

(* A scan is put once, in one place, where those who answer it found it.   *)
PlacesSound ==
  /\ \A x \in Place : pending[x] # NoScan => pending[x] \in shown
  /\ \A x, y \in Place : pending[x] = pending[y] /\ pending[x] # NoScan => x = y
  /\ \A h \in ChatHandler :
       /\ hand[h].step \in {"idle", "scan"} => hand[h].scan = NoScan
       /\ hand[h].scan # NoScan => hand[h].scan \in shown
       /\ hand[h].step \in {"yes", "no", "record"} => \E x \in Place : hand[h].at = {x}
       /\ hand[h].step \in {"yes", "no", "record"} => hand[h].scan # NoScan
  /\ \A h \in ChatHandler, x \in Place :
       pending[x] # NoScan /\ pending[x] = hand[h].scan => hand[h].at = {x}
  /\ \A s \in Scan : recorded[s] # 0 => s \in shown

(* One that no two confirmations held is confirmed by one handler, who has *)
(* removed it before it is recorded.                                       *)
ConfirmedOnce ==
  \A s \in Scan \ shared :
    /\ recorded[s] \in {0, 1}
    /\ \A g, h \in ChatHandler : Confirms(g, s) /\ Confirms(h, s) => g = h
    /\ recorded[s] = 1 => \A h \in ChatHandler : ~Confirms(h, s)
    /\ recorded[s] = 1 \/ (\E h \in ChatHandler : Confirms(h, s) /\ hand[h].step = "record")
         => \A x \in Place : pending[x] # s

(* What an answer finds in place of its scan came while it was on its way. *)
ReplacedIsLate ==
  \A h \in ChatHandler, x \in Place :
    Answers(h, x) => pending[x] \in {NoScan, hand[h].scan} \cup late

ChatSound == PlacesSound /\ ConfirmedOnce /\ ReplacedIsLate /\ dropped \subseteq late

ChatInv == ChatTyped /\ ChatSound

(* At first nothing waits for a yes.                                       *)
LEMMA ChatInitInv == ChatInit => ChatInv
BY ChatConstants DEF ChatInit, ChatInv, ChatTyped, ChatSound, PlacesSound, ConfirmedOnce, ReplacedIsLate,
       Confirms, Answers, ChatIdle
(* Every action keeps the types,                                           *)
LEMMA ChatTypeStep == ChatInv /\ [ChatNext]_chatVars => ChatTyped'
<1> SUFFICES ASSUME ChatInv, [ChatNext]_chatVars PROVE ChatTyped'
  OBVIOUS
<1>held. \A h \in ChatHandler :
           hand[h].step \in {"yes", "no", "record"} => hand[h].scan \in Scan
  BY DEF ChatInv, ChatTyped, ChatSound, PlacesSound
<1>typed. ChatTyped
  BY DEF ChatInv
<1> USE <1>typed DEF ChatTyped, ChatIdle, Found, ChatEnds
<1>1. ASSUME NEW h \in ChatHandler, NEW x \in Place, NEW message \in {"yes", "no", "scan", "other"},
             LookUp(h, x, message)
      PROVE  ChatTyped'
  BY <1>1 DEF LookUp
<1>2. ASSUME NEW h \in ChatHandler, NEW s \in Scan, PutScan(h, s) PROVE ChatTyped'
  BY <1>2 DEF PutScan
<1>3. ASSUME NEW h \in ChatHandler, TakePending(h) PROVE ChatTyped'
  BY <1>3 DEF TakePending
<1>4. ASSUME NEW h \in ChatHandler, RecordScan(h) PROVE ChatTyped'
  BY <1>4, <1>held DEF RecordScan
<1>5. ASSUME NEW h \in ChatHandler, ScanFails(h) PROVE ChatTyped'
  BY <1>5 DEF ScanFails
<1>6. ASSUME NEW x \in Place, FiveMinutesPass(x) PROVE ChatTyped'
  BY <1>6 DEF FiveMinutesPass
<1>7. ASSUME NEW p \in ChatProcess, ChatProcessRestarts(p) PROVE ChatTyped'
  BY <1>7 DEF ChatProcessRestarts
<1>8. CASE UNCHANGED chatVars
  BY <1>8 DEF chatVars
<1> HIDE DEF ChatTyped
<1> QED
  BY <1>1, <1>2, <1>3, <1>4, <1>5, <1>6, <1>7, <1>8 DEF ChatNext

(* the places of the scans, and what removes one recorded.                 *)
LEMMA ChatSoundStep == ChatInv /\ ChatTyped' /\ [ChatNext]_chatVars => ChatSound'
<1> SUFFICES ASSUME ChatInv, ChatTyped', [ChatNext]_chatVars PROVE ChatSound'
  OBVIOUS
<1> USE ChatConstants DEF ChatInv, ChatTyped, ChatSound, PlacesSound, ConfirmedOnce, ReplacedIsLate,
       Confirms, Answers, ChatIdle, Found, ChatEnds
<1>1. ASSUME NEW h \in ChatHandler, NEW x \in Place, NEW message \in {"yes", "no", "scan", "other"},
             LookUp(h, x, message)
      PROVE  ChatSound'
  <2>1. /\ hand[h].step = "idle" /\ UNCHANGED <<recorded, shown, dropped, late>>
        /\ pending' = [pending EXCEPT ![x] = Found(x)]
    BY <1>1 DEF LookUp
  <2>2. CASE /\ message = "yes" /\ Found(x) # NoScan
             /\ hand' = [hand EXCEPT ![h] = [step |-> "yes", at |-> {x}, scan |-> Found(x)]]
             /\ shared' = IF \E g \in ChatHandler : hand[g].scan = Found(x)
                          THEN shared \cup {Found(x)} ELSE shared
    <3>1. Found(x) = pending[x] /\ pending' = pending
      BY <2>1, <2>2
    <3>2. PlacesSound'
      BY <2>1, <2>2, <3>1
    <3>3. ConfirmedOnce'
      BY <2>1, <2>2, <3>1
    <3>4. ReplacedIsLate' /\ (dropped \subseteq late)'
      <4>1. ASSUME NEW g \in ChatHandler, NEW y \in Place, Answers(g, y)'
            PROVE  (pending[y] \in {NoScan, hand[g].scan} \cup late)'
        <5>1. CASE g = h
          <6>1. y = x /\ hand'[g].scan = pending'[x]
            BY <2>2, <3>1, <4>1, <5>1
          <6> QED
            BY <6>1
        <5>2. CASE g # h
          BY <2>1, <2>2, <3>1, <4>1, <5>2
        <5> QED
          BY <5>1, <5>2
      <4> QED
        BY <2>1, <4>1
    <3> QED
      BY <3>2, <3>3, <3>4
  <2>3. CASE /\ message = "no" /\ Found(x) # NoScan /\ UNCHANGED shared
             /\ hand' = [hand EXCEPT ![h] = [step |-> "no", at |-> {x}, scan |-> Found(x)]]
    <3>1. Found(x) = pending[x] /\ pending' = pending
      BY <2>1, <2>3
    <3>2. PlacesSound' /\ ConfirmedOnce'
      BY <2>1, <2>3, <3>1
    <3>3. ReplacedIsLate' /\ (dropped \subseteq late)'
      <4>1. ASSUME NEW g \in ChatHandler, NEW y \in Place, Answers(g, y)'
            PROVE  (pending[y] \in {NoScan, hand[g].scan} \cup late)'
        <5>1. CASE g = h
          <6>1. y = x /\ hand'[g].scan = pending'[x]
            BY <2>3, <3>1, <4>1, <5>1
          <6> QED
            BY <6>1
        <5>2. CASE g # h
          BY <2>1, <2>3, <3>1, <4>1, <5>2
        <5> QED
          BY <5>1, <5>2
      <4> QED
        BY <2>1, <4>1
    <3> QED
      BY <3>2, <3>3
  <2>4. CASE /\ hand' = [hand EXCEPT ![h] = [step |-> "scan", at |-> {x}, scan |-> NoScan]]
             /\ UNCHANGED shared
    BY <2>1, <2>4
  <2>5. CASE UNCHANGED <<hand, shared>>
    BY <2>1, <2>5
  <2> QED
    BY <1>1, <2>2, <2>3, <2>4, <2>5 DEF LookUp
<1>2. ASSUME NEW h \in ChatHandler, NEW s \in Scan, PutScan(h, s) PROVE ChatSound'
  <2>1. PICK x \in hand[h].at :
          /\ hand[h].step = "scan" /\ s \notin shown
          /\ pending' = [pending EXCEPT ![x] = s] /\ shown' = shown \cup {s}
          /\ late' = IF \E g \in ChatHandler : hand[g].step \in {"yes", "no"} /\ hand[g].at = {x}
                     THEN late \cup {s} ELSE late
          /\ hand' = [hand EXCEPT ![h] = ChatIdle]
          /\ UNCHANGED <<recorded, shared, dropped>>
    BY <1>2 DEF PutScan
  <2>2. /\ x \in Place /\ s # NoScan
        /\ pending'[x] = s /\ \A y \in Place : y # x => pending'[y] = pending[y]
        /\ hand'[h] = ChatIdle /\ \A g \in ChatHandler : g # h => hand'[g] = hand[g]
    BY <2>1
  <2>3. \A y \in Place : pending[y] # s
    BY <2>1, <2>2
  <2>4. \A g \in ChatHandler : hand[g].scan # s /\ hand'[g].scan # s
    BY <2>1, <2>2
  <2>5. PlacesSound'
    BY <2>1, <2>2, <2>3, <2>4
  <2>6. ConfirmedOnce'
    BY <2>1, <2>2, <2>3, <2>4
  <2>7. ASSUME NEW g \in ChatHandler, NEW y \in Place, Answers(g, y)'
        PROVE  (pending[y] \in {NoScan, hand[g].scan} \cup late)'
    <3>1. g # h /\ Answers(g, y) /\ hand'[g] = hand[g]
      BY <2>2, <2>7
    <3>2. late \subseteq late'
      BY <2>1
    <3>3. CASE y = x
      <4>1. s \in late'
        BY <2>1, <3>1, <3>3
      <4> QED
        BY <2>2, <3>3, <4>1
    <3>4. CASE y # x
      BY <2>2, <3>1, <3>2, <3>4
    <3> QED
      BY <3>3, <3>4
  <2>8. ReplacedIsLate' /\ (dropped \subseteq late)'
    BY <2>1, <2>7
  <2> QED
    BY <2>5, <2>6, <2>8
<1>3. ASSUME NEW h \in ChatHandler, TakePending(h) PROVE ChatSound'
  <2>1. PICK x \in hand[h].at :
          /\ hand[h].step \in {"yes", "no"}
          /\ pending' = [pending EXCEPT ![x] = NoScan]
          /\ dropped' = dropped \cup ({pending[x]} \ {NoScan, hand[h].scan})
          /\ IF hand[h].step = "yes" THEN hand' = [hand EXCEPT ![h].step = "record"]
             ELSE ChatEnds(h)
          /\ UNCHANGED <<recorded, shown, shared, late>>
    BY <1>3 DEF TakePending
  <2>2. x \in Place /\ hand[h].at = {x}
    BY <2>1
  <2>3. (dropped \subseteq late)'
    BY <2>1, <2>2
  <2>4. CASE hand[h].step = "yes" /\ hand' = [hand EXCEPT ![h].step = "record"]
    <3>1. PlacesSound' /\ ReplacedIsLate'
      BY <2>1, <2>2, <2>4
    <3>2. ConfirmedOnce'
      <4> SUFFICES ASSUME NEW s \in Scan \ shared'
                   PROVE  /\ recorded'[s] \in {0, 1}
                          /\ \A f, g \in ChatHandler : Confirms(f, s)' /\ Confirms(g, s)' => f = g
                          /\ recorded'[s] = 1 => \A g \in ChatHandler : ~Confirms(g, s)'
                          /\ recorded'[s] = 1 \/ (\E g \in ChatHandler :
                                 Confirms(g, s)' /\ hand'[g].step = "record")
                               => \A y \in Place : pending'[y] # s
        OBVIOUS
      <4>1. s \in Scan \ shared /\ s # NoScan
        BY <2>1
      <4>2. \A g \in ChatHandler : Confirms(g, s)' <=> Confirms(g, s)
        BY <2>1, <2>4
      <4>3. CASE s = hand[h].scan
        <5>1. \A y \in Place : pending'[y] # s
          <6>1. \A y \in Place : pending[y] = s => hand[h].at = {y}
            BY <4>1, <4>3
          <6>2. \A y \in Place : pending[y] = s => y = x
            <7>1. x \in hand[h].at
              BY <2>2
            <7> QED
              BY <6>1, <7>1
          <6> QED
            BY <2>1, <2>2, <4>1, <6>2
        <5> QED
          BY <2>1, <4>1, <4>2, <5>1
      <4>4. CASE s # hand[h].scan
        <5>1. \A y \in Place : pending'[y] = s => pending[y] = s
          BY <2>1, <2>2, <4>1
        <5>2. \A g \in ChatHandler :
                Confirms(g, s)' /\ hand'[g].step = "record"
                  => Confirms(g, s) /\ hand[g].step = "record"
          BY <2>4, <4>4
        <5> QED
          BY <2>1, <4>1, <4>2, <5>1, <5>2
      <4> QED
        BY <4>3, <4>4
    <3> QED
      BY <2>3, <3>1, <3>2
  <2>5. CASE hand[h].step = "no" /\ ChatEnds(h)
    BY <2>1, <2>2, <2>3, <2>5
  <2> QED
    BY <2>1, <2>4, <2>5
<1>4. ASSUME NEW h \in ChatHandler, RecordScan(h) PROVE ChatSound'
  BY <1>4 DEF RecordScan
<1>5. ASSUME NEW h \in ChatHandler, ScanFails(h) PROVE ChatSound'
  BY <1>5 DEF ScanFails
<1>6. ASSUME NEW x \in Place, FiveMinutesPass(x) PROVE ChatSound'
  BY <1>6 DEF FiveMinutesPass
<1>7. ASSUME NEW p \in ChatProcess, ChatProcessRestarts(p) PROVE ChatSound'
  BY <1>7 DEF ChatProcessRestarts
<1>8. CASE UNCHANGED chatVars
  BY <1>8 DEF chatVars
<1> HIDE DEF ChatSound
<1> QED
  BY <1>1, <1>2, <1>3, <1>4, <1>5, <1>6, <1>7, <1>8 DEF ChatNext

(* For any places, handlers, processes and scans: a scan is recorded twice *)
(* only if two confirmations held it at once, and an answer removes a scan *)
(* it was not about only if that came between the two uses of the lock of  *)
(* pending.                                                                *)
THEOREM ScansAccounted == ChatSpec => []ScanAccounted
<1>1. ChatInit => ChatInv
  BY ChatInitInv
<1>2. ChatInv /\ [ChatNext]_chatVars => ChatInv'
  BY ChatTypeStep, ChatSoundStep DEF ChatInv
<1>3. ChatInv => ScanAccounted
  BY DEF ChatInv, ChatTyped, ChatSound, ConfirmedOnce, ScanAccounted
<1> QED
  BY <1>1, <1>2, <1>3, PTL DEF ChatSpec

(* A scan is recorded by those who confirm it, and they all have found it  *)
(* before the first of them removes it.                                    *)
Confirming(s) == {h \in ChatHandler : Confirms(h, s)}

FoundBeforeTaken ==
  \A s \in Scan : (\E x \in Place : pending[x] = s) =>
    recorded[s] = 0 /\ \A h \in ChatHandler : ~(hand[h].step = "record" /\ hand[h].scan = s)

RecordsBounded ==
  \A s \in Scan : recorded[s] + Cardinality(Confirming(s)) <= Cardinality(ChatHandler)

(* A set of handlers can be counted, and is at most all of them.           *)
LEMMA ConfirmingIsFinite ==
  ASSUME NEW S, S \subseteq ChatHandler
  PROVE  /\ IsFiniteSet(S) /\ Cardinality(S) \in Nat /\ Cardinality(ChatHandler) \in Nat
         /\ Cardinality(S) <= Cardinality(ChatHandler)
<1>1. IsFiniteSet(S) /\ Cardinality(S) <= Cardinality(ChatHandler)
  BY ChatConstants, FS_Subset
<1> QED
  BY <1>1, ChatConstants, FS_CardinalityType

(* Every action keeps that,                                                *)
LEMMA FoundStep ==
  ChatInv /\ ChatTyped' /\ FoundBeforeTaken /\ [ChatNext]_chatVars => FoundBeforeTaken'
<1> SUFFICES ASSUME ChatInv, ChatTyped', FoundBeforeTaken, [ChatNext]_chatVars
             PROVE  FoundBeforeTaken'
  OBVIOUS
<1>typed. ChatTyped /\ ChatTyped' /\ PlacesSound
  BY DEF ChatInv, ChatSound
<1> USE ChatConstants, <1>typed DEF ChatTyped, FoundBeforeTaken, ChatIdle, ChatEnds
<1>1. ASSUME NEW h \in ChatHandler, NEW x \in Place, NEW message \in {"yes", "no", "scan", "other"},
             LookUp(h, x, message)
      PROVE  FoundBeforeTaken'
  <2>1. \A y \in Place : pending'[y] \in {pending[y], NoScan}
    BY <1>1 DEF LookUp, Found
  <2>2. \A g \in ChatHandler : hand'[g].step = "record" => hand'[g] = hand[g]
    BY <1>1 DEF LookUp
  <2>3. recorded' = recorded
    BY <1>1 DEF LookUp
  <2> QED
    BY <2>1, <2>2, <2>3
<1>2. ASSUME NEW h \in ChatHandler, NEW s \in Scan, PutScan(h, s) PROVE FoundBeforeTaken'
  <2>1. /\ \A y \in Place : pending'[y] \in {pending[y], s}
        /\ \A g \in ChatHandler : hand'[g].step = "record" => hand'[g] = hand[g]
        /\ recorded' = recorded /\ s \notin shown
    BY <1>2 DEF PutScan
  <2>2. recorded[s] = 0 /\ \A g \in ChatHandler : hand[g].scan # s
    BY <2>1 DEF PlacesSound
  <2> QED
    BY <2>1, <2>2
<1>3. ASSUME NEW h \in ChatHandler, TakePending(h) PROVE FoundBeforeTaken'
  <2>1. PICK x \in hand[h].at :
          /\ hand[h].step \in {"yes", "no"} /\ pending' = [pending EXCEPT ![x] = NoScan]
          /\ recorded' = recorded
          /\ IF hand[h].step = "yes" THEN hand' = [hand EXCEPT ![h].step = "record"]
                                     ELSE hand' = [hand EXCEPT ![h] = ChatIdle]
    BY <1>3 DEF TakePending
  <2>2. x \in Place /\ hand[h].at = {x}
    BY <2>1 DEF PlacesSound
  <2>3. \A g \in ChatHandler : hand'[g].step = "record" =>
          hand'[g] = hand[g] \/ (g = h /\ hand'[h].scan = hand[h].scan)
    BY <2>1
  <2>4. \A y \in Place : /\ pending'[y] = IF y = x THEN NoScan ELSE pending[y]
                         /\ y # x => pending[y] = NoScan \/ pending[y] # hand[h].scan
    <3>1. \A y \in Place : pending[y] # NoScan /\ pending[y] = hand[h].scan => hand[h].at = {y}
      BY DEF PlacesSound
    <3>2. \A y \in Place : pending'[y] = IF y = x THEN NoScan ELSE pending[y]
      BY <2>1, <2>2
    <3> HIDE DEF ChatTyped
    <3> QED
      BY <2>2, <3>1, <3>2
  <2> QED
    BY <2>1, <2>3, <2>4
<1>4. ASSUME NEW h \in ChatHandler, RecordScan(h) PROVE FoundBeforeTaken'
  <2>1. /\ hand[h].step = "record" /\ pending' = pending
        /\ recorded' \in {recorded, [recorded EXCEPT ![hand[h].scan] = @ + 1]}
        /\ \A g \in ChatHandler : hand'[g].step = "record" => hand'[g] = hand[g]
    BY <1>4 DEF RecordScan
  <2>2. \A s \in Scan : recorded'[s] # recorded[s] => s = hand[h].scan
    BY <2>1
  <2> QED
    BY <2>1, <2>2
<1>5. ASSUME NEW h \in ChatHandler, ScanFails(h) PROVE FoundBeforeTaken'
  BY <1>5 DEF ScanFails
<1>6. ASSUME NEW x \in Place, FiveMinutesPass(x) PROVE FoundBeforeTaken'
  BY <1>6 DEF FiveMinutesPass
<1>7. ASSUME NEW p \in ChatProcess, ChatProcessRestarts(p) PROVE FoundBeforeTaken'
  <2>1. /\ \A y \in Place : pending'[y] \in {pending[y], NoScan}
        /\ \A g \in ChatHandler : hand'[g].step = "record" => hand'[g] = hand[g]
        /\ recorded' = recorded
    BY <1>7 DEF ChatProcessRestarts
  <2> QED
    BY <2>1
<1>8. CASE UNCHANGED chatVars
  BY <1>8 DEF chatVars
<1> QED
  BY <1>1, <1>2, <1>3, <1>4, <1>5, <1>6, <1>7, <1>8 DEF ChatNext

(* and the bound: who records a scan has confirmed it, and does so once.   *)
LEMMA RecordsStep ==
  ChatInv /\ ChatTyped' /\ FoundBeforeTaken /\ RecordsBounded /\ [ChatNext]_chatVars
    => RecordsBounded'
<1> SUFFICES ASSUME ChatInv, ChatTyped', FoundBeforeTaken, RecordsBounded, [ChatNext]_chatVars
             PROVE  RecordsBounded'
  OBVIOUS
<1>typed. ChatTyped /\ ChatTyped' /\ PlacesSound
  BY DEF ChatInv, ChatSound
<1>typed2. \A s \in Scan : recorded[s] \in Nat
  BY <1>typed DEF ChatTyped
<1>all. \A s : Confirming(s) \subseteq ChatHandler /\ Confirming(s)' \subseteq ChatHandler
  BY DEF Confirming
(* Three ways in which a step keeps the bound.                             *)
<1>fewer. ASSUME NEW s \in Scan, recorded'[s] = recorded[s], Confirming(s)' \subseteq Confirming(s)
          PROVE  recorded'[s] + Cardinality(Confirming(s)') <= Cardinality(ChatHandler)
  <2>1. Cardinality(Confirming(s)') <= Cardinality(Confirming(s))
        /\ Cardinality(Confirming(s)') \in Nat /\ Cardinality(Confirming(s)) \in Nat
        /\ Cardinality(ChatHandler) \in Nat
    BY <1>all, <1>fewer, ConfirmingIsFinite, FS_Subset
  <2>2. recorded[s] + Cardinality(Confirming(s)) <= Cardinality(ChatHandler)
    BY DEF RecordsBounded
  <2> QED
    BY <1>typed2, <1>fewer, <2>1, <2>2
<1>first. ASSUME NEW s \in Scan, recorded'[s] = 0
          PROVE  recorded'[s] + Cardinality(Confirming(s)') <= Cardinality(ChatHandler)
  BY <1>all, <1>first, ConfirmingIsFinite
<1>one. ASSUME NEW s \in Scan, NEW h \in Confirming(s), recorded'[s] = recorded[s] + 1,
               Confirming(s)' \subseteq Confirming(s) \ {h}
        PROVE  recorded'[s] + Cardinality(Confirming(s)') <= Cardinality(ChatHandler)
  <2>1. IsFiniteSet(Confirming(s)) /\ Cardinality(Confirming(s)) \in Nat
        /\ Cardinality(ChatHandler) \in Nat
    BY <1>all, ConfirmingIsFinite
  <2>2. /\ IsFiniteSet(Confirming(s) \ {h})
        /\ Cardinality(Confirming(s) \ {h}) = Cardinality(Confirming(s)) - 1
    BY <2>1, FS_RemoveElement
  <2>3. /\ Cardinality(Confirming(s)') <= Cardinality(Confirming(s) \ {h})
        /\ Cardinality(Confirming(s)') \in Nat
    BY <1>all, <1>one, <2>2, ConfirmingIsFinite, FS_Subset
  <2>4. recorded[s] + Cardinality(Confirming(s)) <= Cardinality(ChatHandler)
    BY DEF RecordsBounded
  <2> QED
    BY <1>typed2, <1>one, <2>1, <2>2, <2>3, <2>4
<1>5. SUFFICES ASSUME NEW s \in Scan
               PROVE  \/ recorded'[s] = recorded[s] /\ Confirming(s)' \subseteq Confirming(s)
                      \/ recorded'[s] = 0
                      \/ \E h \in Confirming(s) : /\ recorded'[s] = recorded[s] + 1
                                                  /\ Confirming(s)' \subseteq Confirming(s) \ {h}
  <2>1. \A s \in Scan : recorded'[s] + Cardinality(Confirming(s)') <= Cardinality(ChatHandler)
    BY <1>5, <1>fewer, <1>first, <1>one
  <2> QED
    BY <2>1 DEF RecordsBounded
<1> USE ChatConstants, <1>typed DEF ChatTyped, Confirming, Confirms, ChatIdle, ChatEnds
<1>6. ASSUME NEW h \in ChatHandler, NEW x \in Place, NEW message \in {"yes", "no", "scan", "other"},
             LookUp(h, x, message)
      PROVE  \/ recorded'[s] = recorded[s] /\ Confirming(s)' \subseteq Confirming(s)
             \/ recorded'[s] = 0
  <2>1. recorded' = recorded
    BY <1>6 DEF LookUp
  <2>2. CASE pending[x] = s
    BY <2>1, <2>2 DEF FoundBeforeTaken
  <2>3. CASE pending[x] # s
    <3>1. \A g \in ChatHandler :
            hand'[g] = hand[g] \/ hand'[g].step \in {"no", "scan"} \/ hand'[g].scan # s
      BY <1>6, <2>3 DEF LookUp, Found
    <3> QED
      BY <2>1, <3>1
  <2> QED
    BY <2>2, <2>3
<1>7. ASSUME NEW h \in ChatHandler, NEW t \in Scan, PutScan(h, t)
      PROVE  recorded'[s] = recorded[s] /\ Confirming(s)' \subseteq Confirming(s)
  BY <1>7 DEF PutScan
<1>8. ASSUME NEW h \in ChatHandler, TakePending(h)
      PROVE  recorded'[s] = recorded[s] /\ Confirming(s)' \subseteq Confirming(s)
  <2>1. /\ hand[h].step \in {"yes", "no"} /\ recorded' = recorded
        /\ IF hand[h].step = "yes" THEN hand' = [hand EXCEPT ![h].step = "record"]
                                   ELSE hand' = [hand EXCEPT ![h] = ChatIdle]
    BY <1>8 DEF TakePending
  <2>2. \A g \in ChatHandler : \/ hand'[g] = hand[g] \/ hand'[g].step = "idle"
                               \/ hand[g].step = "yes" /\ hand'[g].scan = hand[g].scan
    BY <2>1
  <2> QED
    BY <2>1, <2>2
<1>9. ASSUME NEW h \in ChatHandler, RecordScan(h)
      PROVE  \/ recorded'[s] = recorded[s] /\ Confirming(s)' \subseteq Confirming(s)
             \/ \E g \in Confirming(s) : /\ recorded'[s] = recorded[s] + 1
                                         /\ Confirming(s)' \subseteq Confirming(s) \ {g}
  <2>1. /\ hand[h].step = "record"
        /\ recorded' = recorded \/ recorded' = [recorded EXCEPT ![hand[h].scan] = @ + 1]
        /\ hand'[h].step = "idle" /\ \A g \in ChatHandler : g # h => hand'[g] = hand[g]
    BY <1>9 DEF RecordScan
  <2>2. Confirming(s)' \subseteq Confirming(s) \ {h}
    BY <2>1
  <2>3. CASE recorded'[s] = recorded[s]
    BY <2>2, <2>3
  <2>4. CASE recorded'[s] # recorded[s]
    <3>1. s = hand[h].scan /\ recorded'[s] = recorded[s] + 1
      BY <2>1, <2>4
    <3> QED
      BY <2>1, <2>2, <3>1
  <2> QED
    BY <2>3, <2>4
<1>10. ASSUME NEW h \in ChatHandler, ScanFails(h)
       PROVE  recorded'[s] = recorded[s] /\ Confirming(s)' \subseteq Confirming(s)
  BY <1>10 DEF ScanFails
<1>11. ASSUME NEW x \in Place, FiveMinutesPass(x)
       PROVE  recorded'[s] = recorded[s] /\ Confirming(s)' \subseteq Confirming(s)
  BY <1>11 DEF FiveMinutesPass
<1>12. ASSUME NEW p \in ChatProcess, ChatProcessRestarts(p)
       PROVE  recorded'[s] = recorded[s] /\ Confirming(s)' \subseteq Confirming(s)
  BY <1>12 DEF ChatProcessRestarts
<1>13. CASE UNCHANGED chatVars
  BY <1>13 DEF chatVars
<1> HIDE DEF ChatTyped, Confirming, Confirms, ChatIdle, ChatEnds
<1> QED
  BY <1>6, <1>7, <1>8, <1>9, <1>10, <1>11, <1>12, <1>13 DEF ChatNext

(* Types, and the bound on one scan: however the handlers interleave, a    *)
(* scan is recorded at most once by each handler that found it before the  *)
(* first of them took it.                                                  *)
THEOREM ChatIsTyped == ChatSpec => []ChatTypeOK
<1> DEFINE I == ChatInv /\ FoundBeforeTaken /\ RecordsBounded
<1>1. ChatInit => I
  <2>1. ChatInit => FoundBeforeTaken
    BY ChatConstants DEF ChatInit, FoundBeforeTaken
  <2>2. ChatInit => RecordsBounded
    <3> SUFFICES ASSUME ChatInit, NEW s \in Scan
                 PROVE  recorded[s] + Cardinality(Confirming(s)) <= Cardinality(ChatHandler)
      BY DEF RecordsBounded
    <3>1. Confirming(s) \subseteq ChatHandler /\ recorded[s] = 0
      BY DEF Confirming, ChatInit
    <3> QED
      BY <3>1, ConfirmingIsFinite
  <2> QED
    BY <2>1, <2>2, ChatInitInv
<1>2. I /\ [ChatNext]_chatVars => I'
  BY ChatTypeStep, ChatSoundStep, FoundStep, RecordsStep DEF ChatInv
<1>3. I => ChatTypeOK
  <2> SUFFICES ASSUME I PROVE ChatTypeOK
    OBVIOUS
  <2>1. ASSUME NEW s \in Scan PROVE recorded[s] \in 0 .. Cardinality(ChatHandler)
    <3>1. Confirming(s) \subseteq ChatHandler
      BY DEF Confirming
    <3>2. Cardinality(Confirming(s)) \in Nat /\ Cardinality(ChatHandler) \in Nat
      BY <3>1, ConfirmingIsFinite
    <3>3. recorded[s] \in Nat /\ recorded[s] + Cardinality(Confirming(s)) <= Cardinality(ChatHandler)
      BY DEF ChatInv, ChatTyped, RecordsBounded
    <3> QED
      BY <3>2, <3>3
  <2>2. recorded \in [Scan -> 0 .. Cardinality(ChatHandler)]
    BY <2>1 DEF ChatInv, ChatTyped
  <2> QED
    BY <2>2 DEF ChatInv, ChatTyped, ChatTypeOK
<1> QED
  BY <1>1, <1>2, <1>3, PTL DEF ChatSpec

-----------------------------------------------------------------------------
(***************************************************************************)
(* Intake: a message acts for the account that its sender is linked to.    *)
(***************************************************************************)
(* The message is under way, and its sender's account may still change.    *)
UnderWay == phase \notin {"none", "done"}

(* held follows the sender's account, and is that one while always.        *)
HistorySound ==
  /\ held \in SUBSET Holder
  /\ always => held # {}
  /\ UnderWay => HolderOf(msg.sender) \in held \cup {NoHolder}
  /\ UnderWay /\ always => held = {HolderOf(msg.sender)}

(* What was looked up at the webhook was the sender's at that time,        *)
IdsSound ==
  phase \in {"found", "queued", "sync"} =>
    /\ ids \in held \cup {NoHolder}
    /\ always => ids \in held

(* and so is what the worker made of it.                                   *)
ChargedSound ==
  phase \in {"record", "done"} =>
    /\ charged \in held \cup {NoHolder}
    /\ always => charged \in held

IntakeInv == IntakeTypeOK /\ HistorySound /\ IdsSound /\ ChargedSound

(* At first no message has come.                                           *)
LEMMA IntakeInitInv == IntakeInit => IntakeInv
<1> SUFFICES ASSUME IntakeInit
             PROVE  IntakeInv
  OBVIOUS
<1>1. IntakeTypeOK
  BY DEF IntakeInit, IntakeTypeOK, Unread, Sent
<1>2. HistorySound /\ IdsSound /\ ChargedSound
  BY DEF IntakeInit, HistorySound, IdsSound, ChargedSound, UnderWay
<1> QED
  BY <1>1, <1>2 DEF IntakeInv

(* A message comes in with a history of its own,                           *)
LEMMA ArrivesStep ==
  ASSUME IntakeInv, NEW p \in Post, Arrives(p)
  PROVE  IntakeInv'
<1>1. PICK s \in ReadSender(p) :
        /\ msg' = [sender |-> s, group |-> p.group]
        /\ held' = {linked[f] : f \in {s} \cap Sent} \ {NoHolder}
  BY DEF Arrives
<1>2. /\ always' = (held' # {}) /\ phase' = "read" /\ UNCHANGED <<linked, ids, charged>>
  BY DEF Arrives
<1>3. s \in Sent \cup {"group"} /\ p.group \in BOOLEAN
  BY DEF ReadSender, Post, Sent
<1>4. CASE s \in Sent
  <2>1. held' = {linked[s]} \ {NoHolder}
    BY <1>1, <1>4
  <2>2. linked[s] \in Holder \cup {NoHolder} /\ HolderOf(msg.sender)' = linked[s]
    BY <1>1, <1>2, <1>4 DEF IntakeInv, IntakeTypeOK, HolderOf, Form
  <2> QED
    BY <1>1, <1>2, <1>3, <2>1, <2>2 DEF IntakeInv, IntakeTypeOK, HistorySound, IdsSound, ChargedSound, UnderWay
<1>5. CASE s \notin Sent
  <2>1. held' = {}
    BY <1>1, <1>5
  <2>2. HolderOf(msg.sender)' = NoHolder
    BY <1>1, <1>5 DEF HolderOf
  <2> QED
    BY <1>1, <1>2, <1>3, <2>1, <2>2 DEF IntakeInv, IntakeTypeOK, HistorySound, IdsSound, ChargedSound, UnderWay
<1> QED
  BY <1>4, <1>5

(* and is looked up, queued and recorded for an account of that history.   *)
LEMMA MessageSteps ==
  ASSUME IntakeInv, LookUpSender \/ QueueMessage \/ StartChat \/ RecordMessage
  PROVE  IntakeInv'
<1> USE DEF IntakeInv, IntakeTypeOK, HistorySound, IdsSound, ChargedSound, UnderWay
<1>1. CASE LookUpSender
  BY <1>1 DEF LookUpSender, HolderOf, Form
<1>2. CASE QueueMessage
  BY <1>2 DEF QueueMessage, HolderOf
<1>3. CASE StartChat
  <2>1. FindHolder \in held \cup {NoHolder} /\ (always => FindHolder \in held)
    BY <1>3, IntakeConstants DEF StartChat, FindHolder, HolderOf, Form
  <2> QED
    BY <1>3, <2>1 DEF StartChat, HolderOf
<1>4. CASE RecordMessage
  BY <1>4 DEF RecordMessage, HolderOf
<1> QED
  BY <1>1, <1>2, <1>3, <1>4

(* Whatever changes the links keeps the history with them.                 *)
LEMMA FollowStep ==
  ASSUME IntakeInv, Follow, linked' \in [Form -> Holder \cup {NoHolder}],
         UNCHANGED <<phase, msg, ids, charged>>
  PROVE  IntakeInv'
<1> USE DEF IntakeInv, IntakeTypeOK, HistorySound, IdsSound, ChargedSound, UnderWay
<1>1. CASE ~UnderWay
  BY <1>1 DEF Follow
<1>2. CASE UnderWay
  <2> DEFINE now == {linked'[f] : f \in {msg.sender} \cap Sent} \ {NoHolder}
  <2>1. held' = held \cup now /\ always' = (always /\ now # {} /\ held' = held)
    BY <1>2 DEF Follow
  <2>2. now = {HolderOf(msg.sender)'} \ {NoHolder}
    BY DEF HolderOf
  <2>3. HolderOf(msg.sender)' \in Holder \cup {NoHolder}
    BY DEF HolderOf, Form
  <2> HIDE DEF now
  <2>4. HistorySound'
    BY <1>2, <2>1, <2>2, <2>3
  <2> QED
    BY <1>2, <2>1, <2>4
<1> QED
  BY <1>1, <1>2

(* Every action keeps the invariant of the intake.                         *)
LEMMA IntakeInvStep == IntakeInv /\ [IntakeNext]_intakeVars => IntakeInv'
<1> SUFFICES ASSUME IntakeInv, [IntakeNext]_intakeVars PROVE IntakeInv'
  OBVIOUS
<1>1. ASSUME NEW p \in Post, Arrives(p) PROVE IntakeInv'
  BY <1>1, ArrivesStep
<1>2. CASE LookUpSender \/ QueueMessage \/ StartChat \/ RecordMessage
  BY <1>2, MessageSteps
<1>3. ASSUME NEW f \in Sent, NEW a \in Holder, NEW removed \in BOOLEAN,
             NEW first, NEW second,
             LinkFromChat(f, a, first, second, removed)
      PROVE  IntakeInv'
  BY <1>3, FollowStep DEF LinkFromChat, IntakeInv, IntakeTypeOK
<1>4. ASSUME NEW a \in Holder, NEW removed \in BOOLEAN, LinkFromPage(a, removed) PROVE IntakeInv'
  BY <1>4, FollowStep DEF LinkFromPage, IntakeInv, IntakeTypeOK
<1>5. ASSUME NEW a \in Holder, Unlink(a) PROVE IntakeInv'
  BY <1>5, FollowStep DEF Unlink, IntakeInv, IntakeTypeOK
<1>6. CASE UNCHANGED intakeVars
  BY <1>6 DEF intakeVars, IntakeInv, IntakeTypeOK, HistorySound, IdsSound, ChargedSound, UnderWay, HolderOf
<1> QED
  BY <1>1, <1>2, <1>3, <1>4, <1>5, <1>6 DEF IntakeNext

(* What is read of an image: nothing, a scan with its address, or words    *)
(* that do not begin with a scan.                                          *)
LEMMA ImageWords ==
  ASSUME NEW p \in Post, p.image, "scan" \in Range(ReadWords(p))
  PROVE  "address" \in Range(ReadWords(p)) \/ p.words[1] = "mention"
<1>0. p.words \in Words
  BY DEF Post
<1>1. p.words \in Words /\ p.gateway # "cloud"
  <2> SUFFICES ASSUME p.gateway = "cloud" PROVE FALSE
    BY <1>0
  <2>0. p.image = TRUE
    BY DEF Post
  <2>1. ReadWords(p) = <<>>
    BY <2>0 DEF ReadWords
  <2> QED
    BY <2>1 DEF Range
<1>2. CASE p.words \in {<<>>, <<"scan">>, <<"scan", "mention">>}
  <2>1. PICK n \in {1, 2} : /\ ReadWords(p)[n + 1] = "address"
                            /\ n + 1 \in DOMAIN ReadWords(p)
    BY <1>1, <1>2 DEF ReadWords
  <2> QED
    BY <2>1 DEF Range
<1>3. CASE p.words = <<"text">>
  BY <1>1, <1>3 DEF ReadWords, Range
<1>4. CASE p.words \in {<<"mention">>, <<"mention", "scan">>, <<"mention", "text">>}
  BY <1>4
<1> QED
  BY <1>1, <1>2, <1>3, <1>4 DEF Words

(* Whatever the groups and the mentions, a post is read as what it is.     *)
LEMMA PostsRead == PostsAreReadRight
<1> SUFFICES ASSUME NEW p \in Post, Sendable(p), Taken(p)
             PROVE  /\ p.own => ReadSender(p) = {} \/ p.gateway = "evolution"
                    /\ ReadSender(p) \subseteq {p.form} \cup (IF p.named THEN {} ELSE {"group"})
                    /\ p.image /\ "scan" \in Asked(p) =>
                         "address" \in Asked(p) \/ p.words[1] = "mention"
  BY DEF PostsAreReadRight
<1>1. p.own => ReadSender(p) = {} \/ p.gateway = "evolution"
  <2> SUFFICES ASSUME p.own, p.gateway # "evolution" PROVE ReadSender(p) = {}
    OBVIOUS
  <2>1. p.gateway = "waha" /\ p.own = TRUE
    BY DEF Sendable, Post
  <2> QED
    BY <2>1 DEF ReadSender
<1>2. ReadSender(p) \subseteq {p.form} \cup (IF p.named THEN {} ELSE {"group"})
  BY DEF ReadSender, Post
<1>3. p.image /\ "scan" \in Asked(p) => "address" \in Asked(p) \/ p.words[1] = "mention"
  BY ImageWords DEF Asked
<1> QED
  BY <1>1, <1>2, <1>3

(* A message is recorded for an account that its sender had since it was   *)
(* posted, however the links change while it waits, and no post is read as *)
(* someone's who did not write it, nor without its image.                  *)
THEOREM IntakeDoesRight == IntakeSpec => []IntakeIsRight
<1>1. IntakeInv => IntakeIsRight
  BY PostsRead DEF IntakeInv, ChargedSound, MessageIsItsSenders, IntakeIsRight
<1> QED
  BY <1>1, IntakeInitInv, IntakeInvStep, PTL DEF IntakeSpec

-----------------------------------------------------------------------------
(***************************************************************************)
(* Providers: the pages and the chat read one choice.                      *)
(***************************************************************************)
(* Every action keeps the types of the providers.                          *)
LEMMA AiTypeCorrect == AiTypeOK /\ [AiNext]_aiVars => AiTypeOK'
<1> SUFFICES ASSUME AiTypeOK, [AiNext]_aiVars PROVE AiTypeOK'
  OBVIOUS
<1> USE DEF AiTypeOK
<1>1. ASSUME NEW c \in PageCode, SetProvider(c) PROVE AiTypeOK'
  BY <1>1 DEF SetProvider
<1>2. ASSUME NEW c \in PageCode, SetKey(c) PROVE AiTypeOK'
  BY <1>2 DEF SetKey, KeyState
<1>3. ASSUME NEW c \in OwnCode, NEW enabled \in BOOLEAN, NEW key \in {"typed", "cleared", "kept"},
             UpsertProviderConfig(c, enabled, key)
      PROVE  AiTypeOK'
  <2> DEFINE leaves == CASE key = "typed" -> "current" [] key = "cleared" -> "none"
                       [] OTHER -> own[c].key
  <2>1. leaves \in KeyState
    BY DEF KeyState
  <2> HIDE DEF leaves
  <2>2. own' = [own EXCEPT ![c] = [enabled |-> enabled, key |-> leaves]]
    BY <1>3 DEF UpsertProviderConfig, leaves
  <2> QED
    BY <1>3, <2>1, <2>2 DEF UpsertProviderConfig
<1>4. ASSUME NEW listed \in BOOLEAN, ChangeSecret(listed) PROVE AiTypeOK'
  <2>1. \A k \in KeyState : Older(k) \in KeyState
    BY DEF Older, KeyState
  <2>2. keys' \in [PageCode -> KeyState]
    BY <1>4, <2>1 DEF ChangeSecret
  <2>3. own' \in [OwnCode -> [enabled : BOOLEAN, key : KeyState]]
    <3>1. ASSUME NEW c \in OwnCode
          PROVE  [own[c] EXCEPT !.key = Older(own[c].key)] \in [enabled : BOOLEAN, key : KeyState]
      <4>1. own[c] \in [enabled : BOOLEAN, key : KeyState] /\ Older(own[c].key) \in KeyState
        BY <2>1
      <4> QED
        BY <4>1
    <3> QED
      BY <1>4, <3>1 DEF ChangeSecret
  <2> QED
    BY <1>4, <2>2, <2>3 DEF ChangeSecret
<1>5. CASE UNCHANGED aiVars
  BY <1>5 DEF aiVars
<1> QED
  BY <1>1, <1>2, <1>3, <1>4, <1>5 DEF AiNext

(* The status page tells what the chat would find,                         *)
LEMMA StatusHolds == AiTypeOK => StatusIsTrue
<1> SUFFICES ASSUME AiTypeOK PROVE StatusIsTrue
  OBVIOUS
<1>1. OwnProviders \subseteq Listed
  BY AiConstants DEF OwnProviders
<1>2. ASSUME NEW c \in Usable PROVE HasConfiguredProvider
  <2>1. CASE c \in OwnProviders
    BY <2>1 DEF OwnProviders, Readable, HasConfiguredProvider
  <2>2. CASE c \in GlobalProviders
    BY <1>2, <2>2 DEF Usable, GlobalProviders, HasConfiguredProvider
  <2> QED
    BY <2>1, <2>2 DEF Usable
<1>3. ASSUME NEW c \in OwnCode, own[c].enabled, own[c].key # "none", own[c].key # "earlier" \/ legacy
      PROVE  Usable # {}
  <2>1. own[c].key = "current" \/ (own[c].key = "earlier" /\ legacy)
    BY <1>3 DEF AiTypeOK, KeyState
  <2>2. c \in OwnProviders
    BY <1>3, <2>1 DEF OwnProviders, Readable
  <2> QED
    BY <1>1, <2>2 DEF Usable
<1>4. ASSUME NEW c \in Listed, Stored(c), keys[c] # "earlier" \/ legacy PROVE Usable # {}
  <2>1. keys[c] = "current" \/ (keys[c] = "earlier" /\ legacy)
    BY <1>4 DEF Stored, AiTypeOK, KeyState
  <2>2. c \in GlobalProviders \/ c \in OwnProviders
    BY <1>4, <2>1 DEF GlobalProviders, Readable
  <2> QED
    BY <1>1, <2>2 DEF Usable
<1>5. HasConfiguredProvider =>
        \/ Usable # {}
        \/ /\ ~legacy
           /\ \/ \E c \in OwnCode : own[c].enabled /\ own[c].key = "earlier"
              \/ \E c \in PageCode \cap Listed : keys[c] = "earlier"
  BY <1>3, <1>4 DEF HasConfiguredProvider, Stored
<1>6. \A c \in OwnCode : own[c].enabled /\ TestPasses(c) => c \in Usable
  BY <1>1 DEF TestPasses, Usable, OwnProviders
<1> QED
  BY <1>2, <1>5, <1>6 DEF StatusIsTrue

(* and the readers differ in the cases named.                              *)
LEMMA ReadersHold == AiTypeOK => ReadersAgree
<1> SUFFICES ASSUME AiTypeOK PROVE ReadersAgree
  OBVIOUS
<1>1. "anthropic" \notin PageCode /\ ~Stored("anthropic")
  BY AiConstants DEF Stored
<1>2. CallOf(ParseTransaction) # CallOf(ScanReceiptOfChat) <=> chosen = "claude" /\ Stored("claude")
  <2>1. CASE chosen = "claude" /\ Stored("claude")
    <3>1. OrGemini(chosen) = "claude"
      BY <2>1, AiConstants DEF OrGemini, Stored
    <3>2. CallOf(ParseTransaction).slot = "claude"
      BY <2>1, <3>1 DEF CallOf, ParseTransaction
    <3>3. CallOf(ScanReceiptOfChat).slot \in {"gemini", NoCode}
      BY <1>1, <3>1 DEF CallOf, ScanReceiptOfChat, Normalized
    <3>4. NoCode # "claude"
      BY <2>1, AiConstants DEF Stored
    <3> QED
      BY <2>1, <3>2, <3>3, <3>4
  <2>2. CASE chosen = "claude" /\ ~Stored("claude")
    BY <1>1, <2>2 DEF CallOf, ParseTransaction, ScanReceiptOfChat, Normalized, OrGemini
  <2>3. CASE chosen # "claude"
    BY <2>3 DEF CallOf, ParseTransaction, ScanReceiptOfChat, Normalized, OrGemini
  <2> QED
    BY <2>1, <2>2, <2>3
<1>3. CallOf(InteractiveResponse) # CallOf(ScanReceiptOfChat) <=>
        botChosen # NoCode /\ Normalized(botChosen) # Normalized(OrGemini(chosen))
  BY DEF CallOf, ScanReceiptOfChat, InteractiveResponse, OrGemini
<1>4. ASSUME NEW t, t.slot = t.endpoint, CallOf(t).slot # t.endpoint PROVE ~Stored(t.endpoint)
  BY <1>4 DEF CallOf
<1>5. ScanReceiptOfChat.slot = ScanReceiptOfChat.endpoint
  BY DEF ScanReceiptOfChat
<1>6. InteractiveResponse.slot = InteractiveResponse.endpoint
  BY DEF InteractiveResponse
<1>7. ParseTransaction.slot = ParseTransaction.endpoint \/ ParseTransaction.endpoint = "anthropic"
  BY DEF ParseTransaction, Normalized
<1>9. \A t \in {ParseTransaction, ScanReceiptOfChat, InteractiveResponse} :
        CallOf(t).slot # t.endpoint => ~Stored(t.endpoint)
  BY <1>1, <1>4, <1>5, <1>6, <1>7
<1>8. OwnProviders = {} /\ ScanReceiptOfChat.endpoint \in GlobalProviders =>
        ScanReceiptOfChat.endpoint \in Primary
  <2>1. CASE chosen # "claude" \/ chosen = NoCode
    <3>1. ScanReceiptOfChat.endpoint = OrGemini(chosen)
      BY <2>1 DEF ScanReceiptOfChat, Normalized, OrGemini
    <3> QED
      BY <3>1 DEF Primary
  <2>2. CASE chosen = "claude" /\ chosen # NoCode
    <3>1. ScanReceiptOfChat.endpoint = "anthropic"
      BY <2>2, AiConstants DEF ScanReceiptOfChat, Normalized, OrGemini
    <3>2. "anthropic" \notin GlobalProviders
      BY AiConstants, <2>2 DEF GlobalProviders, Stored
    <3> QED
      BY <3>1, <3>2
  <2> QED
    BY <2>1, <2>2
<1> QED
  BY <1>2, <1>3, <1>8, <1>9 DEF ReadersAgree

(* For any providers, keys and choices, whatever is saved, removed or      *)
(* encrypted anew: the status is true but for keys of a secret that is not *)
(* listed, and the readers disagree in the cases that the property names   *)
(* and in no others.                                                       *)
THEOREM ProvidersDoAgree == AiSpec => []ProvidersAgree
<1>1. AiInit => AiTypeOK
  BY DEF AiInit, AiTypeOK, KeyState
<1>2. AiTypeOK => ProvidersAgree
  BY StatusHolds, ReadersHold DEF ProvidersAgree
<1> QED
  BY <1>1, <1>2, AiTypeCorrect, PTL DEF AiSpec
=============================================================================
