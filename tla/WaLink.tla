------------------------------- MODULE WaLink -------------------------------
(***************************************************************************)
(* Linking a WhatsApp number to an account.  The account page issues a     *)
(* code and the chat redeems it, or the page links a typed number; both    *)
(* remove the account's older link and insert the new one in transactions  *)
(* of their own, and ignore the errors of the removals.  The table's key   *)
(* is the number as text: the chat inserts it as the gateway sends it, the *)
(* page in its local form, so one number may have two rows.                *)
(***************************************************************************)
EXTENDS Naturals, FiniteSets

CONSTANTS Account, PhoneNumber, LinkCode, LinkRequest, NoAccount, NoPhone

Phone == PhoneNumber \X {"sent", "typed"}

ASSUME LinkConstants == NoAccount \notin Account /\ NoPhone \notin Phone

VARIABLES
  links,      \* whatsapp_sessions: the account of a number
  codes,      \* whatsapp_otp_tokens
  lreq,       \* requests between their transactions
  kept,       \* accounts whose older link could not be removed, for the property
  crossed     \* accounts linked by two requests at once, for the property

linkVars == <<links, codes, lreq, kept, crossed>>

NoLinkCode == [state |-> "none", account |-> NoAccount]
LinkIdle == [step |-> "idle", account |-> NoAccount, phone |-> NoPhone,
             code |-> {}]

LinkTypeOK ==
  /\ links \in [Phone -> Account \cup {NoAccount}]
  /\ codes \in [LinkCode -> [state : {"none", "fresh", "expired"},
                             account : Account \cup {NoAccount}]]
  /\ lreq \in [LinkRequest ->
        [step : {"idle", "match", "dropPhone", "dropAccount", "insert", "dropCode"},
         account : Account \cup {NoAccount}, phone : Phone \cup {NoPhone},
         code : SUBSET LinkCode]]
  /\ kept \in SUBSET Account
  /\ crossed \in SUBSET Account

LinkInit ==
  /\ links = [p \in Phone |-> NoAccount]
  /\ codes = [c \in LinkCode |-> NoLinkCode]
  /\ lreq = [r \in LinkRequest |-> LinkIdle]
  /\ kept = {}
  /\ crossed = {}

LinksOf(a) == {p \in Phone : links[p] = a}

LinkStep(r, s) == lreq' = [lreq EXCEPT ![r].step = s]

LinkEnds(r) == lreq' = [lreq EXCEPT ![r] = LinkIdle]

-----------------------------------------------------------------------------
(* Codes                                                                   *)

(* GenerateOTP first clears the expired codes; that may fail unnoticed.    *)
GenerateOTP(a, c, cleared) ==
  /\ codes[c].state = "none"
  /\ codes' = [k \in LinkCode |->
        CASE k = c -> [state |-> "fresh", account |-> a]
          [] k # c /\ cleared /\ codes[k].state = "expired" -> NoLinkCode
          [] OTHER -> codes[k]]
  /\ UNCHANGED <<links, lreq, kept, crossed>>

CodeExpires(c) ==
  /\ codes[c].state = "fresh"
  /\ codes' = [codes EXCEPT ![c].state = "expired"]
  /\ UNCHANGED <<links, lreq, kept, crossed>>

-----------------------------------------------------------------------------
(* ProcessLogin, step by step                                              *)

(* GetOTPToken; an expired code is removed and refused.                    *)
ReadCode(r, n, c) ==
  /\ lreq[r].step = "idle"
  /\ \/ /\ codes[c].state = "fresh"
        /\ lreq' = [lreq EXCEPT ![r] = [step |-> "match", account |-> codes[c].account,
                                        phone |-> <<n, "sent">>, code |-> {c}]]
        /\ UNCHANGED codes
     \/ /\ codes[c].state = "expired"
        /\ codes' = [codes EXCEPT ![c] = NoLinkCode]
        /\ UNCHANGED lreq
  /\ UNCHANGED <<links, kept, crossed>>

(* The profile's number, local or as the gateway resolves it, is the       *)
(* sender's or it is not; several accounts may have one number.            *)
MatchProfile(r) ==
  /\ lreq[r].step = "match"
  /\ LinkStep(r, "dropPhone") \/ LinkEnds(r)
  /\ UNCHANGED <<links, codes, kept, crossed>>

(* DeleteSessionByPhone, its error ignored.                                *)
DropByPhone(r) ==
  /\ lreq[r].step = "dropPhone"
  /\ links' \in {links, [links EXCEPT ![lreq[r].phone] = NoAccount]}
  /\ LinkStep(r, "dropAccount")
  /\ UNCHANGED <<codes, kept, crossed>>

(* DeleteSessionByUser, its error ignored by login and page alike.         *)
DropByAccount(r) ==
  LET a == lreq[r].account
  IN  /\ lreq[r].step = "dropAccount"
      /\ \/ /\ links' = [p \in Phone |-> IF links[p] = a THEN NoAccount ELSE links[p]]
            /\ UNCHANGED kept
         \/ /\ kept' = kept \cup {a}
            /\ UNCHANGED links
      /\ LinkStep(r, "insert")
      /\ UNCHANGED <<codes, crossed>>

(* CreateSession: the key refuses a number that has a row.  A refused or   *)
(* failed insert ends the request, and the login's code stays.             *)
InsertLink(r) ==
  LET a == lreq[r].account
      others == {q \in LinkRequest \ {r} : lreq[q].step = "insert" /\ lreq[q].account = a}
  IN  /\ lreq[r].step = "insert"
      /\ \/ /\ links[lreq[r].phone] = NoAccount
            /\ links' = [links EXCEPT ![lreq[r].phone] = a]
            /\ crossed' = IF others = {} THEN crossed ELSE crossed \cup {a}
            /\ IF lreq[r].code = {} THEN LinkEnds(r) ELSE LinkStep(r, "dropCode")
         \/ /\ LinkEnds(r)
            /\ UNCHANGED <<links, crossed>>
      /\ UNCHANGED <<codes, kept>>

(* DeleteOTPToken, its error ignored.                                      *)
DropCode(r) ==
  /\ lreq[r].step = "dropCode"
  /\ codes' \in {codes, [c \in LinkCode |-> IF c \in lreq[r].code THEN NoLinkCode ELSE codes[c]]}
  /\ LinkEnds(r)
  /\ UNCHANGED <<links, kept, crossed>>

-----------------------------------------------------------------------------
(* The account page                                                        *)

(* Mutant: a number nobody has is inserted at once. *)
ConnectDirect_NoDrop(r, a, n) ==
  /\ lreq[r].step = "idle"
  /\ links[<<n, "typed">>] = NoAccount
  /\ lreq' = [lreq EXCEPT ![r] = [step |-> "insert", account |-> a,
                                  phone |-> <<n, "typed">>, code |-> {}]]
  /\ UNCHANGED <<links, codes, kept, crossed>>

(* Mutant: the number is inserted as it was typed. *)
ConnectDirect_AsTyped(r, a, n) ==
  /\ lreq[r].step = "idle"
  /\ links[<<n, "typed">>] = NoAccount
  /\ lreq' = [lreq EXCEPT ![r] = [step |-> "dropAccount", account |-> a,
                                  phone |-> <<n, "raw">>, code |-> {}]]
  /\ UNCHANGED <<links, codes, kept, crossed>>

(* ConnectDirect asks for the local form only: a row that the chat         *)
(* inserted for the same number is not found.                              *)
ConnectDirect(r, a, n) ==
  /\ lreq[r].step = "idle"
  /\ links[<<n, "typed">>] = NoAccount
  /\ lreq' = [lreq EXCEPT ![r] = [step |-> "dropAccount", account |-> a,
                                  phone |-> <<n, "typed">>, code |-> {}]]
  /\ UNCHANGED <<links, codes, kept, crossed>>

Disconnect(a) ==
  /\ LinksOf(a) # {}
  /\ links' = [p \in Phone |-> IF links[p] = a THEN NoAccount ELSE links[p]]
  /\ UNCHANGED <<codes, lreq, kept, crossed>>

(* A process stops, or a statement fails, between two transactions.        *)
LinkRequestDies(r) ==
  /\ lreq[r].step # "idle"
  /\ LinkEnds(r)
  /\ UNCHANGED <<links, codes, kept, crossed>>

LinkNext ==
  \/ \E a \in Account, c \in LinkCode, cleared \in BOOLEAN : GenerateOTP(a, c, cleared)
  \/ \E c \in LinkCode : CodeExpires(c)
  \/ \E r \in LinkRequest, n \in PhoneNumber, c \in LinkCode : ReadCode(r, n, c)
  \/ \E r \in LinkRequest, a \in Account, n \in PhoneNumber : ConnectDirect(r, a, n)
  \/ \E r \in LinkRequest :
       \/ MatchProfile(r) \/ DropByPhone(r) \/ DropByAccount(r)
       \/ InsertLink(r) \/ DropCode(r) \/ LinkRequestDies(r)
  \/ \E a \in Account : Disconnect(a)

LinkSpec == LinkInit /\ [][LinkNext]_linkVars

-----------------------------------------------------------------------------
(* Properties                                                              *)

(* The look-up by account takes any row it finds.  An account has two only *)
(* if an ignored removal failed or two requests linked it at once: the     *)
(* order remove, then insert keeps one row in every other history, though  *)
(* the table does not ask for it.                                          *)
LinkedTwiceIsExplained ==
  \A a \in Account : Cardinality(LinksOf(a)) > 1 => a \in kept \cup crossed
=============================================================================
