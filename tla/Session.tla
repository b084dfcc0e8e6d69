------------------------------ MODULE Session ------------------------------
(***************************************************************************)
(* The commands of main.c: the selected account, the transaction that is   *)
(* parsed, the review that is on the screen, and what a signature is of.   *)
(*                                                                         *)
(* A client sends one command at a time, gives a document up when a reply  *)
(* is an error, and may be restarted at any time: the new client knows     *)
(* nothing of what the device is doing.  Nothing on the device keeps a     *)
(* host from sending the next part after an error, or without being asked: *)
(* such a host (SendMore) awaits no signature, but the user may give one.  *)
(* The pager is abstracted to what it does to the session: it may ask for  *)
(* a part, which it then waits for, or display.  The device and its        *)
(* connection may be reset.                                                *)
(***************************************************************************)
EXTENDS Naturals

CONSTANTS
  Txns,        \* the transactions
  Msgs,        \* the messages
  NoDoc,       \* no document
  Mixed,       \* what is hashed with a part missing: no transaction's bytes
  Accounts,    \* the accounts: what a BIP32 path selects
  NoAccount,   \* no account
  Garbled,     \* a path whose length was overwritten
  Parts,       \* Parts[t]: the number of parts of t
  Deploys,     \* the transactions that are shown when all parts have come
  Refused,     \* the transactions whose last part the parser refuses to read
  Unshowable   \* the transactions that display_transaction refuses

ASSUME SessionAssumption ==
  /\ Parts \in [Txns -> Nat \ {0}]
  /\ Deploys \subseteq Txns /\ Refused \subseteq Txns /\ Unshowable \subseteq Txns
  /\ Txns \cap Msgs = {} /\ NoDoc \notin Txns \cup Msgs \cup Accounts
  /\ Mixed \notin Txns \cup Msgs \cup Accounts \cup {NoDoc}
  /\ NoAccount \notin Accounts /\ Garbled \notin Accounts /\ Garbled # NoAccount

VARIABLES
  account_selected,
  bip32_path,        \* the account it leads to
  public_key,        \* the account it is of
  cur,               \* the transaction whose parts were parsed
  got,               \* the number of these parts
  mixed,             \* one of them was refused: not all of its fields were hashed
  is_first_part,
  txn_is_complete,
  txn_hash,          \* the document it is the hash of
  screens,           \* the document, or the account, on the screens
  flow,              \* "menu", "review": with Approve and Reject, "info": without
  waiting,           \* the review waits for a part: display_page_callback is set
  apart,             \* a part was answered by an error since the screens were made
  awaits,            \* the document the client awaits a signature of
  asked,             \* the part the client was asked for: "none", "first", "next"
  knows,             \* the account the client was given the key of
  reply              \* the signature that was just sent

accountVars == <<account_selected, bip32_path, public_key>>
parserVars  == <<cur, got, mixed, is_first_part, txn_is_complete, txn_hash>>
screenVars  == <<screens, flow, waiting, apart>>
clientVars  == <<awaits, asked, knows>>
vars == <<accountVars, parserVars, screenVars, clientVars, reply>>

Docs        == Txns \cup Msgs
NoSignature == [doc |-> NoDoc, account |-> NoAccount]

\* The client sends something new, or what it was asked for.
Free     == awaits = NoDoc
Silent   == reply' = NoSignature
GivesUp  == awaits' = NoDoc /\ asked' = "none" /\ UNCHANGED knows

----------------------------------------------------------------------------
(* GET_PUBLIC_KEY                                                          *)

\* Mutant: the account stays selected until another one is.
crypto_select_account_late(a) ==
  \/ a \in Accounts /\ account_selected' = TRUE /\ bip32_path' = a /\ public_key' = a
  \/ a = Garbled /\ bip32_path' = Garbled /\ UNCHANGED <<account_selected, public_key>>
  \/ a = NoAccount /\ UNCHANGED accountVars

\* Mutant: the number of steps is not checked before the key is derived.
crypto_select_account_unchecked(a) ==
  \/ a # NoAccount /\ account_selected' = TRUE /\ bip32_path' = a /\ public_key' = a
  \/ a = NoAccount /\ account_selected' = FALSE /\ UNCHANGED <<bip32_path, public_key>>

\* A path that is not a multiple of four bytes leaves the stored one; one of the
\* wrong number of steps overwrites its length.
crypto_select_account(a) ==
  \/ a \in Accounts /\ account_selected' = TRUE /\ bip32_path' = a /\ public_key' = a
  \/ a = Garbled /\ account_selected' = FALSE /\ bip32_path' = Garbled
     /\ UNCHANGED public_key
  \/ a = NoAccount /\ account_selected' = FALSE /\ UNCHANGED <<bip32_path, public_key>>

SelectAccount(a) ==
  /\ Free
  /\ crypto_select_account(a)
  /\ knows' = IF account_selected' THEN public_key' ELSE NoAccount
  /\ Silent /\ UNCHANGED <<parserVars, screenVars, awaits, asked>>

\* Without a path: the key of the account that is selected.
GetSelectedKey ==
  /\ Free
  /\ account_selected
  /\ knows' = public_key
  /\ Silent /\ UNCHANGED <<accountVars, parserVars, screenVars, awaits, asked>>

----------------------------------------------------------------------------
(* SIGN_TXN                                                                *)

\* What part n of t comes to.  A part may be taken in and still be answered by an
\* error, "held": too many bytes follow the payload, or it is announced as the last
\* one.  After a refused part anything may follow from the bytes that come.
Outcomes(t, n) ==
  CASE n # 1 /\ mixed -> {"whole", "taken", "refused"}
    [] ~(n # 1 /\ mixed) /\ n < Parts[t] -> {"taken", "held"}
    [] OTHER -> {IF t \in Refused THEN "refused" ELSE "whole"}

\* Mutant: the first part does not make the transaction before it incomplete.
parse_transaction_part_kept(t, n, o) ==
  /\ cur' = t /\ got' = n
  /\ mixed' = (o = "refused" \/ (n # 1 /\ mixed))
  /\ txn_is_complete' = (o = "whole" \/ txn_is_complete)
  /\ txn_hash' = IF o = "whole" THEN t ELSE txn_hash

parse_transaction_part(t, n, o) ==
  /\ cur' = t /\ got' = IF n <= Parts[t] THEN n ELSE Parts[t]
  /\ mixed' = (o = "refused" \/ (n # 1 /\ mixed))
  /\ txn_is_complete' = (o = "whole")
  /\ txn_hash' = CASE o # "whole"            -> NoDoc
                   [] o = "whole" /\ mixed'  -> Mixed
                   [] o = "whole" /\ ~mixed' -> t

\* The review begins, or goes on at the awaited page, or its search asks for one
\* more part.  Client d, or none, awaits the signature afterwards.
display_proper_page(d) ==
  /\ awaits' = d /\ UNCHANGED knows
  /\ \/ ~waiting /\ flow' = "review" /\ UNCHANGED waiting /\ asked' = "none"
     \/ waiting /\ UNCHANGED flow /\ waiting' = FALSE /\ asked' = "none"
     \/ /\ waiting /\ ~txn_is_complete' /\ UNCHANGED <<flow, waiting>>
        /\ asked' = IF d = NoDoc THEN "none" ELSE "next"

display_transaction(t, d) ==
  \/ t \in Unshowable /\ screens' = NoDoc /\ apart' = TRUE /\ GivesUp
     /\ UNCHANGED <<flow, waiting>>
  \/ t \notin Unshowable /\ screens' = t /\ apart' = mixed' /\ display_proper_page(d)

\* The command ends here: whatever is on the screen stays there.
Fails == apart' = TRUE /\ GivesUp /\ UNCHANGED <<screens, flow, waiting>>

\* on_new_transaction_part, for part n of t, of client d or of none.  A deployment
\* on the screen needs no part again.  A part that is not the first one goes on with
\* the screens there are.
TxnPart(t, n, d) ==
  /\ account_selected
  /\ \E o \in Outcomes(t, n) :
       /\ parse_transaction_part(t, n, o)
       /\ is_first_part' = (n = 1 \/ (o = "whole" /\ t \in Deploys))
       /\ \/ o \in {"held", "refused"} /\ Fails
          \/ /\ o = "taken" /\ t \in Deploys
             /\ awaits' = d /\ asked' = (IF d = NoDoc THEN "none" ELSE "next")
             /\ UNCHANGED <<knows, screenVars>>
          \/ o = "whole" /\ t \in Deploys /\ display_transaction(t, d)
          \/ o \in {"whole", "taken"} /\ t \notin Deploys /\ n = 1
             /\ display_transaction(t, d)
          \/ /\ o \in {"whole", "taken"} /\ t \notin Deploys /\ n # 1
             /\ display_proper_page(d) /\ UNCHANGED <<screens, apart>>
  /\ Silent /\ UNCHANGED accountVars

SignTxn(t) == Free /\ knows # NoAccount /\ TxnPart(t, 1, t)
SendFirst  == asked = "first" /\ TxnPart(awaits, 1, awaits)
SendNext   == asked = "next" /\ ~txn_is_complete /\ TxnPart(cur, got + 1, awaits)
SendMore   == Free /\ ~txn_is_complete /\ TxnPart(cur, got + 1, NoDoc)

----------------------------------------------------------------------------
(* SIGN_MSG and DISPLAY_ACCOUNT                                            *)

\* Mutant: the hash of the message is not computed.
hash_message_forgotten(m) == txn_hash' = txn_hash
hash_message(m) == txn_hash' = m

on_new_message(m) ==
  /\ Free /\ knows # NoAccount
  /\ account_selected
  /\ hash_message(m)
  /\ is_first_part' = TRUE /\ txn_is_complete' = TRUE
  /\ screens' = m /\ apart' = FALSE /\ display_proper_page(m)
  /\ Silent /\ UNCHANGED <<accountVars, cur, got, mixed>>

\* The reply comes at once; the page that was awaited is forgotten.
on_display_account ==
  /\ Free
  /\ account_selected
  /\ screens' = public_key /\ flow' = "info" /\ waiting' = FALSE
  /\ is_first_part' = TRUE /\ txn_is_complete' = TRUE
  /\ Silent /\ UNCHANGED <<accountVars, cur, got, mixed, txn_hash, apart, clientVars>>

----------------------------------------------------------------------------
(* The review.  A reply that no client awaits is lost.                     *)

Ask(what) ==
  /\ flow = "review" /\ ~waiting
  /\ waiting' = TRUE
  /\ asked' = IF awaits = NoDoc THEN "none" ELSE what
  /\ Silent /\ UNCHANGED <<accountVars, parserVars, screens, flow, apart, awaits, knows>>

request_first_part == ~is_first_part /\ Ask("first")
request_next_part  == ~txn_is_complete /\ Ask("next")

sign_transaction ==
  /\ flow = "review" /\ ~waiting
  /\ txn_is_complete
  /\ reply' = [doc |-> txn_hash, account |-> bip32_path]
  /\ flow' = "menu"
  /\ awaits' = NoDoc /\ asked' = "none"
  /\ UNCHANGED <<accountVars, parserVars, screens, waiting, apart, knows>>

reject_transaction ==
  /\ flow = "review" /\ ~waiting
  /\ flow' = "menu"
  /\ GivesUp
  /\ Silent /\ UNCHANGED <<accountVars, parserVars, screens, waiting, apart>>

Back ==
  /\ flow = "info"
  /\ flow' = "menu"
  /\ Silent /\ UNCHANGED <<accountVars, parserVars, screens, waiting, apart, clientVars>>

RestartClient ==
  /\ awaits' = NoDoc /\ asked' = "none" /\ knows' = NoAccount
  /\ Silent /\ UNCHANGED <<accountVars, parserVars, screenVars>>

\* EXCEPTION_IO_RESET: main starts over, with its globals as they are.
ResetIo ==
  /\ account_selected' = FALSE
  /\ txn_is_complete' = TRUE
  /\ waiting' = FALSE
  /\ flow' = "menu"
  /\ awaits' = NoDoc /\ asked' = "none" /\ knows' = NoAccount
  /\ Silent
  /\ UNCHANGED <<bip32_path, public_key, cur, got, mixed, is_first_part, txn_hash,
                 screens, apart>>

Init ==
  /\ account_selected = FALSE /\ bip32_path = NoAccount /\ public_key = NoAccount
  /\ cur = NoDoc /\ got = 0 /\ mixed = FALSE
  /\ is_first_part = FALSE /\ txn_is_complete = TRUE /\ txn_hash = NoDoc
  /\ screens = NoDoc /\ flow = "menu" /\ waiting = FALSE /\ apart = FALSE
  /\ awaits = NoDoc /\ asked = "none" /\ knows = NoAccount
  /\ reply = NoSignature

Next ==
  \/ \E a \in Accounts \cup {NoAccount, Garbled} : SelectAccount(a)
  \/ GetSelectedKey
  \/ \E t \in Txns : SignTxn(t)
  \/ SendFirst \/ SendNext \/ SendMore
  \/ \E m \in Msgs : on_new_message(m)
  \/ on_display_account
  \/ request_first_part \/ request_next_part
  \/ sign_transaction \/ reject_transaction \/ Back
  \/ RestartClient \/ ResetIo

Spec == Init /\ [][Next]_vars

----------------------------------------------------------------------------
(* Properties.                                                             *)

\* Everything has its type; the path that signs is an account's or the half-stored
\* one, and a key is only ever an account's.
TypeOK ==
  /\ account_selected \in BOOLEAN
  /\ bip32_path \in Accounts \cup {NoAccount, Garbled}
  /\ public_key \in Accounts \cup {NoAccount}
  /\ cur \in Txns \cup {NoDoc} /\ got \in Nat /\ mixed \in BOOLEAN
  /\ is_first_part \in BOOLEAN
  /\ txn_is_complete \in BOOLEAN /\ txn_hash \in Docs \cup {NoDoc, Mixed}
  /\ screens \in Docs \cup Accounts \cup {NoDoc}
  /\ flow \in {"menu", "review", "info"} /\ waiting \in BOOLEAN /\ apart \in BOOLEAN
  /\ awaits \in Docs \cup {NoDoc} /\ asked \in {"none", "first", "next"}
  /\ knows \in Accounts \cup {NoAccount}
  /\ reply \in [doc : Docs \cup {NoDoc, Mixed},
               account : Accounts \cup {NoAccount, Garbled}]

\* The key that is handed out is the key of the path that signs, also after a
\* path was refused halfway.
KeyIsOfPath ==
  account_selected => bip32_path \in Accounts /\ public_key = bip32_path

\* A client that is sent a signature gets it for the document it awaits, by the
\* account whose key it was given, whatever the clients before it left behind.
SignedForClient ==
  [][reply' # NoSignature /\ awaits # NoDoc =>
       reply' = [doc |-> awaits, account |-> knows]]_vars

\* What is signed is what the screens were made for when the user approved.
SignedWasShown == [][reply' # NoSignature => reply'.doc = screens]_vars

\* The same as long as no part was answered by an error since the screens were
\* made: approving a review that followed no error signs what it was made for,
\* whoever sent the parts and whatever was parsed and shown before.
UnrefusedSignedWasShown ==
  [][reply' # NoSignature /\ ~apart => reply'.doc = screens]_vars

\* When the transaction a client awaits has come completely, it is its hash that
\* will be signed and it is on the screens.
CompleteIsAwaited ==
  awaits # NoDoc /\ txn_is_complete => txn_hash = awaits /\ screens = awaits

----------------------------------------------------------------------------
(* The inductive invariant: what the client, the parser and the screens    *)
(* have to do with each other between two commands.                        *)

ClientKnows ==
  /\ knows # NoAccount => account_selected /\ knows = public_key
  /\ awaits # NoDoc => knows # NoAccount

ClientAwaits ==
  /\ asked # "none" => awaits \in Txns
  /\ awaits \in Msgs => txn_is_complete /\ is_first_part
  /\ awaits \in Txns => cur = awaits /\ ~mixed
  /\ awaits \in Txns \ Deploys => screens = awaits

\* A transaction that is being parsed and had no error is on the screens, unless it
\* is one that is shown at its end.
PartsAreShown ==
  ~txn_is_complete =>
    cur \in Txns /\ got # 0 /\ (~apart => ~mixed /\ (cur \in Deploys \/ screens = cur))

HashIsShown ==
  flow = "review" /\ txn_is_complete /\ ~apart => txn_hash = screens

SInv ==
  /\ TypeOK /\ KeyIsOfPath /\ ClientKnows /\ ClientAwaits
  /\ CompleteIsAwaited /\ PartsAreShown /\ HashIsShown

============================================================================
