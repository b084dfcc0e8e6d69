--------------------------- MODULE Session_proofs ---------------------------
(***************************************************************************)
(* What holds of Session for all transactions, messages and accounts.      *)
(* Between two commands the client, the parser and the screens agree on    *)
(* the document (SInv); the properties follow from that.                   *)
(***************************************************************************)
EXTENDS Session, TLAPS

\* To send no signature is a value of reply.
LEMMA NoSignatureType ==
  NoSignature \in [doc : Docs \cup {NoDoc, Mixed},
                  account : Accounts \cup {NoAccount, Garbled}]
  BY DEF NoSignature

\* The initial state satisfies the invariant.
LEMMA InitSInv == Init => SInv
  <1> SUFFICES ASSUME Init PROVE SInv
    OBVIOUS
  <1>1. TypeOK
    BY NoSignatureType DEF Init, TypeOK, Docs
  <1>2. /\ KeyIsOfPath /\ ClientKnows /\ ClientAwaits
        /\ CompleteIsAwaited /\ PartsAreShown /\ HashIsShown
    BY SessionAssumption
    DEF Init, KeyIsOfPath, ClientKnows, ClientAwaits, CompleteIsAwaited, PartsAreShown, HashIsShown
  <1>3. QED BY <1>1, <1>2 DEF SInv

\* Selecting an account, or failing to, keeps key and path together; no client
\* awaits anything then.
LEMMA SelectKeeps ==
  ASSUME SInv, NEW a \in Accounts \cup {NoAccount, Garbled}, SelectAccount(a)
  PROVE  SInv'
  <1> USE DEF SInv
  <1>1. TypeOK'
    <2>1. /\ account_selected' \in BOOLEAN
          /\ bip32_path' \in Accounts \cup {NoAccount, Garbled}
          /\ public_key' \in Accounts \cup {NoAccount}
      BY SessionAssumption DEF TypeOK, SelectAccount, crypto_select_account
    <2>2. /\ knows' \in Accounts \cup {NoAccount} /\ reply' = NoSignature
          /\ UNCHANGED <<parserVars, screenVars, awaits, asked>>
      BY <2>1 DEF SelectAccount, Silent
    <2>3. QED BY <2>1, <2>2, NoSignatureType DEF TypeOK, parserVars, screenVars
  <1>2. (KeyIsOfPath /\ ClientKnows)'
    BY SessionAssumption
    DEF KeyIsOfPath, ClientKnows, TypeOK, SelectAccount, crypto_select_account, Free
  <1>3. (ClientAwaits /\ CompleteIsAwaited /\ PartsAreShown /\ HashIsShown)'
    BY DEF ClientAwaits, CompleteIsAwaited, PartsAreShown, HashIsShown,
           SelectAccount, parserVars, screenVars
  <1>4. QED BY <1>1, <1>2, <1>3

\* What parsing a part leaves: the transaction is complete with its own hash unless
\* a part of it was refused.
LEMMA ParsedPart ==
  ASSUME TypeOK, NEW t \in Txns, NEW n \in Nat \ {0}, NEW o \in Outcomes(t, n),
         parse_transaction_part(t, n, o)
  PROVE  /\ cur' = t /\ got' \in Nat \ {0} /\ mixed' \in BOOLEAN
         /\ txn_is_complete' \in BOOLEAN
         /\ txn_hash' \in {t, NoDoc, Mixed}
         /\ txn_is_complete' => o = "whole"
         /\ o \in {"whole", "taken", "held", "refused"}
         /\ txn_is_complete' /\ ~mixed' => txn_hash' = t
         /\ o = "whole" => txn_is_complete'
         /\ o # "refused" /\ (n = 1 \/ ~mixed) => ~mixed'
         /\ n # 1 /\ mixed => mixed'
  <1>1. o \in {"whole", "taken", "held", "refused"}
    BY DEF Outcomes
  <1>2. Parts[t] \in Nat \ {0}
    BY SessionAssumption
  <1>3. /\ cur' = t /\ got' \in Nat \ {0} /\ mixed' \in BOOLEAN
        /\ txn_is_complete' \in BOOLEAN
        /\ txn_is_complete' <=> o = "whole"
        /\ mixed' = (o = "refused" \/ (n # 1 /\ mixed))
    BY <1>2 DEF parse_transaction_part, TypeOK
  <1>4. /\ o # "whole" => txn_hash' = NoDoc
        /\ o = "whole" /\ mixed' => txn_hash' = Mixed
        /\ o = "whole" /\ ~mixed' => txn_hash' = t
    BY <1>3 DEF parse_transaction_part
  <1>5. QED BY <1>1, <1>3, <1>4

\* Where the pager is after it displayed the page, or asked for a part for it.
LEMMA ProperPage ==
  ASSUME TypeOK, NEW d, display_proper_page(d)
  PROVE  /\ awaits' = d /\ knows' = knows
         /\ asked' \in {"none", "next"} /\ (asked' # "none" => d # NoDoc)
         /\ flow' \in {"menu", "review", "info"} /\ waiting' \in BOOLEAN
         /\ asked' # "none" => ~txn_is_complete'
  BY DEF display_proper_page, TypeOK

\* A part of a transaction, the first one or one after those that came, keeps the
\* invariant, whether a client awaits the signature of it or a host sends it after
\* an error.
LEMMA TxnPartKeeps ==
  ASSUME SInv, NEW t \in Txns, NEW n \in Nat \ {0}, NEW d \in {t, NoDoc}, TxnPart(t, n, d),
         d = t => knows # NoAccount,
         d = NoDoc => n # 1,
         n # 1 => cur = t /\ awaits = d /\ ~txn_is_complete
  PROVE  SInv'
  <1> USE DEF SInv
  <1>1. PICK o \in Outcomes(t, n) :
          /\ parse_transaction_part(t, n, o)
          /\ is_first_part' = (n = 1 \/ (o = "whole" /\ t \in Deploys))
          /\ \/ o \in {"held", "refused"} /\ Fails
             \/ /\ o = "taken" /\ t \in Deploys
                /\ awaits' = d /\ asked' = (IF d = NoDoc THEN "none" ELSE "next")
                /\ UNCHANGED <<knows, screenVars>>
             \/ o = "whole" /\ t \in Deploys /\ display_transaction(t, d)
             \/ o \in {"whole", "taken"} /\ t \notin Deploys /\ n = 1
                /\ display_transaction(t, d)
             \/ /\ o \in {"whole", "taken"} /\ t \notin Deploys /\ n # 1
                /\ display_proper_page(d) /\ UNCHANGED <<screens, apart>>
    BY DEF TxnPart
  <1>2. /\ cur' = t /\ got' \in Nat \ {0} /\ mixed' \in BOOLEAN
        /\ txn_is_complete' \in BOOLEAN
        /\ txn_hash' \in {t, NoDoc, Mixed}
        /\ txn_is_complete' => o = "whole"
        /\ o \in {"whole", "taken", "held", "refused"}
        /\ txn_is_complete' /\ ~mixed' => txn_hash' = t
        /\ o = "whole" => txn_is_complete'
        /\ o # "refused" /\ (n = 1 \/ ~mixed) => ~mixed'
        /\ n # 1 /\ mixed => mixed'
    BY <1>1, ParsedPart
  <1>3. /\ account_selected /\ UNCHANGED <<account_selected, bip32_path, public_key>>
        /\ reply' = NoSignature /\ is_first_part' \in BOOLEAN
    BY <1>1 DEF TxnPart, accountVars, Silent
  <1>4. t # NoDoc /\ t \notin Msgs
    BY SessionAssumption
  <1>5. KeyIsOfPath'
    BY <1>3 DEF KeyIsOfPath
  <1>6. ASSUME awaits' \in {d, NoDoc}, knows' = knows
        PROVE  ClientKnows'
    BY <1>3, <1>6 DEF ClientKnows
  <1>7. n # 1 /\ mixed => apart
    BY <1>1, <1>2 DEF PartsAreShown
  <1>8. d = t => n = 1 \/ ~mixed
    BY <1>4 DEF ClientAwaits
  <1>9. CASE (o \in {"held", "refused"} /\ Fails)
             \/ (t \in Unshowable /\ screens' = NoDoc /\ apart' = TRUE /\ GivesUp
                 /\ UNCHANGED <<flow, waiting>>)
    <2>1. /\ awaits' = NoDoc /\ asked' = "none" /\ knows' = knows /\ apart' = TRUE
          /\ screens' \in {screens, NoDoc} /\ UNCHANGED <<flow, waiting>>
      BY <1>9 DEF Fails, GivesUp
    <2>2. TypeOK'
      BY <1>2, <1>3, <2>1, NoSignatureType DEF TypeOK, Docs
    <2>3. (ClientAwaits /\ CompleteIsAwaited /\ PartsAreShown /\ HashIsShown)'
      BY <1>2, <2>1, SessionAssumption
      DEF ClientAwaits, CompleteIsAwaited, PartsAreShown, HashIsShown
    <2>4. QED BY <1>5, <1>6, <2>1, <2>2, <2>3
  <1>10. CASE /\ o = "taken" /\ t \in Deploys
              /\ awaits' = d /\ asked' = (IF d = NoDoc THEN "none" ELSE "next")
              /\ UNCHANGED <<knows, screenVars>>
    <2>1. UNCHANGED <<knows, screens, flow, waiting, apart>> /\ ~txn_is_complete'
      BY <1>2, <1>10 DEF screenVars
    <2>2. TypeOK'
      BY <1>2, <1>3, <1>10, <2>1, NoSignatureType DEF TypeOK, Docs
    <2>3. (ClientAwaits /\ CompleteIsAwaited)'
      BY <1>2, <1>4, <1>8, <1>10, <2>1 DEF ClientAwaits, CompleteIsAwaited
    <2>4. (PartsAreShown /\ HashIsShown)'
      BY <1>2, <1>7, <1>10, <2>1 DEF PartsAreShown, HashIsShown
    <2>5. QED BY <1>5, <1>6, <1>10, <2>1, <2>2, <2>3, <2>4
  <1>11. CASE /\ o \in {"whole", "taken"} /\ (t \in Deploys => o = "whole")
              /\ screens' = t /\ apart' = mixed' /\ display_proper_page(d)
    <2>1. /\ awaits' = d /\ knows' = knows
          /\ asked' \in {"none", "next"} /\ (asked' # "none" => d # NoDoc)
          /\ flow' \in {"menu", "review", "info"} /\ waiting' \in BOOLEAN
      BY <1>11, ProperPage
    <2>2. TypeOK'
      BY <1>2, <1>3, <1>11, <2>1, NoSignatureType DEF TypeOK, Docs
    <2>3. (ClientAwaits /\ CompleteIsAwaited)'
      BY <1>2, <1>4, <1>8, <1>11, <2>1 DEF ClientAwaits, CompleteIsAwaited
    <2>4. (PartsAreShown /\ HashIsShown)'
      BY <1>2, <1>11 DEF PartsAreShown, HashIsShown
    <2>5. QED BY <1>5, <1>6, <2>1, <2>2, <2>3, <2>4
  <1>12. CASE /\ o \in {"whole", "taken"} /\ t \notin Deploys /\ n # 1
              /\ display_proper_page(d) /\ UNCHANGED <<screens, apart>>
    <2>1. /\ awaits' = d /\ knows' = knows
          /\ asked' \in {"none", "next"} /\ (asked' # "none" => d # NoDoc)
          /\ flow' \in {"menu", "review", "info"} /\ waiting' \in BOOLEAN
      BY <1>12, ProperPage
    <2>2. TypeOK'
      BY <1>2, <1>3, <1>12, <2>1, NoSignatureType DEF TypeOK, Docs
    <2>3. (ClientAwaits /\ CompleteIsAwaited)'
      <3>1. d = t => screens = t
        BY <1>12 DEF ClientAwaits
      <3>2. QED
        BY <1>2, <1>4, <1>8, <1>12, <2>1, <3>1 DEF ClientAwaits, CompleteIsAwaited
    <2>4. (PartsAreShown /\ HashIsShown)'
      <3>1. ~apart => ~mixed /\ screens = t
        BY <1>12 DEF PartsAreShown
      <3>2. QED
        BY <1>2, <1>12, <3>1 DEF PartsAreShown, HashIsShown
    <2>5. QED BY <1>5, <1>6, <2>1, <2>2, <2>3, <2>4
  <1>13. QED
    BY <1>1, <1>9, <1>10, <1>11, <1>12 DEF display_transaction

\* A message replaces what was parsed and what was shown.
LEMMA MessageKeeps ==
  ASSUME SInv, NEW m \in Msgs, on_new_message(m)
  PROVE  SInv'
  <1> USE DEF SInv
  <1>1. /\ awaits' = m /\ screens' = m /\ txn_hash' = m
        /\ txn_is_complete' = TRUE /\ is_first_part' = TRUE
        /\ asked' = "none" /\ flow' \in {flow, "review"} /\ waiting' \in BOOLEAN
        /\ apart' = FALSE /\ reply' = NoSignature
        /\ UNCHANGED <<account_selected, bip32_path, public_key, cur, got, mixed, knows>>
    BY DEF on_new_message, hash_message, display_proper_page, TypeOK, Silent, accountVars
  <1>2. m \notin Txns /\ m # NoDoc /\ knows # NoAccount
    BY SessionAssumption DEF on_new_message
  <1>3. QED
    BY <1>1, <1>2
    DEF TypeOK, KeyIsOfPath, ClientKnows, ClientAwaits, CompleteIsAwaited,
        PartsAreShown, HashIsShown, NoSignature, Docs

\* A request for a part goes to a client that awaits a transaction, or is lost.
LEMMA AskKeeps ==
  ASSUME SInv, request_first_part \/ request_next_part
  PROVE  SInv'
  <1> USE DEF SInv
  <1>1. /\ asked' \in {"none", "first", "next"}
        /\ asked' # "none" => awaits # NoDoc /\ ~(is_first_part /\ txn_is_complete)
        /\ waiting' = TRUE /\ reply' = NoSignature
        /\ UNCHANGED <<account_selected, bip32_path, public_key, cur, got, mixed,
                       is_first_part, txn_is_complete, txn_hash, screens, flow, apart,
                       awaits, knows>>
    BY DEF request_first_part, request_next_part, Ask, Silent, accountVars, parserVars
  <1>2. asked' # "none" => awaits \in Txns
    BY <1>1 DEF TypeOK, Docs, ClientAwaits
  <1>3. QED
    BY <1>1, <1>2
    DEF TypeOK, KeyIsOfPath, ClientKnows, ClientAwaits, CompleteIsAwaited,
        PartsAreShown, HashIsShown, NoSignature, Docs

\* The end of a review, by either button or by a restart of either side.
LEMMA EndKeeps ==
  ASSUME SInv,
         \/ sign_transaction \/ reject_transaction \/ Back \/ GetSelectedKey
         \/ RestartClient \/ ResetIo \/ on_display_account
  PROVE  SInv'
  <1> DEFINE Rest == /\ KeyIsOfPath /\ ClientKnows /\ ClientAwaits
                     /\ CompleteIsAwaited /\ PartsAreShown /\ HashIsShown
  <1>0. TypeOK /\ Rest
    BY DEF SInv
  <1> HIDE DEF Rest
  <1>1. CASE sign_transaction
    <2>1. TypeOK'
      BY <1>0, <1>1, NoSignatureType, SessionAssumption
      DEF sign_transaction, accountVars, parserVars, TypeOK, Silent, Docs
    <2>2. Rest'
      BY <1>0, <1>1, SessionAssumption
      DEF sign_transaction, accountVars, parserVars, Rest, TypeOK, KeyIsOfPath, ClientKnows, ClientAwaits,
          CompleteIsAwaited, PartsAreShown, HashIsShown
    <2>3. QED BY <2>1, <2>2 DEF SInv, Rest
  <1>2. CASE reject_transaction
    <2>1. TypeOK'
      BY <1>0, <1>2, NoSignatureType, SessionAssumption
      DEF reject_transaction, GivesUp, accountVars, parserVars, TypeOK, Silent, Docs
    <2>2. Rest'
      BY <1>0, <1>2, SessionAssumption
      DEF reject_transaction, GivesUp, accountVars, parserVars, Rest, TypeOK, KeyIsOfPath, ClientKnows, ClientAwaits,
          CompleteIsAwaited, PartsAreShown, HashIsShown
    <2>3. QED BY <2>1, <2>2 DEF SInv, Rest
  <1>3. CASE Back
    <2>1. TypeOK'
      BY <1>0, <1>3, NoSignatureType, SessionAssumption
      DEF Back, accountVars, parserVars, clientVars, TypeOK, Silent, Docs
    <2>2. Rest'
      BY <1>0, <1>3, SessionAssumption
      DEF Back, accountVars, parserVars, clientVars, Rest, TypeOK, KeyIsOfPath, ClientKnows, ClientAwaits,
          CompleteIsAwaited, PartsAreShown, HashIsShown
    <2>3. QED BY <2>1, <2>2 DEF SInv, Rest
  <1>4. CASE GetSelectedKey
    <2>1. TypeOK'
      BY <1>0, <1>4, NoSignatureType, SessionAssumption
      DEF GetSelectedKey, Free, accountVars, parserVars, screenVars, TypeOK, Silent, Docs
    <2>2. Rest'
      BY <1>0, <1>4, SessionAssumption
      DEF GetSelectedKey, Free, accountVars, parserVars, screenVars, Rest, TypeOK, KeyIsOfPath, ClientKnows, ClientAwaits,
          CompleteIsAwaited, PartsAreShown, HashIsShown
    <2>3. QED BY <2>1, <2>2 DEF SInv, Rest
  <1>5. CASE RestartClient
    <2>1. TypeOK'
      BY <1>0, <1>5, NoSignatureType, SessionAssumption
      DEF RestartClient, accountVars, parserVars, screenVars, TypeOK, Silent, Docs
    <2>2. Rest'
      BY <1>0, <1>5, SessionAssumption
      DEF RestartClient, accountVars, parserVars, screenVars, Rest, TypeOK, KeyIsOfPath, ClientKnows, ClientAwaits,
          CompleteIsAwaited, PartsAreShown, HashIsShown
    <2>3. QED BY <2>1, <2>2 DEF SInv, Rest
  <1>6. CASE ResetIo
    <2>1. TypeOK'
      <3>1. /\ account_selected' \in BOOLEAN /\ txn_is_complete' \in BOOLEAN
            /\ waiting' \in BOOLEAN
        BY <1>6 DEF ResetIo
      <3>2. /\ flow' = "menu" /\ awaits' = NoDoc /\ asked' = "none"
            /\ knows' = NoAccount /\ reply' = NoSignature
            /\ UNCHANGED <<bip32_path, public_key, cur, got, mixed, is_first_part,
                           txn_hash, screens, apart>>
        BY <1>6 DEF ResetIo, Silent
      <3>3. QED BY <1>0, <3>1, <3>2, NoSignatureType DEF TypeOK
    <2>2. Rest'
      BY <1>0, <1>6, SessionAssumption
      DEF ResetIo, Rest, TypeOK, KeyIsOfPath, ClientKnows, ClientAwaits,
          CompleteIsAwaited, PartsAreShown, HashIsShown
    <2>3. QED BY <2>1, <2>2 DEF SInv, Rest
  <1>7. CASE on_display_account
    <2>1. TypeOK'
      <3>1. /\ waiting' \in BOOLEAN /\ is_first_part' \in BOOLEAN
            /\ txn_is_complete' \in BOOLEAN
        BY <1>7 DEF on_display_account
      <3>2. /\ account_selected /\ screens' = public_key /\ flow' = "info"
            /\ reply' = NoSignature
            /\ UNCHANGED <<account_selected, bip32_path, public_key, cur, got, mixed,
                           txn_hash, apart, awaits, asked, knows>>
        BY <1>7 DEF on_display_account, accountVars, clientVars, Silent
      <3>3. public_key \in Accounts
        BY <1>0, <3>2 DEF Rest, KeyIsOfPath
      <3>4. QED BY <1>0, <3>1, <3>2, <3>3, NoSignatureType DEF TypeOK
    <2>2. Rest'
      BY <1>0, <1>7, SessionAssumption
      DEF on_display_account, Free, accountVars, clientVars, Rest, TypeOK, KeyIsOfPath, ClientKnows, ClientAwaits,
          CompleteIsAwaited, PartsAreShown, HashIsShown
    <2>3. QED BY <2>1, <2>2 DEF SInv, Rest
  <1>8. QED BY <1>1, <1>2, <1>3, <1>4, <1>5, <1>6, <1>7

\* Every step keeps the invariant.
LEMMA NextSInv == SInv /\ [Next]_vars => SInv'
  <1> SUFFICES ASSUME SInv, [Next]_vars PROVE SInv'
    OBVIOUS
  <1>1. CASE \E a \in Accounts \cup {NoAccount, Garbled} : SelectAccount(a)
    BY <1>1, SelectKeeps
  <1>2. CASE \E t \in Txns : SignTxn(t)
    <2>1. PICK t \in Txns : SignTxn(t)
      BY <1>2
    <2>2. TxnPart(t, 1, t) /\ knows # NoAccount /\ t # NoDoc
      BY <2>1, SessionAssumption DEF SignTxn
    <2>3. QED BY <2>2, TxnPartKeeps
  <1>3. CASE SendFirst \/ SendNext
    <2>1. /\ awaits \in Txns /\ awaits # NoDoc /\ cur = awaits /\ knows # NoAccount
          /\ got + 1 \in Nat \ {0}
      BY <1>3, SessionAssumption
      DEF SendFirst, SendNext, SInv, ClientAwaits, ClientKnows, TypeOK
    <2>2. CASE SendFirst
      BY <2>1, <2>2, TxnPartKeeps DEF SendFirst
    <2>3. CASE SendNext
      BY <2>1, <2>3, TxnPartKeeps DEF SendNext
    <2>4. QED BY <1>3, <2>2, <2>3
  <1>4. CASE SendMore
    <2>1. /\ cur \in Txns /\ cur # NoDoc /\ awaits = NoDoc /\ ~txn_is_complete
          /\ got + 1 \in Nat \ {0} /\ TxnPart(cur, got + 1, NoDoc)
      BY <1>4, SessionAssumption DEF SendMore, Free, SInv, PartsAreShown, TypeOK
    <2>2. got + 1 # 1
      BY <2>1 DEF SInv, TypeOK, PartsAreShown
    <2>3. QED BY <2>1, <2>2, TxnPartKeeps
  <1>5. CASE \E m \in Msgs : on_new_message(m)
    BY <1>5, MessageKeeps
  <1>6. CASE request_first_part \/ request_next_part
    BY <1>6, AskKeeps
  <1>7. CASE \/ sign_transaction \/ reject_transaction \/ Back \/ GetSelectedKey
             \/ RestartClient \/ ResetIo \/ on_display_account
    BY <1>7, EndKeeps
  <1>8. CASE UNCHANGED vars
    BY <1>8
    DEF vars, accountVars, parserVars, screenVars, clientVars, SInv, TypeOK, KeyIsOfPath,
        ClientKnows, ClientAwaits, CompleteIsAwaited, PartsAreShown, HashIsShown
  <1>9. QED BY <1>1, <1>2, <1>3, <1>4, <1>5, <1>6, <1>7, <1>8 DEF Next

\* The invariant holds throughout.
THEOREM SessionInvariant == Spec => []SInv
  BY InitSInv, NextSInv, PTL DEF Spec

\* Only an approval sends a signature.
LEMMA OnlyApprovalSigns ==
  ASSUME [Next]_vars, reply' # NoSignature, UNCHANGED vars => reply = NoSignature
  PROVE  sign_transaction
  <1>1. CASE UNCHANGED vars
    BY <1>1 DEF vars
  <1>2. CASE Next
    BY <1>2
    DEF Next, SelectAccount, GetSelectedKey, SignTxn, SendFirst, SendNext, SendMore, TxnPart,
        on_new_message, on_display_account, request_first_part, request_next_part, Ask,
        reject_transaction, Back, RestartClient, ResetIo, Silent
  <1>3. QED BY <1>1, <1>2

\* Every variable stays in its type, for any documents and accounts.
THEOREM TypeTheorem == Spec => []TypeOK
  BY SessionInvariant, PTL DEF SInv

\* GET_PUBLIC_KEY never hands out a key that is not the key of the path with
\* which the next signature is made.
THEOREM KeyTheorem == Spec => []KeyIsOfPath
  BY SessionInvariant, PTL DEF SInv

\* Once the awaited document is complete, its hash is the one that an approval
\* signs, and it is what the review shows.
THEOREM CompleteTheorem == Spec => []CompleteIsAwaited
  BY SessionInvariant, PTL DEF SInv

\* A signature that reaches a client is of the document it awaits, by the account
\* it was given the key of.
THEOREM SignedForClientTheorem == Spec => SignedForClient
  <1>1. SInv /\ [Next]_vars =>
          [reply' # NoSignature /\ awaits # NoDoc =>
             reply' = [doc |-> awaits, account |-> knows]]_vars
    <2> SUFFICES ASSUME SInv, [Next]_vars, vars' # vars, reply' # NoSignature, awaits # NoDoc
                 PROVE  reply' = [doc |-> awaits, account |-> knows]
      OBVIOUS
    <2>1. sign_transaction
      BY OnlyApprovalSigns
    <2>2. txn_hash = awaits /\ bip32_path = knows
      BY <2>1 DEF sign_transaction, SInv, CompleteIsAwaited, ClientKnows, KeyIsOfPath
    <2>3. QED BY <2>1, <2>2 DEF sign_transaction
  <1>2. QED BY <1>1, SessionInvariant, PTL DEF Spec, SignedForClient

\* Unless a part was answered by an error since the screens were made, what an
\* approval signs is what they were made for.
THEOREM UnrefusedTheorem == Spec => UnrefusedSignedWasShown
  <1>1. SInv /\ [Next]_vars =>
          [reply' # NoSignature /\ ~apart => reply'.doc = screens]_vars
    <2> SUFFICES ASSUME SInv, [Next]_vars, vars' # vars, reply' # NoSignature, ~apart
                 PROVE  reply'.doc = screens
      OBVIOUS
    <2>1. sign_transaction
      BY OnlyApprovalSigns
    <2>2. QED BY <2>1 DEF sign_transaction, SInv, HashIsShown
  <1>2. QED BY <1>1, SessionInvariant, PTL DEF Spec, UnrefusedSignedWasShown

=============================================================================
