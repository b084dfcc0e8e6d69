------------------------ MODULE TxnParserImplements ------------------------
(***************************************************************************)
(* The parser of TxnParser as an implementation of TxnDigest: the hash     *)
(* context holds what was absorbed, and the finished hash is what is       *)
(* offered, until a part is refused for what it says.                      *)
(***************************************************************************)
EXTENDS TxnParser

Abstract == INSTANCE TxnDigest
  WITH Docs           <- Txns,
       NoDoc          <- NoTxn,
       CanonicalBytes <- [t \in Txns |-> Canon(t)],
       doc            <- IF thrown = "none" THEN cur ELSE NoTxn,
       absorbed       <- IF thrown = "none" THEN hash ELSE <<>>,
       digest         <- IF thrown = "none" THEN txn_hash ELSE <<>>

\* However the parts of a transaction arrive and fail, every step of the parser
\* absorbs a beginning of the transaction's canonical bytes, changes nothing or
\* refuses a part for what it says, which gives the transaction up; until then it
\* offers no hash but that of all of those bytes.
ImplementsDigest == Abstract!DigestSpec
============================================================================
