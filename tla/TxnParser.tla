----------------------------- MODULE TxnParser -----------------------------
(***************************************************************************)
(* The streaming transaction parser of transaction.h, fed by the SIGN_TXN  *)
(* command of main.c.                                                      *)
(*                                                                         *)
(* A transaction reaches the device in parts of at most MaxPart bytes.     *)
(* After the type byte it is a sequence of nine tagged fields: nonce,      *)
(* account, recipient, amount, payload, gasLimit, gasPrice, type, chainId. *)
(* parse_first_part reads the fields before the payload out of the first   *)
(* part, parse_payload_part absorbs one part of the payload, and           *)
(* parse_last_part reads the fields after it, which may be cut by the end  *)
(* of a part at any byte: what could not be read yet is kept in last_part. *)
(* The hash that the user signs is accumulated on the way.                 *)
(*                                                                         *)
(* A byte on the wire is the pair <<t, i>>: byte number i of transaction t.*)
(* What a field says is abstracted to the bytes that say it, so the hash   *)
(* context is the sequence of bytes (and default values) absorbed so far.  *)
(***************************************************************************)
EXTENDS Integers, Sequences

CONSTANTS
  Txns,          \* the transactions a client may send
  NoTxn,         \* no transaction
  End,           \* End[t][k]: offset of the end of field k; field 0 is the type byte
  PayloadAt,     \* offset of the payload's first byte, after its tag and length
  Size,          \* number of bytes sent for t; it may be cut short or too long
  Bad,           \* the fields of t whose contents the parser refuses; an absent
                 \* type stands for 0 and may be the wrong one
  MinPart,       \* fewest bytes of a part that is not the last one (50)
  MinFirst,      \* fewest bytes of the first part (60)
  MaxPart,       \* most bytes of a part (250)
  LastPartSize,  \* sizeof(last_part) (128)
  FieldSize(_, _),  \* the bytes that field k says it takes at the start of the
                    \* unread bytes: 0 when its tag is not there
  Refuses(_, _)     \* the contents of field k, or its absence, are refused there

Field   == 1..9
\* The fields that parse_first_part and parse_last_part do not treat as optional.
Required == {1, 2, 9}

Present(t, k) == End[t][k-1] < End[t][k]

\* A transaction that the parser has no reason to refuse.
WellFormed(t) ==
  /\ \A k \in Required : Present(t, k)
  /\ Bad[t] = {}
  /\ Size[t] = End[t][9]

ASSUME TxnAssumption ==
  /\ NoTxn \notin Txns
  /\ End \in [Txns -> [0..9 -> Nat]]
  /\ PayloadAt \in [Txns -> Nat]
  /\ Size \in [Txns -> Nat \ {0}]
  /\ Bad \in [Txns -> SUBSET Field]
  /\ \A t \in Txns : \A k \in Bad[t] : Present(t, k) \/ k = 8
  /\ \A t \in Txns :
       /\ End[t][0] = 1
       /\ \A k \in Field : End[t][k-1] <= End[t][k]
       /\ End[t][4] <= PayloadAt[t]
       /\ PayloadAt[t] <= End[t][5]
       /\ PayloadAt[t] = End[t][4] <=> ~Present(t, 5)

ASSUME SizeAssumption ==
  /\ MinPart \in Nat \ {0}
  /\ MinFirst \in Nat \ {0}
  /\ MaxPart \in Nat \ {0}
  /\ LastPartSize \in Nat

\* The fields after the payload of a transaction that is not refused fit in
\* last_part: the lengths parse_last_part accepts add up to 80 bytes of its 128.
ASSUME TailAssumption ==
  \A t \in Txns : WellFormed(t) => End[t][9] - End[t][5] <= LastPartSize

\* The bytes of t from offset a (excluded) to offset b.
Span(t, a, b) == [i \in 1..(b - a) |-> <<t, a + i>>]

\* At the place of a field its bytes say how long it is and whether it is bad.
\* What the bytes of another place look like is left open.
ASSUME ReadingAssumption ==
  \A t \in Txns : \A k \in Field :
    \A m \in (End[t][k-1] + 1)..(Size[t] + MaxPart) :
      LET buf == Span(t, End[t][k-1], m)
      IN  IF m < End[t][k]
          THEN FieldSize(k, buf) \notin 0..Len(buf)
          ELSE /\ FieldSize(k, buf) = End[t][k] - End[t][k-1]
               /\ Refuses(k, buf) <=> k \in Bad[t]

VARIABLES
  cur,                  \* the transaction whose parts arrive (NoTxn: none yet)
  sent,                 \* bytes of cur the parser has taken in
  txn_is_complete,
  has_partial_payload,
  payload_len,
  payload_part_offset,
  payload_part_len,
  last_part,            \* the first last_part_len bytes of the buffer
  last_part_pos,
  hash,                 \* what the context of the transaction hash has absorbed
  hash2,                \* what the context of the payload hash has absorbed
  txn_hash,             \* what the finished hash stands for; <<>>: not computed
  thrown,               \* the first exception about what cur says; "none": not yet
  upto,                 \* where the last part ended that came before that
                        \* exception or caused it
  sw                    \* the exception the last part caused; "OK": none

payloadVars == <<has_partial_payload, payload_len, payload_part_offset,
                 payload_part_len, hash2>>
parserVars  == <<txn_is_complete, payloadVars, last_part, last_part_pos,
                 hash, txn_hash>>
hostVars    == <<cur, sent, thrown, upto>>
vars == <<hostVars, parserVars, sw>>

Least(a, b) == IF a <= b THEN a ELSE b

\* The bytes of buf that remain after the first n.
Drop(buf, n) == SubSeq(buf, n + 1, Len(buf))

----------------------------------------------------------------------------
(* Reading one field.  The reader's state is a record: the unread bytes,   *)
(* the hash, the field it stopped at and why it stopped ("run": it did not)*)

Why == {"run", "incomplete", "invalid"}

\* No byte to tell the next field by, or fewer than the field announces.
Incomplete(k, buf) == buf = <<>> \/ FieldSize(k, buf) \notin 0..Len(buf)

\* Mutant: the contents of a field are not looked at.
InvalidTagOnly(k, buf) == k \in Required /\ FieldSize(k, buf) = 0

Invalid(k, buf) ==
  \/ k \in Required /\ FieldSize(k, buf) = 0
  \/ Refuses(k, buf)

\* What is hashed for a field that is absent: nothing for the recipient,
\* a zero for the others.
Default(k) == IF k = 3 THEN <<>> ELSE << <<NoTxn, k>> >>

\* Mutant: nothing is hashed for an absent field.
FieldHashPresentOnly(k, buf) == SubSeq(buf, 1, FieldSize(k, buf))

FieldHash(k, buf) ==
  IF FieldSize(k, buf) = 0 THEN Default(k) ELSE SubSeq(buf, 1, FieldSize(k, buf))

ReadField(k, s) ==
  IF s.why # "run" THEN s
  ELSE IF Incomplete(k, s.buf) THEN [s EXCEPT !.why = "incomplete", !.pos = k]
  ELSE IF Invalid(k, s.buf)    THEN [s EXCEPT !.why = "invalid", !.pos = k]
  ELSE [s EXCEPT !.buf  = Drop(s.buf, FieldSize(k, s.buf)),
                 !.hash = s.hash \o FieldHash(k, s.buf)]

Start(buf, h) == [buf |-> buf, hash |-> h, pos |-> 0, why |-> "run"]

\* nonce, account, recipient, amount
ReadHead(buf) ==
  ReadField(4, ReadField(3, ReadField(2, ReadField(1, Start(buf, <<>>)))))

\* The payload's tag and length, which are not hashed.  Only a first part is
\* read as far as that, from its first byte on.
IsTag(k, b) == Present(b[1], k) /\ b[2] = End[b[1]][k-1] + 1

HeaderSize(buf) ==
  IF IsTag(5, buf[1]) THEN PayloadAt[buf[1][1]] - End[buf[1][1]][4] ELSE 0

AnnouncedLen(buf) ==
  IF IsTag(5, buf[1]) THEN End[buf[1][1]][5] - PayloadAt[buf[1][1]] ELSE 0

ReadHeader(s) ==
  IF s.why # "run" THEN s
  ELSE IF s.buf = <<>> \/ Len(s.buf) < HeaderSize(s.buf)
       THEN [s EXCEPT !.why = "incomplete", !.pos = 5]
  ELSE IF IsTag(5, s.buf[1]) /\ 5 \in Bad[s.buf[1][1]]
       THEN [s EXCEPT !.why = "invalid", !.pos = 5]
  ELSE [s EXCEPT !.buf = Drop(s.buf, HeaderSize(s.buf))]

\* gasLimit, gasPrice, type, chainId: the switch is entered at field p and
\* falls through the cases after it.
ReadFrom(p, k, s) == IF k < p THEN s ELSE ReadField(k, s)

\* Mutant: the chain id is not waited for.
ReadTailNoChainId(p, buf, h) ==
  ReadFrom(p, 8, ReadFrom(p, 7, ReadFrom(p, 6, Start(buf, h))))

ReadTail(p, buf, h) ==
  ReadFrom(p, 9, ReadFrom(p, 8, ReadFrom(p, 7, ReadFrom(p, 6, Start(buf, h)))))

----------------------------------------------------------------------------
(* parse_last_part: h is the hash, lp and lpos are last_part and           *)
(* last_part_pos when it is called.                                        *)

\* Mutant: the bytes already kept are not counted.
OverflowsPartOnly(part, lp) == Len(part) > LastPartSize

Overflows(part, lp) == Len(lp) + Len(part) > LastPartSize

\* Mutants: the tail is read from its first field again; the field that was cut
\* is skipped; the bytes that were kept are forgotten.
ResumeAtFirst(lpos)          == 6
ResumeAfter(lpos)            == IF lpos = 0 THEN 6 ELSE lpos + 1
UnreadForgets(part, lp, lpos) == part

\* The first call starts at gasLimit; a later one resumes where the bytes
\* ran out, and reads what was kept before the new part.
ResumeAt(lpos)          == IF lpos = 0 THEN 6 ELSE lpos
Unread(part, lp, lpos)  == IF lpos = 0 THEN part ELSE lp \o part

\* parse_transaction_part: the last part must complete the transaction.
CheckLast(last) == sw' = IF last THEN "TXN_INCOMPLETE" ELSE "OK"

parse_last_part(part, h, lp, lpos, last) ==
  LET s == ReadTail(ResumeAt(lpos), Unread(part, lp, lpos), h)
  IN  \/ /\ Overflows(part, lp)
         /\ sw' = "OVERLONG"
         /\ last_part' = lp /\ last_part_pos' = lpos
         /\ hash' = h
         /\ txn_is_complete' = FALSE /\ txn_hash' = <<>>
      \/ /\ ~Overflows(part, lp) /\ s.why = "invalid"
         /\ sw' = "INVALID_DATA"
         /\ last_part' = lp /\ last_part_pos' = ResumeAt(lpos)
         /\ hash' = s.hash
         /\ txn_is_complete' = FALSE /\ txn_hash' = <<>>
      \/ /\ ~Overflows(part, lp) /\ s.why = "incomplete"
         /\ CheckLast(last)
         /\ last_part' = s.buf /\ last_part_pos' = s.pos
         /\ hash' = s.hash
         /\ txn_is_complete' = FALSE /\ txn_hash' = <<>>
      \/ /\ ~Overflows(part, lp) /\ s.why = "run"
         /\ sw' = "OK"
         /\ last_part' = lp /\ last_part_pos' = ResumeAt(lpos)
         /\ hash' = s.hash
         /\ txn_is_complete' = TRUE /\ txn_hash' = s.hash

----------------------------------------------------------------------------
(* The payload: off bytes of plen were absorbed before part.               *)

BodyLen(part, off, plen) == Least(Len(part), plen - off)

parse_payload_body(part, h, h2, off, plen, lp, lpos, last) ==
  LET n    == BodyLen(part, off, plen)
      body == SubSeq(part, 1, n)
  IN  /\ payload_len' = plen
      /\ payload_part_offset' = off
      /\ payload_part_len' = n
      /\ hash2' = h2 \o body
      /\ \/ /\ off + Len(part) < plen
            /\ has_partial_payload' = TRUE
            /\ CheckLast(last)
            /\ hash' = h \o body
            /\ last_part' = lp /\ last_part_pos' = lpos
            /\ txn_is_complete' = FALSE /\ txn_hash' = <<>>
         \/ /\ off + Len(part) >= plen
            /\ has_partial_payload' = FALSE
            /\ parse_last_part(Drop(part, n), h \o body, lp, lpos, last)

\* parse_first_part: everything is reset, then read from the bytes of part.
parse_first_part(part, last) ==
  LET s == ReadHead(Tail(part))
      r == ReadHeader(s)
  IN  \/ /\ r.why # "run"
         /\ sw' = IF r.why = "invalid" THEN "INVALID_DATA" ELSE "LACKS_FIELD"
         /\ payload_len' = 0 /\ payload_part_offset' = 0 /\ payload_part_len' = 0
         /\ has_partial_payload' = FALSE
         /\ hash' = r.hash /\ hash2' = <<>>
         /\ last_part' = <<>> /\ last_part_pos' = 0
         /\ txn_is_complete' = FALSE /\ txn_hash' = <<>>
      \/ /\ r.why = "run"
         /\ parse_payload_body(r.buf, r.hash, <<>>, 0, AnnouncedLen(s.buf), <<>>, 0, last)

----------------------------------------------------------------------------
(* The parts.  A client may start a transaction, or the same one again, at *)
(* any time, and may mark any part as the last one.  What it sends after a *)
(* first part, be it asked for or not and whatever was thrown before, goes *)
(* to the parser: cur stands for the bytes the parser took in, one after   *)
(* the other.                                                              *)

\* main.c refuses a part that is too long, or short and not the last one.
GoodLength(n, last) == n <= MaxPart /\ (last \/ n >= MinPart)

\* The part brought the bytes of t up to offset m.  When what follows the payload
\* did not fit in last_part, the parser took in those up to offset kept only, and
\* the rest may have been any bytes.
TakenIn(t, m, kept) ==
  /\ sent' = IF sw' = "OVERLONG" THEN kept ELSE m
  /\ sent' <= Size[t]

\* The exceptions after which the hash context and last_part do not fit together.
Refusal(e) == IF e \in {"LACKS_FIELD", "INVALID_DATA"} THEN e ELSE "none"

FirstPart(t, n, last) ==
  /\ GoodLength(n, last) /\ n >= MinFirst
  /\ parse_first_part(Span(t, 0, n), last)
  /\ TakenIn(t, n, End[t][5])
  /\ cur' = t /\ thrown' = Refusal(sw') /\ upto' = n

LaterPart(n, last) ==
  /\ GoodLength(n, last)
  /\ ~txn_is_complete

Noted(n) ==
  /\ UNCHANGED cur
  /\ IF thrown = "none"
     THEN thrown' = Refusal(sw') /\ upto' = sent + n
     ELSE UNCHANGED <<thrown, upto>>

PayloadPart(n, last) ==
  /\ LaterPart(n, last)
  /\ has_partial_payload
  /\ parse_payload_body(Span(cur, sent, sent + n), hash, hash2,
                   payload_part_offset + payload_part_len, payload_len,
                   last_part, last_part_pos, last)
  /\ TakenIn(cur, sent + n, End[cur][5])
  /\ Noted(n)

LastPart(n, last) ==
  /\ LaterPart(n, last)
  /\ ~has_partial_payload
  /\ parse_last_part(Span(cur, sent, sent + n), hash, last_part, last_part_pos, last)
  /\ UNCHANGED payloadVars
  /\ TakenIn(cur, sent + n, sent)
  /\ Noted(n)

\* The parts that are refused before anything is parsed: wrong length, or a
\* later part although the transaction is complete.
RefuseFirst(n, last) ==
  /\ ~GoodLength(n, last) \/ n < MinFirst
  /\ sw' = "WRONG_LENGTH"
  /\ UNCHANGED <<hostVars, parserVars>>

RefuseLater(n, last) ==
  /\ \/ ~GoodLength(n, last) /\ sw' = "WRONG_LENGTH"
     \/ GoodLength(n, last) /\ txn_is_complete /\ sw' = "INVALID_STATE"
  /\ UNCHANGED <<hostVars, parserVars>>

Init ==
  /\ cur = NoTxn /\ sent = 0
  /\ txn_is_complete = TRUE
  /\ has_partial_payload = FALSE
  /\ payload_len = 0 /\ payload_part_offset = 0 /\ payload_part_len = 0
  /\ last_part = <<>> /\ last_part_pos = 0
  /\ hash = <<>> /\ hash2 = <<>> /\ txn_hash = <<>>
  /\ thrown = "none" /\ upto = 0 /\ sw = "OK"

Next ==
  \E n \in 1..(MaxPart + 1), last \in BOOLEAN :
    \/ \E t \in Txns : FirstPart(t, n, last)
    \/ PayloadPart(n, last)
    \/ LastPart(n, last)
    \/ RefuseFirst(n, last)
    \/ RefuseLater(n, last)

Spec == Init /\ [][Next]_vars

----------------------------------------------------------------------------
(* What the hash of a transaction is, whatever its parts.                  *)

\* What field k of t contributes, the payload without its header.
Chunk(t, k) ==
  IF k = 5 THEN Span(t, PayloadAt[t], End[t][5])
  ELSE IF Present(t, k) THEN Span(t, End[t][k-1], End[t][k])
  ELSE Default(k)

\* The fields before field k, in order.
Upto(t, k, j) == IF j < k THEN Chunk(t, j) ELSE <<>>

Digest(t, k) ==
  ((((((((Upto(t, k, 1) \o Upto(t, k, 2)) \o Upto(t, k, 3)) \o Upto(t, k, 4))
     \o Upto(t, k, 5)) \o Upto(t, k, 6)) \o Upto(t, k, 7)) \o Upto(t, k, 8))
     \o Upto(t, k, 9))

Canon(t) == Digest(t, 10)

Payload(t) == Chunk(t, 5)

----------------------------------------------------------------------------
(* Properties.                                                             *)

\* Everything has its type; what is hashed and kept is bytes of the wire, and
\* last_part_pos names a field after the payload or none.
TypeOK ==
  /\ cur \in Txns \cup {NoTxn}
  /\ sent \in Nat
  /\ txn_is_complete \in BOOLEAN
  /\ has_partial_payload \in BOOLEAN
  /\ payload_len \in Nat
  /\ payload_part_offset \in Nat
  /\ payload_part_len \in Nat
  /\ last_part \in Seq(Txns \X Nat)
  /\ last_part_pos \in {0} \cup 6..9
  /\ hash \in Seq((Txns \cup {NoTxn}) \X Nat)
  /\ hash2 \in Seq(Txns \X Nat)
  /\ txn_hash \in Seq((Txns \cup {NoTxn}) \X Nat)
  /\ thrown \in {"none", "LACKS_FIELD", "INVALID_DATA"}
  /\ upto \in Nat
  /\ sw \in {"OK", "LACKS_FIELD", "INVALID_DATA", "OVERLONG", "TXN_INCOMPLETE",
             "WRONG_LENGTH", "INVALID_STATE"}

\* However a transaction was cut into parts, and whatever parts were refused for
\* their length or their mark, the hash that can be signed is the hash of exactly
\* its fields, each once and in order, and the payload hash is the hash of exactly
\* its payload: unless a part was refused for what it says.
DigestIsCanonical ==
  txn_is_complete /\ cur # NoTxn /\ thrown = "none" =>
    txn_hash = Canon(cur) /\ hash2 = Payload(cur)

\* A transaction that lacks a required field or its end, or that has a field the
\* parser refuses, is not taken for complete before one of its parts was refused,
\* however it was cut: the host is told.
InvalidIsRefused ==
  txn_is_complete /\ cur # NoTxn /\ thrown = "none" =>
    /\ Bad[cur] = {}
    /\ \A k \in Required : Present(cur, k)
    /\ sent >= End[cur][9]

\* A transaction one of whose parts was refused for what it says is not taken for
\* complete.  The code does not keep to it: the part after is read on from where
\* the one that was refused began.
RefusedIsNotComplete == thrown # "none" => ~txn_is_complete

\* A first part of n bytes reaches the payload of t or, when there is none, the
\* byte that tells so.
HeadFits(t, n) == IF Present(t, 5) THEN n >= PayloadAt[t] ELSE n > End[t][4]

\* A good transaction is refused for what it says for one reason only: its first
\* part does not reach the payload.  No other way to cut it makes the parser throw,
\* except that bytes which are not its own follow, or that a part is marked as the
\* last one too early.
NoFalseRefusal ==
  cur # NoTxn /\ WellFormed(cur) =>
    /\ thrown # "none" => thrown = "LACKS_FIELD" /\ ~HeadFits(cur, upto)
    /\ thrown = "none" /\ sw = "OVERLONG" => upto > Size[cur]
    /\ thrown = "none" /\ sw = "TXN_INCOMPLETE" => sent < Size[cur]

\* A good transaction whose bytes have all arrived is complete, and not before:
\* no byte is left waiting in last_part for a part that never comes, also after
\* parts that were refused for their length or their mark.
CompleteWhenWhole ==
  cur # NoTxn /\ WellFormed(cur) /\ thrown = "none" =>
    (txn_is_complete <=> sent = Size[cur])

\* What parse_last_part keeps stays within last_part, for good and for bad
\* transactions and after any refusal: the guard is on the bytes kept and those of
\* the part, which is also what it copies there before it reads.
LastPartFits == Len(last_part) <= LastPartSize

----------------------------------------------------------------------------
(* The inductive invariant: where the parser is in cur.                    *)

Accepted(t, k) == k \notin Bad[t] /\ (k \in Required => Present(t, k))

AcceptedUpto(t, k) == \A j \in Field : j < k => Accepted(t, j)

\* With the bytes up to offset m, field p cannot be read yet.
Stuck(t, p, m) == End[t][p-1] <= m /\ (m = End[t][p-1] \/ m < End[t][p])

InPayload ==
  /\ has_partial_payload /\ ~txn_is_complete
  /\ AcceptedUpto(cur, 6)
  /\ PayloadAt[cur] <= sent /\ sent < End[cur][5]
  /\ payload_len = End[cur][5] - PayloadAt[cur]
  /\ payload_part_offset + payload_part_len = sent - PayloadAt[cur]
  /\ last_part = <<>> /\ last_part_pos = 0
  /\ hash = Digest(cur, 5) \o Span(cur, PayloadAt[cur], sent)
  /\ hash2 = Span(cur, PayloadAt[cur], sent)

\* last_part_pos is still 0 when all that followed the payload was refused for its
\* length.
InTail ==
  LET p == ResumeAt(last_part_pos)
  IN  /\ ~has_partial_payload /\ ~txn_is_complete
      /\ last_part_pos = 0 => sent = End[cur][5]
      /\ AcceptedUpto(cur, p)
      /\ Stuck(cur, p, sent)
      /\ last_part = Span(cur, End[cur][p-1], sent)
      /\ hash = Digest(cur, p)
      /\ hash2 = Payload(cur)

Whole ==
  /\ ~has_partial_payload /\ txn_is_complete
  /\ AcceptedUpto(cur, 10)
  /\ End[cur][9] <= sent
  /\ txn_hash = Canon(cur)
  /\ hash2 = Payload(cur)

\* u is a beginning of w.
Begins(u, w) == Len(u) <= Len(w) /\ SubSeq(w, 1, Len(u)) = u

\* Some of cur was hashed, and a hash that is offered is of all of it.
Absorbed ==
  /\ Begins(hash, Canon(cur))
  /\ txn_hash # <<>> => txn_hash = hash /\ hash = Canon(cur)

IInv ==
  /\ TypeOK
  /\ LastPartFits
  /\ cur = NoTxn => txn_is_complete /\ thrown = "none"
  /\ cur # NoTxn => sent <= Size[cur]
  /\ cur # NoTxn /\ thrown = "none" => Absorbed /\ (InPayload \/ InTail \/ Whole)
  /\ thrown # "none" => ~has_partial_payload
  /\ NoFalseRefusal

============================================================================
