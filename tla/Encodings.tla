------------------------------ MODULE Encodings ------------------------------
(***************************************************************************)
(* What parse_first_part makes of three kinds of bytes of a transaction:   *)
(* the text of the amount and the text of the recipient's address, which   *)
(* are displayed, and the number that a field's length or value is.  Each  *)
(* is converted on its own; amount_str is kept from the transaction before.*)
(* A step is one turn of one of the loops.                                 *)
(***************************************************************************)
EXTENDS Currency, Account

CONSTANTS
  AmountBytes,   \* the amounts that may come: at most 15 bytes
  Keys,          \* the public keys that may come: 33 bytes
  VarintBytes,   \* the bytes a number may begin with
  GroupBits,     \* bits of a number in one byte: 7
  ResultBits,    \* bits of a uint64_t
  RecipientSize  \* the size of recipient_address: 53

Byte == 0..(Power(2, ByteBits) - 1)
More == Power(2, GroupBits)  \* the bit of a byte that another one follows

ASSUME EncodingAssumption ==
  /\ \A b \in AmountBytes : b \in Seq(Byte) /\ Len(b) <= 2 * LimbBytes - 1
  /\ GroupBits \in Nat \ {0} /\ ResultBits \in Nat \ {0}
  /\ \A b \in VarintBytes : b \in Seq(0..(2 * More - 1))

\* There is room for the digits of the greatest amount with a point, or for a zero,
\* a point and the decimals, with the unit after them: 10^40 > 2^120.
ASSUME AmountAssumption ==
  /\ Decimals \in Nat /\ AmountSize \in Nat /\ TempSize \in Nat
  /\ Decimals + 9 <= AmountSize /\ AmountSize - 8 <= TempSize
  /\ Power(10, AmountSize - 8) >= Power(2, ByteBits * (2 * LimbBytes - 1))

\* A hash has 32 bytes, and four of them are the checksum.
ASSUME KeyAssumption ==
  /\ RecipientSize = 53
  /\ \A k \in Keys :
       /\ k \in Seq(0..255) /\ Len(k) = 33
       /\ LET h == double_sha256(<<AddressVersion>> \o k) IN h \in Seq(0..255) /\ Len(h) >= 4

VARIABLES
  field,             \* what was converted last: "none", "amount", "recipient", "varint";
                     \* or the loop at work: "digits" of an amount, "divide" for one of
                     \* them; "base58" over the bytes of a key, "carry" over the digits
                     \* for one of them; "number" over the bytes of a number
  bytes,             \* from these bytes
  amount_str, recipient_address, varint,
  digits, division,  \* tostring256 and divmod256 at work
  base58             \* base58_encode at work: see base58_begin

amountVars == <<amount_str, digits, division>>
keyVars    == <<recipient_address, base58>>
vars       == <<field, bytes, amountVars, keyVars, varint>>

----------------------------------------------------------------------------
(* An amount *)

EncodeAmount ==
  /\ field = "none" /\ field' = "digits"
  /\ bytes' \in AmountBytes
  /\ digits' = AmountDigits(bytes')
  /\ UNCHANGED <<amount_str, division, keyVars, varint>>

\* The loop over the digits is left, or another one is divided off.
BeginDigit ==
  /\ field = "digits"
  /\ \/ /\ HasRoom(digits, TempSize) /\ ~Finished(digits)
        /\ field' = "divide"
        /\ division' = divmod256(digits.rDiv, Ten)
        /\ UNCHANGED amount_str
     \/ /\ ~HasRoom(digits, TempSize) \/ Finished(digits)
        /\ field' = "amount"
        /\ amount_str' = AmountText(digits, amount_str)
        /\ UNCHANGED division
  /\ UNCHANGED <<bytes, digits, keyVars, varint>>

Divide ==
  /\ field = "divide" /\ gte256(division.mod, Ten)
  /\ division' = DivStep(division)
  /\ UNCHANGED <<field, bytes, amount_str, digits, keyVars, varint>>

EndDigit ==
  /\ field = "divide" /\ ~gte256(division.mod, Ten)
  /\ field' = "digits"
  /\ digits' = NextDigit(digits, division)
  /\ UNCHANGED <<bytes, amount_str, division, keyVars, varint>>

----------------------------------------------------------------------------
(* The address of a recipient.  Below its buffer nothing is known. *)

EncodeRecipient ==
  /\ field = "none" /\ field' = "base58"
  /\ bytes' \in Keys
  /\ base58' = encode_account(bytes')
  /\ UNCHANGED <<amountVars, recipient_address, varint>>

EncodeByte ==
  /\ field = "base58" /\ base58.i < Len(base58.bin)
  /\ field' = "carry"
  /\ base58' = BeginByte(base58)
  /\ UNCHANGED <<bytes, amountVars, recipient_address, varint>>

Carry ==
  /\ field = "carry" /\ ~base58.overrun
  /\ \/ /\ Carrying(base58)
        /\ base58' = CarryStep(base58)
        /\ UNCHANGED field
     \/ /\ ~Carrying(base58)
        /\ base58' = EndByte(base58)
        /\ field' = "base58"
  /\ UNCHANGED <<bytes, amountVars, recipient_address, varint>>

EncodeDigits ==
  /\ field = "base58" /\ base58.i = Len(base58.bin)
  /\ field' = "recipient"
  /\ recipient_address' = base58_end(base58, RecipientSize)
  /\ UNCHANGED <<bytes, amountVars, base58, varint>>

----------------------------------------------------------------------------
(* A number, decode_varint *)

VarintBegin == [len |-> 0, bitpos |-> 0, result |-> 0, sw |-> 0, ended |-> FALSE]

\* One more byte of the number.
VarintByte(s, byte) ==
  [s EXCEPT !.len = @ + 1, !.bitpos = @ + GroupBits,
            !.result = (@ + (byte % More) * Power(2, s.bitpos)) % Power(2, ResultBits),
            !.ended = byte < More]

\* Mutant: a number that is cut is taken as it is.
VarintStepCut(s, buf) ==
  CASE s.bitpos >= ResultBits -> [s EXCEPT !.sw = 26417, !.ended = TRUE]
    [] s.bitpos < ResultBits /\ s.len >= Len(buf) -> [s EXCEPT !.ended = TRUE]
    [] OTHER -> VarintByte(s, buf[s.len + 1])

\* A turn of the loop: len = 0 when a byte is not there, sw when there are too many.
VarintStep(s, buf) ==
  CASE s.bitpos >= ResultBits -> [s EXCEPT !.sw = 26417, !.ended = TRUE]
    [] s.bitpos < ResultBits /\ s.len >= Len(buf) -> [s EXCEPT !.len = 0, !.ended = TRUE]
    [] OTHER -> VarintByte(s, buf[s.len + 1])

BeginNumber ==
  /\ field = "none" /\ field' = "number"
  /\ bytes' \in VarintBytes
  /\ varint' = VarintBegin
  /\ UNCHANGED <<amountVars, keyVars>>

DecodeNumber ==
  /\ field = "number"
  /\ varint' = VarintStep(varint, bytes)
  /\ field' = IF varint'.ended THEN "varint" ELSE "number"
  /\ UNCHANGED <<bytes, amountVars, keyVars>>

----------------------------------------------------------------------------
Converted == field \in {"amount", "recipient", "varint"}

Done == (Converted \/ base58.overrun) /\ UNCHANGED vars

Init ==
  /\ field = "none" /\ bytes = <<>>
  /\ amount_str \in {<<>>, Zeros(AmountSize - 1)}
  /\ digits = tostring256(clear256) /\ division = NotDivided(clear256)
  /\ recipient_address = <<>> /\ base58 = base58_begin(<<>>)
  /\ varint = VarintBegin

Next ==
  \/ EncodeAmount \/ BeginDigit \/ Divide \/ EndDigit
  \/ EncodeRecipient \/ EncodeByte \/ Carry \/ EncodeDigits
  \/ BeginNumber \/ DecodeNumber
  \/ Done

Spec == Init /\ [][Next]_vars

----------------------------------------------------------------------------
(* What the texts say, read by other means.                                *)

Digits(s) == Value(10, [i \in 1..Len(s) |-> s[i] - Zero])
AmountOf(data) == Value(Power(2, ByteBits), data)

\* The text of an amount without its unit, with as many places as there can be.
Number     == SubSeq(amount_str, 1, Len(amount_str) - Len(Unit))
WholePart  == SelectInSeq(Number \o <<Point>>, LAMBDA c : c = Point) - 1
Fraction   == SubSeq(Number, WholePart + 2, Len(Number))
AmountRead == Digits(SubSeq(Number, 1, WholePart) \o Fraction) * Power(10, Decimals - Len(Fraction))

\* Primes whose product is greater than a number of 38 bytes: two such numbers
\* with the same remainders are the same.
Primes ==
  {8388593, 8388587, 8388581, 8388571, 8388547, 8388539, 8388473,
   8388461, 8388451, 8388449, 8388439, 8388427, 8388421, 8388409}

\* The remainder of Value(base, ds), without numbers as great as that.
Remainder(base, ds, p) ==
  LET r[k \in 0..Len(ds)] == IF k = 0 THEN 0 ELSE (r[k-1] * base + ds[k]) % p IN r[Len(ds)]

DigitValue(c)  == SelectInSeq(b58digits_ordered, LAMBDA d : d = c) - 1
Digits58(text) == [k \in 1..Len(text) |-> DigitValue(text[k])]

\* The number of the bytes of a number: all but the last have another one after
\* them.
VarintEnd(buf) == SelectInSeq(buf, LAMBDA b : b < More)

\* The number exactly, also where it is greater than a uint64_t.
ExactVarint(buf) == Value(More, Reverse([i \in 1..Len(buf) |-> buf[i] % More]))

----------------------------------------------------------------------------
(* Properties *)

\* The amount on the screen is the amount that is hashed and signed, to the last
\* unit, in its shortest form, and always with AERGO after it: 48 characters are
\* enough for 15 bytes (currency.h:76, transaction.h:42, 194).
AmountIsExact ==
  field = "amount" =>
    /\ Len(amount_str) < AmountSize
    /\ SubSeq(amount_str, Len(Number) + 1, Len(amount_str)) = Unit
    /\ AmountRead = AmountOf(bytes)
    /\ WholePart >= 1 /\ (Number[1] = Zero => WholePart = 1)
    /\ WholePart < Len(Number) => Fraction # <<>> /\ Last(Fraction) # Zero

\* The address on the screen says every byte of the key, of the version and of
\* the checksum, and the loop over its digits never reaches the first of them,
\* from where it would go on below the buffer (account.h:24).
AddressIsExact ==
  /\ ~base58.overrun
  /\ field = "recipient" =>
       /\ Len(recipient_address) = RecipientSize - 1
       /\ \A p \in Primes :
            Remainder(58, Digits58(recipient_address), p)
              = Remainder(256, <<AddressVersion>> \o bytes
                                 \o SubSeq(double_sha256(<<AddressVersion>> \o bytes), 1, 4), p)

\* A number is read when all of its bytes are there, and is exact unless it is
\* too great for a uint64_t; one that the part cuts is neither refused nor taken
\* for a shorter one, so that it can be read again with its rest; one of too many
\* bytes is refused (transaction.h:50).
VarintIsExact ==
  field = "varint" =>
    LET n   == VarintEnd(bytes)
        max == (ResultBits + GroupBits - 1) \div GroupBits
    IN  CASE n \in 1..max -> /\ varint.sw = 0 /\ varint.len = n
                             /\ varint.result = ExactVarint(SubSeq(bytes, 1, n)) % Power(2, ResultBits)
          [] n = 0 /\ Len(bytes) < max -> varint.sw = 0 /\ varint.len = 0
          [] OTHER -> varint.sw # 0

\* The loop of the division ends: when the divisor still fits in the remainder,
\* the weight it has is not used up.  With none the loop would go on and change
\* nothing (uint256.c:474).
DivisionEnds ==
  field = "divide" /\ gte256(division.mod, Ten) => ~zero256(division.adder)
=============================================================================
