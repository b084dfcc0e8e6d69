------------------------------- MODULE Account -------------------------------
(***************************************************************************)
(* common/account.h: the text of an address, which is a version, the bytes *)
(* of a public key and the first four of a checksum, in base 58.           *)
(***************************************************************************)
EXTENDS Integers, Sequences, SequencesExt, FiniteSetsExt

CONSTANT
  double_sha256(_)  \* the hash of the hash of a sequence of bytes: the SDK's

AddressVersion == 66

\* 1 to 9, A to Z but I and O, a to z but l
b58digits_ordered ==
  [i \in 1..58 |->
     CASE i \in 1..9   -> 48 + i
       [] i \in 10..17 -> 55 + i
       [] i \in 18..22 -> 56 + i
       [] i \in 23..33 -> 57 + i
       [] i \in 34..44 -> 63 + i
       [] i \in 45..58 -> 64 + i]

\* Mutant: digits for a few bytes less.
BufferSizeShort(n) == (n * 136) \div 100 + 1

\* Enough digits for n bytes.
BufferSize(n) == (n * 138) \div 100 + 1

\* The loop over the digits goes on.
Carrying(s) == s.j > s.high \/ s.carry # 0

\* One digit.  j is unsigned: beyond digit 0 nothing stops it.
CarryStep(s) ==
  LET c == s.carry + 256 * s.buf[s.j + 1]
  IN  [s EXCEPT !.buf[s.j + 1] = c % 58, !.carry = c \div 58,
                !.j = @ - 1, !.overrun = s.j = 0]

\* Byte b: the number in buf will be multiplied by 256 and b added.
BeginByte(s) == [s EXCEPT !.carry = s.bin[s.i + 1], !.j = Len(s.buf) - 1]
EndByte(s)   == [s EXCEPT !.high = s.j, !.i = @ + 1]

LeadingZeros(bin) == Max({n \in 0..Len(bin) : \A k \in 1..n : bin[k] = 0})

\* base58_encode before its loop over the bytes of bin, from byte i on.
base58_begin(bin) ==
  LET zcount == LeadingZeros(bin)
      size   == BufferSize(Len(bin) - zcount)
  IN  [bin |-> bin, i |-> zcount, buf |-> [k \in 1..size |-> 0], carry |-> 0, j |-> 0,
       high |-> size - 1, overrun |-> FALSE]

\* and after it: the text, if there is room for it.
base58_end(s, b58sz) ==
  LET zcount == LeadingZeros(s.bin)
      digits == SubSeq(s.buf, LeadingZeros(s.buf) + 1, Len(s.buf))
  IN  IF b58sz <= zcount + Len(digits) THEN <<>>
      ELSE [k \in 1..(zcount + Len(digits)) |->
              b58digits_ordered[1 + IF k <= zcount THEN 0 ELSE digits[k - zcount]]]

base58check_encode(ver, data) ==
  LET buf == <<ver>> \o data
  IN  base58_begin(buf \o SubSeq(double_sha256(buf), 1, 4))

encode_account(data) == base58check_encode(AddressVersion, data)
=============================================================================
