------------------------------- MODULE Uint256 -------------------------------
(***************************************************************************)
(* The big numbers of common/uint256.c, as far as the program uses them:   *)
(* a number is a pair of pairs of limbs, the upper half first, and a limb  *)
(* wraps around as a uint64_t does.  The limb is a parameter, so that TLC  *)
(* can look at numbers of several limbs.                                   *)
(***************************************************************************)
EXTENDS Numbers, SequencesExt, FiniteSetsExt

CONSTANTS
  ByteBits,   \* bits of a byte: 8
  LimbBytes   \* bytes of a limb: 8

\* The base of the digits is a limb.
ASSUME LimbAssumption ==
  ByteBits \in Nat \ {0} /\ LimbBytes \in Nat \ {0} /\ Power(2, ByteBits * LimbBytes) > 10

LimbBits == ByteBits * LimbBytes
TwoTo    == [n \in 0..LimbBits |-> Power(2, n)]
Limb     == TwoTo[LimbBits]
Add(a, b) == (a + b) % Limb
Sub(a, b) == (a - b) % Limb
Shl(a, n) == (a * TwoTo[n]) % Limb
Shr(a, n) == a \div TwoTo[n]
Flag(b)   == IF b THEN 1 ELSE 0

UPPER(n) == n[1]
LOWER(n) == n[2]

clear128 == <<0, 0>>
clear256 == <<clear128, clear128>>
zero128(n) == LOWER(n) = 0 /\ UPPER(n) = 0
zero256(n) == zero128(LOWER(n)) /\ zero128(UPPER(n))

----------------------------------------------------------------------------
(* Reading, from the most significant byte on *)

readUint64BE(bytes) == Value(Power(2, ByteBits), bytes)

readu128BE(bytes) ==
  <<readUint64BE(SubSeq(bytes, 1, LimbBytes)),
    readUint64BE(SubSeq(bytes, LimbBytes + 1, 2 * LimbBytes))>>

readu256BE(bytes) ==
  <<readu128BE(SubSeq(bytes, 1, 2 * LimbBytes)),
    readu128BE(SubSeq(bytes, 2 * LimbBytes + 1, 4 * LimbBytes))>>

----------------------------------------------------------------------------
(* Sums and differences.  A sum smaller than its first term has a carry, a *)
(* difference greater than it a borrow.                                    *)

gt128(a, b) ==
  IF UPPER(a) = UPPER(b) THEN LOWER(a) > LOWER(b) ELSE UPPER(a) > UPPER(b)

gt256(a, b) ==
  IF UPPER(a) = UPPER(b) THEN gt128(LOWER(a), LOWER(b)) ELSE gt128(UPPER(a), UPPER(b))

gte256(a, b) == gt256(a, b) \/ a = b

add128(a, b) ==
  LET low == Add(LOWER(a), LOWER(b))
  IN  <<Add(Add(UPPER(a), UPPER(b)), Flag(low < LOWER(a))), low>>

minus128(a, b) ==
  LET low == Sub(LOWER(a), LOWER(b))
  IN  <<Sub(Sub(UPPER(a), UPPER(b)), Flag(low > LOWER(a))), low>>

minus256(a, b) ==
  LET low  == minus128(LOWER(a), LOWER(b))
      high == minus128(UPPER(a), UPPER(b))
  IN  <<IF gt128(low, LOWER(a)) THEN minus128(high, <<0, 1>>) ELSE high, low>>

Bit(a, k) == Shr(a, k) % 2
Or(a, b)  ==
  Value(2, [i \in 1..LimbBits |->
              Flag(Bit(a, LimbBits - i) = 1 \/ Bit(b, LimbBits - i) = 1)])

or128(a, b) == <<Or(UPPER(a), UPPER(b)), Or(LOWER(a), LOWER(b))>>
or256(a, b) == <<or128(UPPER(a), UPPER(b)), or128(LOWER(a), LOWER(b))>>

----------------------------------------------------------------------------
(* Shifts *)

shiftl128(n, v) ==
  CASE v >= 2 * LimbBits -> clear128
    [] v = LimbBits -> <<LOWER(n), 0>>
    [] v = 0 -> n
    [] v > 0 /\ v < LimbBits ->
         <<Add(Shl(UPPER(n), v), Shr(LOWER(n), LimbBits - v)), Shl(LOWER(n), v)>>
    [] v > LimbBits /\ v < 2 * LimbBits -> <<Shl(LOWER(n), v - LimbBits), 0>>

shiftr128(n, v) ==
  CASE v >= 2 * LimbBits -> clear128
    [] v = LimbBits -> <<0, UPPER(n)>>
    [] v = 0 -> n
    [] v > 0 /\ v < LimbBits ->
         <<Shr(UPPER(n), v), Add(Shl(UPPER(n), LimbBits - v), Shr(LOWER(n), v))>>
    [] v > LimbBits /\ v < 2 * LimbBits -> <<0, Shr(UPPER(n), v - LimbBits)>>

shiftl256(n, v) ==
  CASE v >= 4 * LimbBits -> clear256
    [] v = 2 * LimbBits -> <<LOWER(n), clear128>>
    [] v = 0 -> n
    [] v > 0 /\ v < 2 * LimbBits ->
         <<add128(shiftl128(UPPER(n), v), shiftr128(LOWER(n), 2 * LimbBits - v)),
           shiftl128(LOWER(n), v)>>
    [] v > 2 * LimbBits /\ v < 4 * LimbBits ->
         <<shiftl128(LOWER(n), v - 2 * LimbBits), clear128>>

shiftr256(n, v) ==
  CASE v >= 4 * LimbBits -> clear256
    [] v = 2 * LimbBits -> <<clear128, UPPER(n)>>
    [] v = 0 -> n
    [] v > 0 /\ v < 2 * LimbBits ->
         <<shiftr128(UPPER(n), v),
           add128(shiftr128(LOWER(n), v), shiftl128(UPPER(n), 2 * LimbBits - v))>>
    [] v > 2 * LimbBits /\ v < 4 * LimbBits ->
         <<clear128, shiftr128(UPPER(n), v - 2 * LimbBits)>>

\* Mutant: the bits of a power of two are one less.
LimbLengthShort(a) == Cardinality({k \in 0..(LimbBits - 1) : a > TwoTo[k]})

LimbLength(a) == Cardinality({k \in 0..(LimbBits - 1) : a >= TwoTo[k]})

bits128(n) ==
  IF UPPER(n) # 0 THEN LimbBits + LimbLength(UPPER(n)) ELSE LimbLength(LOWER(n))

bits256(n) ==
  IF ~zero128(UPPER(n)) THEN 2 * LimbBits + bits128(UPPER(n)) ELSE bits128(LOWER(n))

----------------------------------------------------------------------------
(* Division, bit by bit: copyd is the divisor shifted, adder its weight.   *)
(* The loop goes on while there is a divisor in mod.                       *)

one == <<clear128, <<0, 1>> >>

\* The divisor shifted to the length of the dividend, or one bit less.
DivStart(l, r) ==
  LET diffBits == bits256(l) - bits256(r)
      over     == gt256(shiftl256(r, diffBits), l)
      back(n)  == IF over THEN shiftr256(n, 1) ELSE n
  IN  [mod |-> l, div |-> clear256,
       copyd |-> back(shiftl256(r, diffBits)), adder |-> back(shiftl256(one, diffBits))]

NotDivided(l) == [mod |-> l, div |-> clear256, copyd |-> clear256, adder |-> clear256]

\* Mutant: the quotient, which is where the dividend was, is cleared first.
divmod256Cleared(l, r) ==
  IF gt256(r, l) THEN NotDivided(clear256) ELSE DivStart(l, r)

\* divmod256 before its loop, or all of it when the divisor is greater.
divmod256(l, r) ==
  IF gt256(r, l) THEN NotDivided(l) ELSE DivStart(l, r)

DivStep(s) ==
  LET fits == gte256(s.mod, s.copyd)
  IN  [mod   |-> IF fits THEN minus256(s.mod, s.copyd) ELSE s.mod,
       div   |-> IF fits THEN or256(s.div, s.adder) ELSE s.div,
       copyd |-> shiftr256(s.copyd, 1),
       adder |-> shiftr256(s.adder, 1)]

----------------------------------------------------------------------------
(* The digits of a number in base 10, as characters, if they are fewer     *)
(* than outLength.                                                         *)

Ten == <<clear128, <<0, 10>> >>

\* tostring256 at work: what is left of the number, and the digits so far, the
\* last one first.
tostring256(n) == [rDiv |-> n, out |-> <<>>]

\* There is room for another digit.
HasRoom(s, outLength) == Len(s.out) <= outLength - 1

\* A digit is what is left of the division d.
NextDigit(s, d) == [rDiv |-> d.div, out |-> Append(s.out, 48 + LOWER(LOWER(d.mod)))]

Finished(s) == s.out # <<>> /\ zero256(s.rDiv)
=============================================================================
