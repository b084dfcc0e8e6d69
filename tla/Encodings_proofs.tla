-------------------------- MODULE Encodings_proofs --------------------------
(***************************************************************************)
(* What holds of Encodings for all amounts, keys and numbers, and all      *)
(* widths of a byte and a limb.  Each of its loops has an invariant: what  *)
(* it has made so far stands in a number for what it has read so far.      *)
(***************************************************************************)
EXTENDS Encodings, Lemmas_proofs, FiniteSetTheorems

----------------------------------------------------------------------------
(* Numbers of a variable length.                                           *)

\* The groups of the first k bytes of buf, the last one first.
Groups(buf, k) == [i \in 1..k |-> buf[(k - i) + 1] % More]

\* The bit for more bytes is a number.
LEMMA MoreType == More \in Nat /\ More > 0
  BY EncodingAssumption, PowerType DEF More

\* The group of a byte is below that bit.
LEMMA GroupType ==
  ASSUME NEW buf \in VarintBytes, NEW i \in 1..Len(buf)
  PROVE  /\ buf[i] \in Nat /\ buf[i] % More \in 0..(More - 1)
  <1>1. PICK m \in Nat : m = More /\ m > 0
    BY MoreType
  <1>2. buf \in Seq(0..(2*m - 1))
    BY <1>1, EncodingAssumption
  <1>3. buf[i] \in 0..(2*m - 1)
    BY <1>2
  <1>4. PICK b \in Nat : b = buf[i]
    BY <1>3
  <1>5. b % m \in 0..(m - 1)
    BY <1>1, DivisionTheorem
  <1>6. QED BY <1>1, <1>4, <1>5

\* The exact number of the first k bytes is that of their groups.
LEMMA ExactIsGroups ==
  ASSUME NEW buf \in VarintBytes, NEW k \in 0..Len(buf)
  PROVE  ExactVarint(SubSeq(buf, 1, k)) = Prefix(More, Groups(buf, k), k)
  <1>1. buf \in Seq(0..(2*More - 1))
    BY EncodingAssumption
  <1> DEFINE s == SubSeq(buf, 1, k)
             r == [i \in 1..Len(s) |-> s[i] % More]
  <1>2. Len(s) = k /\ \A i \in 1..k : s[i] = buf[i]
    BY <1>1
  <1> HIDE DEF s
  <1>3. r = [i \in 1..k |-> buf[i] % More]
    BY <1>2
  <1>4. Len(r) = k /\ k \in Nat
    <2>1. k \in Nat
      BY <1>1
    <2>2. r \in Seq({buf[i] % More : i \in 1..k}) /\ DOMAIN r = 1..k
      BY <1>3, <2>1
    <2>3. QED BY <2>1, <2>2, LenProperties
  <1> HIDE DEF r
  <1>5. Reverse(r) = [i \in 1..k |-> r[(k - i) + 1]]
    BY <1>4 DEF Reverse
  <1>6. \A i \in 1..k : r[(k - i) + 1] = buf[(k - i) + 1] % More
    BY <1>3, <1>4
  <1>7. Reverse(r) = Groups(buf, k)
    BY <1>5, <1>6 DEF Groups
  <1>8. Len(Groups(buf, k)) = k
    <2> DEFINE g(i) == buf[(k - i) + 1] % More
    <2>1. Groups(buf, k) = [i \in 1..k |-> g(i)]
      BY DEF Groups
    <2> HIDE DEF g
    <2>2. Groups(buf, k) \in Seq({g(i) : i \in 1..k}) /\ DOMAIN Groups(buf, k) = 1..k
      BY <1>4, <2>1
    <2>3. QED BY <1>4, <2>2, LenProperties
  <1>9. ExactVarint(s) = Value(More, Reverse(r))
    BY DEF ExactVarint, r
  <1>10. QED BY <1>7, <1>8, <1>9 DEF Value, s

\* The group of one more byte has the greatest weight so far.
LEMMA GroupsStep ==
  ASSUME NEW buf \in VarintBytes, NEW k \in Nat, k + 1 <= Len(buf)
  PROVE  /\ Prefix(More, Groups(buf, k), k) \in Nat
         /\ Prefix(More, Groups(buf, k + 1), k + 1)
              = (buf[k + 1] % More) * Power(2, k * GroupBits) + Prefix(More, Groups(buf, k), k)
  <1> DEFINE f == Groups(buf, k + 1)
             g == Groups(buf, k)
  <1>1. PICK m \in Nat : m = More /\ m > 0
    BY MoreType
  <1>0. Len(buf) \in Nat
    BY EncodingAssumption
  <1>2. PICK d \in Nat : d = buf[k + 1] % More
    <2>1. k + 1 \in 1..Len(buf)
      BY <1>0
    <2>2. QED BY <2>1, GroupType, MoreType
  <1>3. f[1] = d
    BY <1>2 DEF Groups
  <1>4. \A i \in 1..k : g[i] \in Nat /\ f[1 + i] = g[i]
    <2>1. ASSUME NEW i \in 1..k PROVE g[i] \in Nat /\ f[1 + i] = g[i]
      <3>1. g[i] = buf[(k - i) + 1] % More
        BY DEF Groups
      <3>2. (k - i) + 1 \in 1..Len(buf)
        BY <1>0
      <3>3. g[i] \in Nat
        BY <3>1, <3>2, GroupType, MoreType
      <3>4. 1 + i \in 1..(k + 1) /\ ((k + 1) - (1 + i)) + 1 = (k - i) + 1
        OBVIOUS
      <3>5. f[1 + i] = buf[((k + 1) - (1 + i)) + 1] % More
        BY <3>4 DEF Groups
      <3>6. QED BY <3>1, <3>3, <3>4, <3>5
    <2>2. QED BY <2>1
  <1> HIDE DEF f, g
  <1>5. PICK e \in Nat : e = Prefix(m, g, k)
    BY <1>4, PrefixType
  <1>6. Prefix(m, f, 1) = d
    BY <1>3, PrefixOne
  <1>7. Prefix(m, f, 1 + k) = d * Power(m, k) + e
    <2>1. \A i \in 1..1 : f[i] \in Nat
      BY <1>3
    <2>2. PICK a \in Nat : a = 1
      OBVIOUS
    <2>3. SplitAt(f, a, g, k)
      BY <1>4, <2>1, <2>2 DEF SplitAt
    <2>4. Prefix(m, f, a + k) = Prefix(m, f, a) * Power(m, k) + Prefix(m, g, k)
      BY <2>3, PrefixSplit
    <2>5. QED BY <1>5, <1>6, <2>2, <2>4
  <1>8. Power(m, k) = Power(2, k * GroupBits)
    <2>1. GroupBits \in Nat /\ 2 \in Nat /\ GroupBits * k = k * GroupBits
      BY EncodingAssumption
    <2>2. m = Power(2, GroupBits)
      BY <1>1 DEF More
    <2>3. PICK t \in Nat : t = 2
      OBVIOUS
    <2>4. PICK n \in Nat : n = GroupBits
      BY <2>1
    <2>5. Power(Power(t, n), k) = Power(t, n * k)
      BY PowerOfPower
    <2>6. QED BY <2>1, <2>2, <2>3, <2>4, <2>5
  <1>9. 1 + k = k + 1
    OBVIOUS
  <1>10. QED BY <1>1, <1>2, <1>5, <1>7, <1>8, <1>9 DEF f, g

\* The numbers of a uint64_t, and the bytes that make one.
Max64 == Power(2, ResultBits)
MaxGroups == (ResultBits + GroupBits - 1) \div GroupBits

\* The states of the loop.
VarintType == [len : Nat, bitpos : Nat, result : Nat, sw : Nat, ended : BOOLEAN]

\* decode_varint after the first k bytes, all of which have another one after them.
ReadingAt(k) ==
  /\ varint \in VarintType
  /\ varint.len = k /\ varint.bitpos = k * GroupBits
  /\ varint.result = Prefix(More, Groups(bytes, k), k) % Max64
  /\ varint.sw = 0
  /\ k <= MaxGroups
  /\ \A i \in 1..k : bytes[i] >= More

\* The loop over the bytes of a number has read some of them.
NumberInv ==
  field = "number" => bytes \in VarintBytes /\ \E k \in 0..Len(bytes) : ReadingAt(k)

\* The numbers of a uint64_t are as many as a power of two.
LEMMA Max64Type == Max64 \in Nat /\ Max64 > 0
  BY EncodingAssumption, PowerType DEF Max64

\* There is room for one group more exactly as long as the loop goes on.
LEMMA GroupsFit ==
  /\ MaxGroups \in Nat
  /\ \A k \in Nat : (k * GroupBits < ResultBits) <=> k < MaxGroups
  <1>1. PICK g \in Nat : g = GroupBits /\ g > 0
    BY EncodingAssumption
  <1>2. PICK r \in Nat : r = ResultBits /\ r > 0
    BY EncodingAssumption
  <1>3. PICK a \in Nat : a = r + g - 1
    BY <1>1, <1>2
  <1>4. PICK q \in Nat : q = a \div g
    BY <1>1, DivisionTheorem
  <1>5. PICK s \in 0..(g - 1) : s = a % g
    BY <1>1, DivisionTheorem
  <1>6. a = q * g + s
    BY <1>1, <1>4, <1>5, DivisionTheorem
  <1>7. MaxGroups = q
    BY <1>1, <1>2, <1>3, <1>4 DEF MaxGroups
  <1>8. q * g \in Nat
    OBVIOUS
  <1>9. ASSUME NEW k \in Nat PROVE (k * g < r) <=> k < q
    <2>1. PICK p \in Nat : p = k * g
      OBVIOUS
    <2>2. CASE k < q
      <3>1. k * g + g <= q * g
        BY <2>2, MultipleGap
      <3>2. QED BY <1>3, <1>5, <1>6, <1>8, <2>1, <2>2, <3>1
    <2>3. CASE k >= q
      <3>1. q * g <= k * g
        <4>1. CASE q = k
          BY <4>1, <1>8
        <4>2. CASE q < k
          <5>1. q * g + g <= k * g
            BY <4>2, MultipleGap
          <5>2. QED BY <5>1, <1>8, <2>1
        <4>3. QED BY <2>3, <4>1, <4>2
      <3>2. r <= q * g
        BY <1>3, <1>5, <1>6, <1>8
      <3>3. QED BY <1>8, <2>1, <2>3, <3>1, <3>2
    <2>4. QED BY <2>2, <2>3
  <1>10. QED BY <1>1, <1>2, <1>7, <1>9

\* What a byte more changes (transaction.h:62).
LEMMA VarintByteFields ==
  ASSUME NEW s \in VarintType, NEW byte
  PROVE  /\ VarintByte(s, byte).len = s.len + 1
         /\ VarintByte(s, byte).bitpos = s.bitpos + GroupBits
         /\ VarintByte(s, byte).result
              = (s.result + (byte % More) * Power(2, s.bitpos)) % Power(2, ResultBits)
         /\ VarintByte(s, byte).sw = s.sw
         /\ VarintByte(s, byte).ended = (byte < More)
         /\ DOMAIN VarintByte(s, byte) = {"len", "bitpos", "result", "sw", "ended"}
  BY DEF VarintType, VarintByte

\* It stays a state of the loop.
LEMMA VarintByteType ==
  ASSUME NEW s \in VarintType, NEW byte, VarintByte(s, byte).len \in Nat,
         VarintByte(s, byte).bitpos \in Nat, VarintByte(s, byte).result \in Nat
  PROVE  VarintByte(s, byte) \in VarintType
  <1> DEFINE r == (s.result + (byte % More) * Power(2, s.bitpos)) % Power(2, ResultBits)
             l == s.len + 1
             p == s.bitpos + GroupBits
             e == byte < More
  <1>1. VarintByte(s, byte) = [s EXCEPT !.len = l, !.bitpos = p, !.result = r, !.ended = e]
    BY DEF VarintByte
  <1>2. r \in Nat /\ l \in Nat /\ p \in Nat
    BY VarintByteFields
  <1>3. e \in BOOLEAN
    OBVIOUS
  <1> HIDE DEF r, l, p, e
  <1>4. QED BY <1>1, <1>2, <1>3 DEF VarintType

\* The uint64_t wraps around as the exact number does.
LEMMA ResultNext ==
  ASSUME NEW buf \in VarintBytes, NEW k \in Nat, k + 1 <= Len(buf)
  PROVE  ((Prefix(More, Groups(buf, k), k) % Max64)
            + (buf[k + 1] % More) * Power(2, k * GroupBits)) % Max64
           = Prefix(More, Groups(buf, k + 1), k + 1) % Max64
  <1>1. PICK w \in Nat : w = Max64 /\ w > 0
    BY Max64Type
  <1>2. PICK e \in Nat : e = Prefix(More, Groups(buf, k), k)
    BY GroupsStep
  <1>3. PICK x \in Nat : x = (buf[k + 1] % More) * Power(2, k * GroupBits)
    <2>1. k + 1 \in 1..Len(buf)
      BY EncodingAssumption
    <2>2. PICK d \in Nat : d = buf[k + 1] % More
      BY <2>1, GroupType, MoreType
    <2>3. k * GroupBits \in Nat
      BY EncodingAssumption
    <2>4. PICK p \in Nat : p = Power(2, k * GroupBits)
      BY <2>3, PowerType
    <2>5. d * p \in Nat
      OBVIOUS
    <2>6. QED BY <2>2, <2>4, <2>5
  <1>4. Prefix(More, Groups(buf, k + 1), k + 1) = x + e
    BY <1>2, <1>3, GroupsStep
  <1>5. ((e % w) + x) % w = (x + e) % w
    <2>1. ((e % w) + x) % w = (e + x) % w
      BY <1>1, ModAdd
    <2>2. e + x = x + e
      OBVIOUS
    <2>3. QED BY <2>1, <2>2
  <1>6. QED BY <1>1, <1>2, <1>3, <1>4, <1>5, Zenon

\* A number ends at its first byte that has no other one after it.
LEMMA VarintEndIs ==
  ASSUME NEW buf \in VarintBytes
  PROVE  /\ (\A i \in 1..Len(buf) : buf[i] >= More) => VarintEnd(buf) = 0
         /\ \A n \in 1..Len(buf) :
              (\A i \in 1..(n-1) : buf[i] >= More) /\ buf[n] < More => VarintEnd(buf) = n
         /\ \A n \in 0..Len(buf) : (\A i \in 1..n : buf[i] >= More) =>
              VarintEnd(buf) = 0 \/ VarintEnd(buf) > n
  <1> DEFINE I == {i \in 1..Len(buf) : buf[i] < More}
  <1>1. VarintEnd(buf) = IF I # {} THEN Min(I) ELSE 0
    BY DEF VarintEnd, SelectInSeq
  <1>2. More \in Nat /\ Len(buf) \in Nat /\ \A i \in 1..Len(buf) : buf[i] \in Nat
    BY GroupType, MoreType, EncodingAssumption
  <1>3. I \in SUBSET Nat /\ I \in SUBSET (1..Len(buf))
    BY <1>2
  <1>4. I # {} => Min(I) \in I /\ \A y \in I : Min(I) <= y
    BY <1>3, MinOfNat
  <1>5. \A i \in 1..Len(buf) : i \in I <=> ~(buf[i] >= More)
    BY <1>2
  <1>6. ASSUME \A i \in 1..Len(buf) : buf[i] >= More PROVE VarintEnd(buf) = 0
    BY <1>1, <1>5, <1>6
  <1>7. ASSUME NEW n \in 0..Len(buf), \A i \in 1..n : buf[i] >= More
        PROVE  VarintEnd(buf) = 0 \/ VarintEnd(buf) > n
    <2>1. CASE I = {}
      BY <1>1, <2>1
    <2>2. CASE I # {}
      <3>1. PICK z \in 1..Len(buf) : z = Min(I) /\ z \in I
        BY <1>3, <1>4, <2>2
      <3>2. ~(buf[z] >= More)
        BY <1>5, <3>1
      <3>3. z \notin 1..n
        BY <1>7, <3>2
      <3>4. z > n
        BY <1>2, <3>3
      <3>5. QED BY <1>1, <2>2, <3>1, <3>4
    <2>3. QED BY <2>1, <2>2
  <1>8. ASSUME NEW n \in 1..Len(buf), \A i \in 1..(n-1) : buf[i] >= More, buf[n] < More
        PROVE  VarintEnd(buf) = n
    <2>1. n \in I
      BY <1>8
    <2>2. PICK z \in 1..Len(buf) : z = Min(I) /\ z \in I /\ z <= n
      BY <1>3, <1>4, <2>1
    <2>3. ~(buf[z] >= More)
      BY <1>5, <2>2
    <2>4. z \notin 1..(n-1)
      BY <1>8, <2>3
    <2>5. z = n
      BY <1>2, <2>2, <2>4
    <2>6. QED BY <1>1, <2>1, <2>2, <2>5
  <1>9. QED BY <1>6, <1>7, <1>8

----------------------------------------------------------------------------
\* A turn of the loop with a byte: the number ends there or goes on.
LEMMA NumberEndsAtByte ==
  ASSUME NEW k \in 0..Len(bytes), bytes \in VarintBytes, ReadingAt(k), field = "number",
         DecodeNumber, varint.bitpos < ResultBits, ~(varint.len >= Len(bytes))
  PROVE  NumberInv' /\ VarintIsExact'
  <1>1. Len(bytes) \in Nat /\ k \in Nat
    BY EncodingAssumption
  <1>2. varint.bitpos = k * GroupBits /\ varint.len = k /\ varint \in VarintType
    BY DEF ReadingAt
  <1>3. k + 1 <= Len(bytes) /\ k + 1 \in 1..Len(bytes)
    BY <1>1, <1>2
  <1>4. k < MaxGroups /\ MaxGroups \in Nat
    BY <1>1, <1>2, GroupsFit
  <1>5. ~(varint.bitpos >= ResultBits)
    <2>1. PICK p \in Nat : p = varint.bitpos
      <3>1. k * GroupBits \in Nat
        BY <1>1, EncodingAssumption
      <3>2. QED BY <1>2, <3>1
    <2>2. QED BY <2>1, EncodingAssumption
  <1>6. /\ varint'.len = k + 1 /\ varint'.bitpos = (k + 1) * GroupBits
        /\ varint'.result = Prefix(More, Groups(bytes, k + 1), k + 1) % Max64
        /\ varint'.sw = 0
        /\ varint'.ended = (bytes[k + 1] < More)
        /\ varint' \in VarintType
    <2>1. varint' = VarintByte(varint, bytes[k + 1])
      BY <1>2, <1>5 DEF VarintStep, DecodeNumber
    <2>2. (k * GroupBits) + GroupBits = (k + 1) * GroupBits /\ (k + 1) * GroupBits \in Nat
      <3>1. PICK g \in Nat : g = GroupBits
        BY EncodingAssumption
      <3>2. (k * g) + g = (k + 1) * g /\ (k + 1) * g \in Nat
        BY <1>1
      <3>3. QED BY <3>1, <3>2
    <2>3. varint'.result = Prefix(More, Groups(bytes, k + 1), k + 1) % Max64
      <3>1. varint'.result = (varint.result + (bytes[k + 1] % More) * Power(2, varint.bitpos)) % Power(2, ResultBits)
        BY <1>2, <2>1, VarintByteFields
      <3>2. varint.result = Prefix(More, Groups(bytes, k), k) % Max64
        BY DEF ReadingAt
      <3>3. QED BY <1>1, <1>2, <1>3, <3>1, <3>2, ResultNext DEF Max64
    <2>4. varint'.len = k + 1 /\ varint'.bitpos = (k + 1) * GroupBits /\ varint'.sw = 0
          /\ varint'.ended = (bytes[k + 1] < More)
      BY <1>2, <2>1, <2>2, VarintByteFields DEF ReadingAt
    <2>5. Prefix(More, Groups(bytes, k + 1), k + 1) % Max64 \in Nat
      <3>1. PICK w \in Nat : w = Max64 /\ w > 0
        BY Max64Type
      <3>2. PICK e \in Nat : e = Prefix(More, Groups(bytes, k + 1), k + 1)
        <4>1. PICK x \in Nat : x = (bytes[k + 1] % More) * Power(2, k * GroupBits)
          <5>1. PICK d \in Nat : d = bytes[k + 1] % More
            BY <1>3, GroupType, MoreType
          <5>2. PICK p \in Nat : p = Power(2, k * GroupBits)
            <6>1. k * GroupBits \in Nat
              BY <1>1, EncodingAssumption
            <6>2. QED BY <6>1, PowerType
          <5>3. d * p \in Nat
            OBVIOUS
          <5>4. QED BY <5>1, <5>2, <5>3
        <4>2. QED BY <1>1, <1>3, <4>1, GroupsStep
      <3>3. e % w \in 0..(w - 1)
        BY <3>1, DivisionTheorem
      <3>4. QED BY <3>1, <3>2, <3>3
    <2>6. varint' \in VarintType
      BY <1>1, <1>2, <2>1, <2>2, <2>3, <2>4, <2>5, VarintByteType
    <2>7. QED BY <2>3, <2>4, <2>6
  <1>7. bytes' = bytes /\ field' = IF varint'.ended THEN "varint" ELSE "number"
    BY DEF DecodeNumber
  <1>8. varint'.ended = (bytes[k + 1] < More)
    BY <1>6
  <1>9. bytes[k + 1] \in Nat /\ More \in Nat
    BY <1>3, GroupType, MoreType
  <1>10. CASE bytes[k + 1] < More
    <2>1. field' = "varint"
      BY <1>7, <1>8, <1>10
    <2>2. VarintEnd(bytes) = k + 1
      <3>1. \A i \in 1..((k + 1) - 1) : bytes[i] >= More
        BY <1>1 DEF ReadingAt
      <3>2. QED BY <1>3, <1>10, <3>1, VarintEndIs
    <2>3. k + 1 \in 1..MaxGroups
      BY <1>1, <1>4
    <2>4. varint'.sw = 0 /\ varint'.len = k + 1
          /\ varint'.result = Prefix(More, Groups(bytes, k + 1), k + 1) % Max64
      BY <1>6
    <2>5. Prefix(More, Groups(bytes, k + 1), k + 1) = ExactVarint(SubSeq(bytes, 1, k + 1))
      <3>1. k + 1 \in 0..Len(bytes)
        BY <1>1, <1>3
      <3>2. QED BY <3>1, ExactIsGroups
    <2>6. VarintIsExact'
      BY <1>7, <2>2, <2>3, <2>4, <2>5 DEF VarintIsExact, MaxGroups, Max64
    <2>7. QED BY <2>1, <2>6 DEF NumberInv
  <1>11. CASE ~(bytes[k + 1] < More)
    <2>1. field' = "number"
      BY <1>7, <1>8, <1>11
    <2>4. \A i \in 1..(k + 1) : bytes[i] >= More
      <3>1. \A i \in 1..(k + 1) : i \in 1..k \/ i = k + 1
        BY <1>1
      <3>2. QED BY <1>9, <1>11, <3>1 DEF ReadingAt
    <2>5. k + 1 <= MaxGroups
      BY <1>1, <1>4
    <2>6. ReadingAt(k + 1)'
      BY <1>6, <1>7, <2>4, <2>5 DEF ReadingAt
    <2>7. k + 1 \in 0..Len(bytes')
      BY <1>1, <1>3, <1>7
    <2>8. NumberInv'
      BY <1>7, <2>6, <2>7 DEF NumberInv
    <2>9. QED BY <2>1, <2>8 DEF VarintIsExact
  <1>12. QED BY <1>10, <1>11

\* The inductive invariant of a number, at work and read.
VarintInv == NumberInv /\ VarintIsExact

\* Before the first conversion no number is read.
LEMMA VarintInitially == Init => VarintInv
  BY DEF Init, VarintInv, NumberInv, VarintIsExact

\* The loop begins with no byte.
LEMMA NumberBegins ==
  ASSUME BeginNumber
  PROVE  VarintInv'
  <1>1. field' = "number" /\ bytes' \in VarintBytes /\ varint' = VarintBegin
    BY DEF BeginNumber
  <1>2. Len(bytes') \in Nat
    BY <1>1, EncodingAssumption
  <1>3. ReadingAt(0)'
    <2>1. varint' \in VarintType
      BY <1>1 DEF VarintBegin, VarintType
    <2>2. varint'.len = 0 /\ varint'.bitpos = 0 /\ varint'.result = 0 /\ varint'.sw = 0
      BY <1>1 DEF VarintBegin
    <2>3. 0 = 0 * GroupBits
      <3>1. PICK g \in Nat : g = GroupBits
        BY EncodingAssumption
      <3>2. 0 = 0 * g
        OBVIOUS
      <3>3. QED BY <3>1, <3>2
    <2>4. Prefix(More, Groups(bytes', 0), 0) % Max64 = 0
      <3>1. PICK w \in Nat : w = Max64 /\ w > 0
        BY Max64Type
      <3>2. Prefix(More, Groups(bytes', 0), 0) = 0
        BY PrefixStep
      <3>3. 0 % w = 0
        <4>1. 0 = 0 * w + 0 /\ 0 \in 0..(w - 1) /\ 0 \in Nat
          BY <3>1
        <4>2. QED BY ONLY w \in Nat, <4>1, DivisionIs, Zenon
      <3>4. QED BY <3>1, <3>2, <3>3
    <2>5. 0 <= MaxGroups
      BY GroupsFit
    <2>6. QED BY <2>1, <2>2, <2>3, <2>4, <2>5 DEF ReadingAt
  <1>4. QED BY <1>1, <1>2, <1>3 DEF VarintInv, NumberInv, VarintIsExact

\* Too many bytes: the last case of the property.
LEMMA NumberRefused ==
  ASSUME NEW k \in 0..Len(bytes), bytes \in VarintBytes, ReadingAt(k),
         DecodeNumber, varint.bitpos >= ResultBits
  PROVE  VarintInv'
  <1>1. Len(bytes) \in Nat /\ k \in Nat
    BY EncodingAssumption
  <1>2. ~(k < MaxGroups)
    <2>1. PICK p \in Nat : p = k * GroupBits
      BY <1>1, EncodingAssumption
    <2>2. ~(k * GroupBits < ResultBits)
      BY <2>1, EncodingAssumption DEF ReadingAt
    <2>3. QED BY <1>1, <2>2, GroupsFit
  <1>3. k = MaxGroups
    BY <1>1, <1>2, GroupsFit DEF ReadingAt
  <1>4. varint' = [varint EXCEPT !.sw = 26417, !.ended = TRUE]
    <2>1. PICK p \in Nat : p = varint.bitpos
      BY DEF ReadingAt, VarintType
    <2>2. ~(varint.bitpos < ResultBits)
      BY <2>1, EncodingAssumption
    <2>3. QED BY <2>2 DEF DecodeNumber, VarintStep
  <1>5. varint'.sw = 26417 /\ varint'.ended
    BY <1>4 DEF ReadingAt, VarintType
  <1>6. field' = "varint" /\ bytes' = bytes
    BY <1>5 DEF DecodeNumber
  <1>7. VarintEnd(bytes) = 0 \/ VarintEnd(bytes) > k
    BY VarintEndIs DEF ReadingAt
  <1>8. PICK n : n = VarintEnd(bytes)
    OBVIOUS
  <1>9. n \notin 1..MaxGroups /\ ~(n = 0 /\ Len(bytes) < MaxGroups)
    BY <1>1, <1>3, <1>7, <1>8
  <1>10. VarintIsExact'
    BY <1>5, <1>6, <1>8, <1>9 DEF VarintIsExact, MaxGroups
  <1>11. QED BY <1>6, <1>10 DEF VarintInv, NumberInv

\* The part ends before the number does.
LEMMA NumberCut ==
  ASSUME NEW k \in 0..Len(bytes), bytes \in VarintBytes, ReadingAt(k),
         DecodeNumber, varint.bitpos < ResultBits, varint.len >= Len(bytes)
  PROVE  VarintInv'
  <1>1. Len(bytes) \in Nat /\ k \in Nat
    BY EncodingAssumption
  <1>2. k = Len(bytes)
    BY <1>1 DEF ReadingAt
  <1>3. k < MaxGroups
    BY <1>1, GroupsFit DEF ReadingAt
  <1>4. ~(varint.bitpos >= ResultBits)
    <2>1. PICK p \in Nat : p = varint.bitpos
      BY DEF ReadingAt, VarintType
    <2>2. QED BY <2>1, EncodingAssumption
  <1>5. varint' = [varint EXCEPT !.len = 0, !.ended = TRUE]
    BY <1>4 DEF DecodeNumber, VarintStep
  <1>6. varint'.sw = 0 /\ varint'.len = 0 /\ varint'.ended
    BY <1>5 DEF ReadingAt, VarintType
  <1>7. field' = "varint" /\ bytes' = bytes
    BY <1>6 DEF DecodeNumber
  <1>8. VarintEnd(bytes) = 0
    BY <1>2, VarintEndIs DEF ReadingAt
  <1>9. VarintIsExact'
    <2>1. 0 \notin 1..MaxGroups
      OBVIOUS
    <2>2. QED BY <1>2, <1>3, <1>6, <1>7, <1>8, <2>1 DEF VarintIsExact, MaxGroups
  <1>10. QED BY <1>7, <1>9 DEF VarintInv, NumberInv

\* Every turn of the loop, the refusal and the cut included.
LEMMA NumberDecoded ==
  ASSUME VarintInv, DecodeNumber
  PROVE  VarintInv'
  <1>1. field = "number"
    BY DEF DecodeNumber
  <1>2. PICK k \in 0..Len(bytes) : bytes \in VarintBytes /\ ReadingAt(k)
    BY <1>1 DEF VarintInv, NumberInv
  <1>3. PICK p \in Nat : p = varint.bitpos
    BY <1>2 DEF ReadingAt, VarintType
  <1>4. CASE varint.bitpos >= ResultBits
    BY <1>2, <1>4, NumberRefused
  <1>5. CASE varint.bitpos < ResultBits /\ varint.len >= Len(bytes)
    BY <1>2, <1>5, NumberCut
  <1>6. CASE varint.bitpos < ResultBits /\ ~(varint.len >= Len(bytes))
    BY <1>1, <1>2, <1>6, NumberEndsAtByte DEF VarintInv
  <1>7. QED BY <1>3, <1>4, <1>5, <1>6, EncodingAssumption

\* Every step of the encodings keeps the invariant.
LEMMA VarintPreserved ==
  ASSUME VarintInv, [Next]_vars
  PROVE  VarintInv'
  <1>1. CASE DecodeNumber
    BY <1>1, NumberDecoded
  <1>2. CASE BeginNumber
    BY <1>2, NumberBegins
  <1>3. CASE UNCHANGED vars
    BY <1>3 DEF VarintInv, NumberInv, VarintIsExact, ReadingAt, vars
  <1>4. CASE field' \notin {"number", "varint"}
    BY <1>4 DEF VarintInv, NumberInv, VarintIsExact
  <1>5. QED
    BY <1>1, <1>2, <1>3, <1>4
       DEF Next, EncodeAmount, BeginDigit, Divide, EndDigit, EncodeRecipient, EncodeByte,
           Carry, EncodeDigits, Done

\* A number that is read is the number that its bytes are, and one that is cut or
\* too long is not (transaction.h:50).
THEOREM VarintExact == Spec => []VarintIsExact
  <1>1. VarintInv => VarintIsExact
    BY DEF VarintInv
  <1>2. QED BY VarintInitially, VarintPreserved, <1>1, PTL DEF Spec

----------------------------------------------------------------------------
(* Addresses.                                                              *)

\* The digits of buf after index j of the 53.
TailDigits(buf, j) == [q \in 1..(52 - j) |-> buf[j + 1 + q]]
Tail58(buf, j) == Prefix(58, TailDigits(buf, j), 52 - j)

\* The digits in base 58, in their buffer of 53.
Digit58 == 0..57
Buffer58 == [1..53 -> Digit58]

\* A digit of the buffer is below 58.
LEMMA BufferDigit ==
  ASSUME NEW buf \in Buffer58, NEW i \in 1..53
  PROVE  buf[i] \in Digit58 /\ buf[i] \in Nat
  BY DEF Buffer58, Digit58

\* The digits behind j make a number below their power of 58.
LEMMA TailType ==
  ASSUME NEW buf \in Buffer58, NEW j \in 0..52
  PROVE  /\ Tail58(buf, j) \in Nat /\ Tail58(buf, j) < Power(58, 52 - j)
         /\ SplitAt(buf, j + 1, TailDigits(buf, j), 52 - j)
         /\ Prefix(58, buf, j + 1) \in Nat
  <1> DEFINE t == TailDigits(buf, j)
  <1>1. PICK n \in Nat : n = 52 - j
    OBVIOUS
  <1>2. \A q \in 1..n : t[q] = buf[j + 1 + q] /\ t[q] \in 0..(58-1) /\ t[q] \in Nat
    <2>1. ASSUME NEW q \in 1..n PROVE t[q] = buf[j + 1 + q] /\ t[q] \in 0..(58-1) /\ t[q] \in Nat
      <3>1. q \in 1..(52 - j) /\ j + 1 + q \in 1..53
        BY <1>1
      <3>2. t[q] = buf[j + 1 + q]
        BY <3>1 DEF TailDigits
      <3>3. buf[j + 1 + q] \in 0..57
        BY <3>1, BufferDigit DEF Digit58
      <3>4. QED BY <3>2, <3>3
    <2>2. QED BY <2>1
  <1>3. \A i \in 1..(j + 1) : buf[i] \in Nat
    BY BufferDigit
  <1> HIDE DEF t
  <1>4. Prefix(58, t, n) \in Nat /\ Prefix(58, t, n) < Power(58, n)
    BY <1>2, PrefixBound
  <1>5. SplitAt(buf, j + 1, t, n)
    BY <1>2, <1>3 DEF SplitAt
  <1>6. Prefix(58, buf, j + 1) \in Nat
    <2>1. PICK m \in Nat : m = j + 1
      OBVIOUS
    <2>2. QED BY <1>3, <2>1, PrefixType
  <1>7. QED BY <1>1, <1>4, <1>5, <1>6 DEF Tail58, t

\* The number in the buffer is in two parts.
LEMMA BufferSplit ==
  ASSUME NEW buf \in Buffer58, NEW j \in 0..52
  PROVE  Prefix(58, buf, 53) = Prefix(58, buf, j + 1) * Power(58, 52 - j) + Tail58(buf, j)
  <1>1. PICK m \in Nat : m = j + 1
    OBVIOUS
  <1>2. PICK n \in Nat : n = 52 - j
    OBVIOUS
  <1>3. m + n = 53
    BY <1>1, <1>2
  <1>4. SplitAt(buf, m, TailDigits(buf, j), n)
    BY <1>1, <1>2, TailType
  <1>5. Prefix(58, buf, m + n) = Prefix(58, buf, m) * Power(58, n) + Prefix(58, TailDigits(buf, j), n)
    BY <1>4, PrefixSplit
  <1>6. QED BY <1>1, <1>2, <1>3, <1>5 DEF Tail58

\* A new digit at index j.
LEMMA TailStep ==
  ASSUME NEW buf \in Buffer58, NEW j \in 1..52, NEW d \in Digit58
  PROVE  LET new == [buf EXCEPT ![j + 1] = d]
         IN  /\ new \in Buffer58
             /\ Prefix(58, new, j) = Prefix(58, buf, j)
             /\ Tail58(new, j - 1) = d * Power(58, 52 - j) + Tail58(buf, j)
  <1> DEFINE new == [buf EXCEPT ![j + 1] = d]
             t == TailDigits(new, j - 1)
             u == TailDigits(buf, j)
  <1>1. new \in Buffer58
    BY DEF Buffer58
  <1>2. /\ new[j + 1] = d
        /\ \A i \in 1..53 : i # j + 1 => new[i] = buf[i]
    BY DEF Buffer58
  <1> HIDE DEF new
  <1>3. Prefix(58, new, j) = Prefix(58, buf, j)
    <2>1. \A i \in 1..j : new[i] = buf[i]
      BY <1>2
    <2>2. QED BY <2>1, PrefixSame
  <1>4. PICK n \in Nat : n = 52 - j
    OBVIOUS
  <1>5. t[1] = d
    <2>1. 1 \in 1..(52 - (j - 1)) /\ (j - 1) + 1 + 1 = j + 1
      OBVIOUS
    <2>2. QED BY <1>2, <2>1 DEF TailDigits
  <1>6. \A q \in 1..n : u[q] \in Nat /\ t[1 + q] = u[q]
    <2>1. ASSUME NEW q \in 1..n PROVE u[q] \in Nat /\ t[1 + q] = u[q]
      <3>1. u[q] = buf[j + 1 + q]
        BY <1>4 DEF TailDigits
      <3>2. 1 + q \in 1..(52 - (j - 1)) /\ (j - 1) + 1 + (1 + q) = j + 1 + q
        BY <1>4
      <3>3. t[1 + q] = new[j + 1 + q]
        BY <3>2 DEF TailDigits
      <3>4. j + 1 + q \in 1..53 /\ j + 1 + q # j + 1
        BY <1>4
      <3>5. QED BY <1>2, <3>1, <3>3, <3>4, BufferDigit
    <2>2. QED BY <2>1
  <1> HIDE DEF t, u
  <1>7. d \in Nat
    BY DEF Digit58
  <1>8. Prefix(58, t, 1) = d
    BY <1>5, <1>7, PrefixOne
  <1>9. PICK a \in Nat : a = 1
    OBVIOUS
  <1>10. SplitAt(t, a, u, n)
    <2>1. \A i \in 1..a : t[i] \in Nat
      BY <1>5, <1>7, <1>9
    <2>2. QED BY <1>6, <1>9, <2>1 DEF SplitAt
  <1>11. Prefix(58, t, a + n) = Prefix(58, t, a) * Power(58, n) + Prefix(58, u, n)
    BY <1>10, PrefixSplit
  <1>12. a + n = 52 - (j - 1)
    BY <1>4, <1>9
  <1>13. Tail58(new, j - 1) = d * Power(58, n) + Tail58(buf, j)
    BY <1>4, <1>8, <1>9, <1>11, <1>12 DEF Tail58, t, u
  <1>14. QED BY <1>1, <1>3, <1>4, <1>13 DEF new

\* The work on byte i of s.bin, of which t is the number so far, byte i included.
CarryAt(s, t) ==
  /\ s.buf \in Buffer58 /\ s.carry \in Nat
  /\ s.j \in 0..52 /\ s.high \in 0..52
  /\ \A p \in 1..53 : p <= s.j + 1 /\ p <= s.high + 1 => s.buf[p] = 0
  /\ t = (Prefix(58, s.buf, s.j + 1) * 256 + s.carry) * Power(58, 52 - s.j) + Tail58(s.buf, s.j)

\* The fields of base58_encode at work.
BaseFields == {"bin", "i", "buf", "carry", "j", "high", "overrun"}
BaseRecord(s) == s = [f \in BaseFields |-> s[f]]

\* A carry c and the digit d make the digit r and the carry q.
CarryOut(c, d, q, r) == c + 256 * d = q * 58 + r

\* The number t, with the carry c before it gets to the digits x.
CarryNumber(t, x, c, p, s) == t = (x * 256 + c) * p + s

\* A digit is worked off: the digit and the carry change, the number does not.
LEMMA CarryArithmetic ==
  ASSUME NEW t \in Nat, NEW x \in Nat, NEW d \in Nat, NEW c \in Nat, NEW q \in Nat,
         NEW r \in Nat, NEW p \in Nat, NEW s \in Nat,
         CarryOut(c, d, q, r), CarryNumber(t, x * 58 + d, c, p, s)
  PROVE  CarryNumber(t, x, q, 58 * p, r * p + s)
  <1>1. c = q * 58 + r - 256 * d
    BY DEF CarryOut
  <1>2. (x * 58 + d) * 256 + (q * 58 + r - 256 * d) = x * 58 * 256 + q * 58 + r
    OBVIOUS
  <1>3. (x * 58 * 256 + q * 58 + r) * p = (x * 256 + q) * (58 * p) + r * p
    OBVIOUS
  <1>4. ((x * 58 + d) * 256 + c) * p = (x * 256 + q) * (58 * p) + r * p
    BY <1>1, <1>2, <1>3
  <1>5. PICK z \in Nat : z = ((x * 58 + d) * 256 + c) * p
    OBVIOUS
  <1>6. PICK y \in Nat : y = (x * 256 + q) * (58 * p)
    OBVIOUS
  <1>7. PICK w \in Nat : w = r * p
    OBVIOUS
  <1>8. z + s = y + (w + s)
    BY <1>4, <1>5, <1>6, <1>7
  <1>9. QED BY <1>5, <1>6, <1>7, <1>8 DEF CarryNumber

\* With nothing but zeros left in front, there is no carry out of the last digit:
\* the number is less than that.
LEMMA NoOverrun ==
  ASSUME NEW s, NEW t \in Nat, CarryAt(s, t), t < Power(58, 52), s.j = 0
  PROVE  ~Carrying(s)
  <1>1. s.buf \in Buffer58 /\ s.buf[1] = 0
    BY DEF CarryAt
  <1>2. Prefix(58, s.buf, 1) = 0
    BY <1>1, PrefixOne
  <1>3. PICK c \in Nat : c = s.carry
    BY DEF CarryAt
  <1>4. PICK p \in Nat : p = Power(58, 52)
    BY PowerType
  <1>5. PICK u \in Nat : u = Tail58(s.buf, 0)
    BY <1>1, TailType
  <1>6. t = (0 * 256 + c) * p + u
    <2>1. s.j + 1 = 1 /\ 52 - s.j = 52
      OBVIOUS
    <2>2. QED BY <1>2, <1>3, <1>4, <1>5, <2>1 DEF CarryAt
  <1>7. c = 0
    <2>1. SUFFICES ASSUME c > 0 PROVE FALSE
      OBVIOUS
    <2>2. PICK e \in Nat : c = e + 1
      <3>1. c - 1 \in Nat /\ c = (c - 1) + 1
        BY <2>1
      <3>2. QED BY <3>1
    <2>3. (0 * 256 + (e + 1)) * p = e * p + p /\ e * p \in Nat
      OBVIOUS
    <2>4. QED BY <1>4, <1>6, <2>2, <2>3
  <1>8. s.high \in 0..52
    BY DEF CarryAt
  <1>9. QED BY <1>3, <1>7, <1>8 DEF Carrying

\* A turn of the loop over the digits does not leave the buffer: a carry at digit 0
\* would make the number 58^52 or more (account.h:24).
LEMMA CarryStepAt ==
  ASSUME NEW s, NEW t \in Nat, CarryAt(s, t), t < Power(58, 52), Carrying(s),
         BaseRecord(s)
  PROVE  /\ CarryAt(CarryStep(s), t)
         /\ CarryStep(s).overrun = FALSE
         /\ CarryStep(s).bin = s.bin /\ CarryStep(s).i = s.i
         /\ BaseRecord(CarryStep(s))
  <1>1. s.j # 0
    BY NoOverrun
  <1>2. PICK j \in 1..52 : j = s.j
    BY <1>1 DEF CarryAt
  <1>3. PICK buf \in Buffer58 : buf = s.buf
    BY DEF CarryAt
  <1>4. PICK d \in Nat : d = buf[j + 1]
    BY BufferDigit
  <1>5. PICK c \in Nat : c = s.carry
    BY DEF CarryAt
  <1>6. PICK v \in Nat : v = c + 256 * d
    OBVIOUS
  <1>7. PICK q \in Nat : q = v \div 58
    BY DivisionTheorem
  <1>8. PICK r \in 0..57 : r = v % 58
    OBVIOUS
  <1>9. v = q * 58 + r
    BY <1>7, <1>8
  <1> DEFINE new == [buf EXCEPT ![j + 1] = r]
             n == CarryStep(s)
  <1>10. n = [s EXCEPT !.buf[j + 1] = r, !.carry = q, !.j = j - 1, !.overrun = FALSE]
    <2> DEFINE w == s.carry + 256 * s.buf[s.j + 1]
    <2>1. n = [s EXCEPT !.buf[s.j + 1] = w % 58, !.carry = w \div 58,
                        !.j = s.j - 1, !.overrun = s.j = 0]
      BY Zenon DEF CarryStep
    <2>2. w = v
      BY <1>2, <1>3, <1>4, <1>5, <1>6
    <2> HIDE DEF w, n
    <2>3. w % 58 = r /\ w \div 58 = q
      BY <1>7, <1>8, <2>2, Zenon
    <2>4. (s.j = 0) = FALSE
      BY <1>1
    <2>5. QED BY <1>2, <2>1, <2>3, <2>4, Zenon
  <1>11. /\ n.buf = new /\ n.carry = q /\ n.j = j - 1 /\ n.overrun = FALSE
         /\ n.bin = s.bin /\ n.i = s.i /\ n.high = s.high
    <2>1. DOMAIN s = BaseFields
      BY DEF BaseRecord
    <2>2. QED BY <1>3, <1>10, <2>1 DEF BaseFields
  <1>r. BaseRecord(n)
    <2>1. PICK m : m = n
      OBVIOUS
    <2>2. DOMAIN m = BaseFields
      BY <1>10, <2>1 DEF BaseRecord
    <2>3. m = [f \in BaseFields |-> m[f]]
      BY <1>10, <2>1, <2>2
    <2>4. QED BY <2>1, <2>3 DEF BaseRecord
  <1>12. /\ new \in Buffer58
         /\ Prefix(58, new, j) = Prefix(58, buf, j)
         /\ Tail58(new, j - 1) = r * Power(58, 52 - j) + Tail58(buf, j)
    BY TailStep DEF Digit58
  <1>13. \A i \in 1..53 : i # j + 1 => new[i] = buf[i]
    BY DEF Buffer58
  <1> HIDE DEF new, n
  <1>14. PICK x \in Nat : x = Prefix(58, buf, j)
    <2>1. j - 1 \in 0..52 /\ (j - 1) + 1 = j
      OBVIOUS
    <2>2. Prefix(58, buf, (j - 1) + 1) \in Nat
      BY <2>1, TailType
    <2>3. QED BY <2>1, <2>2
  <1>15. PICK p \in Nat : p = Power(58, 52 - j)
    <2>1. 52 - j \in Nat
      OBVIOUS
    <2>2. QED BY <2>1, PowerType
  <1>16. PICK u \in Nat : u = Tail58(buf, j)
    <2>1. j \in 0..52
      OBVIOUS
    <2>2. QED BY <2>1, TailType
  <1>17. t = ((x * 58 + d) * 256 + c) * p + u
    <2>1. Prefix(58, buf, j + 1) = x * 58 + d
      <3>1. PICK b \in Nat : b = 58
        OBVIOUS
      <3>2. PICK m \in Nat : m = j
        OBVIOUS
      <3>3. Prefix(b, buf, m) = x /\ buf[m + 1] = d
        BY <1>4, <1>14, <3>1, <3>2
      <3>4. Prefix(b, buf, m + 1) = x * b + d
        BY <3>3, PrefixMore
      <3>5. QED BY <3>1, <3>2, <3>4
    <2>2. QED BY <1>2, <1>3, <1>5, <1>15, <1>16, <2>1 DEF CarryAt
  <1>18. t = (x * 256 + q) * (58 * p) + (r * p + u)
    <2>2. CarryOut(c, d, q, r) /\ r \in Nat
      BY <1>6, <1>9 DEF CarryOut
    <2>3. CarryNumber(t, x * 58 + d, c, p, u)
      BY <1>17 DEF CarryNumber
    <2>4. CarryNumber(t, x, q, 58 * p, r * p + u)
      BY <2>2, <2>3, CarryArithmetic
    <2>5. QED BY <2>4 DEF CarryNumber
  <1>19. Power(58, 52 - (j - 1)) = 58 * p
    <2>1. 52 - j \in Nat /\ 52 - (j - 1) = (52 - j) + 1
      OBVIOUS
    <2>2. QED BY ZenonT(60), <1>15, <2>1, PowerStep
  <1>20. t = (Prefix(58, new, (j - 1) + 1) * 256 + q) * Power(58, 52 - (j - 1)) + Tail58(new, j - 1)
    <2>1. (j - 1) + 1 = j
      OBVIOUS
    <2>2. QED BY <1>12, <1>14, <1>15, <1>16, <1>18, <1>19, <2>1
  <1>21. \A i \in 1..53 : i <= (j - 1) + 1 /\ i <= s.high + 1 => new[i] = 0
    <2>1. ASSUME NEW i \in 1..53, i <= (j - 1) + 1, i <= s.high + 1 PROVE new[i] = 0
      <3>1. i <= s.j + 1 /\ i # j + 1
        BY <1>2, <2>1
      <3>2. QED BY <1>3, <1>13, <2>1, <3>1 DEF CarryAt
    <2>2. QED BY <2>1
  <1>22. CarryAt(n, t)
    <2>1. n.j \in 0..52 /\ n.high \in 0..52
      BY <1>11 DEF CarryAt
    <2>2. QED BY <1>11, <1>12, <1>20, <1>21, <2>1 DEF CarryAt
  <1>23. QED BY <1>11, <1>22, <1>r DEF n

\* The byte is done when the carry is, in the digits that were not in use.
LEMMA CarryDone ==
  ASSUME NEW s, NEW t \in Nat, CarryAt(s, t), ~Carrying(s)
  PROVE  /\ Prefix(58, s.buf, 53) = t
         /\ \A p \in 1..53 : p <= s.j + 1 => s.buf[p] = 0
  <1>1. PICK j \in 0..52 : j = s.j
    BY DEF CarryAt
  <1>2. s.high \in 0..52 /\ s.carry = 0 /\ j <= s.high
    BY <1>1 DEF CarryAt, Carrying
  <1>3. PICK buf \in Buffer58 : buf = s.buf
    BY DEF CarryAt
  <1>4. \A p \in 1..53 : p <= j + 1 => buf[p] = 0
    BY <1>1, <1>2, <1>3 DEF CarryAt
  <1>5. Prefix(58, buf, j + 1) = 0
    <2>1. PICK m \in Nat : m = j + 1
      OBVIOUS
    <2>2. \A i \in 1..m : buf[i] = 0
      BY <1>4, <2>1
    <2>3. QED BY <2>1, <2>2, PrefixZeros
  <1>6. PICK p \in Nat : p = Power(58, 52 - j)
    <2>1. 52 - j \in Nat
      OBVIOUS
    <2>2. QED BY <2>1, PowerType
  <1>7. PICK u \in Nat : u = Tail58(buf, j)
    BY TailType
  <1>8. t = (0 * 256 + 0) * p + u
    BY <1>1, <1>2, <1>3, <1>5, <1>6, <1>7 DEF CarryAt
  <1>9. Prefix(58, buf, 53) = 0 * p + u
    BY <1>5, <1>6, <1>7, BufferSplit
  <1>10. (0 * 256 + 0) * p = 0 /\ 0 * p = 0
    OBVIOUS
  <1>11. QED BY <1>1, <1>3, <1>4, <1>8, <1>9, <1>10

\* r[k] is the remainder of the first k digits.
Remainders(r, b, ds, p, n) ==
  r = [k \in 0..n |-> IF k = 0 THEN 0 ELSE (r[k-1] * b + ds[k]) % p]

\* The remainders of the beginnings of ds.
LEMMA RemaindersExist ==
  ASSUME NEW b \in Nat, NEW ds, NEW p \in Nat, p > 0, NEW n \in Nat, \A k \in 1..n : ds[k] \in Nat
  PROVE  Remainders([k \in 0..n |-> Prefix(b, ds, k) % p], b, ds, p, n)
  <1> DEFINE r == [k \in 0..n |-> Prefix(b, ds, k) % p]
  <1>1. ASSUME NEW k \in 0..n
        PROVE  r[k] = IF k = 0 THEN 0 ELSE (r[k-1] * b + ds[k]) % p
    <2>1. CASE k = 0
      <3>1. Prefix(b, ds, 0) = 0
        BY PrefixStep
      <3>2. 0 % p = 0
        BY ZeroMod
      <3>3. QED BY <2>1, <3>1, <3>2
    <2>2. CASE k # 0
      <3>1. PICK j \in Nat : j + 1 = k
        <4>1. k - 1 \in Nat /\ (k - 1) + 1 = k
          BY <2>2
        <4>2. QED BY <4>1
      <3>2. PICK x \in Nat : x = Prefix(b, ds, j)
        <4>1. \A i \in 1..j : ds[i] \in Nat
          BY <3>1
        <4>2. QED BY <4>1, PrefixType
      <3>3. PICK d \in Nat : d = ds[j + 1]
        BY <3>1
      <3>4. Prefix(b, ds, j + 1) = x * b + d
        BY <3>2, <3>3, PrefixMore
      <3>5. ((x % p) * b + d) % p = (x * b + d) % p
        <4>1. ModStep(x, b, d, p)
          BY ModMultiply
        <4>2. QED BY <4>1 DEF ModStep
      <3>6. j \in 0..n /\ k - 1 = j
        BY <3>1
      <3>7. r[j] = x % p /\ r[k] = (x * b + d) % p
        BY <3>1, <3>2, <3>4, <3>6
      <3> HIDE DEF r
      <3>8. QED BY <2>2, <3>1, <3>3, <3>5, <3>6, <3>7
    <2>3. QED BY <2>1, <2>2
  <1>2. r = [k \in 0..n |-> r[k]]
    OBVIOUS
  <1> HIDE DEF r
  <1>3. r = [k \in 0..n |-> IF k = 0 THEN 0 ELSE (r[k-1] * b + ds[k]) % p]
    BY <1>1, <1>2
  <1>4. QED BY <1>3 DEF Remainders, r

\* They are determined.
LEMMA RemaindersUnique ==
  ASSUME NEW b, NEW ds, NEW p, NEW n \in Nat, NEW r, NEW s,
         Remainders(r, b, ds, p, n), Remainders(s, b, ds, p, n)
  PROVE  r[n] = s[n]
  <1> DEFINE S == {k \in Nat : k <= n => r[k] = s[k]}
  <1>1. \A k \in 0..n : r[k] = IF k = 0 THEN 0 ELSE (r[k-1] * b + ds[k]) % p
    BY DEF Remainders
  <1>2. \A k \in 0..n : s[k] = IF k = 0 THEN 0 ELSE (s[k-1] * b + ds[k]) % p
    BY DEF Remainders
  <1>3. 0 \in S
    BY <1>1, <1>2
  <1>4. ASSUME NEW k \in Nat, k \in S PROVE k + 1 \in S
    <2>1. SUFFICES ASSUME k + 1 <= n PROVE r[k+1] = s[k+1]
      OBVIOUS
    <2>2. k + 1 \in 0..n /\ k + 1 # 0 /\ (k + 1) - 1 = k /\ r[k] = s[k]
      BY <1>4, <2>1
    <2>3. r[k+1] = (r[k] * b + ds[k+1]) % p /\ s[k+1] = (s[k] * b + ds[k+1]) % p
      BY <1>1, <1>2, <2>2
    <2>4. QED BY <2>2, <2>3
  <1> HIDE DEF S
  <1>5. Nat \subseteq S
    BY <1>3, <1>4, SetInduction
  <1>6. n \in S /\ n <= n
    BY <1>5
  <1>7. QED BY <1>6 DEF S

\* Remainder is the remainder of the number.
LEMMA RemainderIs ==
  ASSUME NEW b \in Nat, NEW ds, NEW p \in Nat, p > 0, NEW n \in Nat, Len(ds) = n,
         \A k \in 1..n : ds[k] \in Nat
  PROVE  Remainder(b, ds, p) = Prefix(b, ds, n) % p
  <1> DEFINE r == [k \in 0..n |-> Prefix(b, ds, k) % p]
             s == CHOOSE f : f = [k \in 0..n |-> IF k = 0 THEN 0 ELSE (f[k-1] * b + ds[k]) % p]
  <1>1. Remainder(b, ds, p) = s[n]
    BY DEF Remainder
  <1>2. Remainders(r, b, ds, p, n)
    BY RemaindersExist
  <1>3. r[n] = Prefix(b, ds, n) % p
    OBVIOUS
  <1> HIDE DEF r
  <1>4. Remainders(s, b, ds, p, n)
    <2>1. \E f : f = [k \in 0..n |-> IF k = 0 THEN 0 ELSE (f[k-1] * b + ds[k]) % p]
      BY <1>2 DEF Remainders
    <2>2. s = [k \in 0..n |-> IF k = 0 THEN 0 ELSE (s[k-1] * b + ds[k]) % p]
      BY <2>1
    <2>3. QED BY <2>2 DEF Remainders
  <1> HIDE DEF s
  <1>5. r[n] = s[n]
    BY <1>2, <1>4, RemaindersUnique
  <1>6. QED BY <1>1, <1>3, <1>5

----------------------------------------------------------------------------
(* The bytes of an address are a number of 52 digits. *)

\* 58^7 is more than 2^41, and 58^10 less than 2^59.
LEMMA Powers58 ==
  /\ Power(58, 52) \in Nat /\ Power(58, 51) \in Nat /\ Power(256, 37) \in Nat
  /\ 67 * Power(256, 37) <= Power(58, 52)
  /\ Power(58, 51) <= 66 * Power(256, 37)
  <1>1. PICK b \in Nat : b = 58
    OBVIOUS
  <1>2. PICK c \in Nat : c = 2
    OBVIOUS
  <1>3. PICK x1 \in Nat : Power(b, 1) = x1 /\ x1 = 58
    BY <1>1, PowerFirst
  <1>4. PICK x2 \in Nat : Power(b, 2) = x2 /\ x2 = 3364
    <2>1. Power(b, 1 + 1) = x1 * x1
      BY <1>3, PowerSum, SMT
    <2>2. x1 * x1 = 3364
      BY <1>3, SMT
    <2>3. QED BY <2>1, <2>2, SMT
  <1>5. PICK x3 \in Nat : Power(b, 3) = x3 /\ x3 = 195112
    <2>1. Power(b, 2 + 1) = x2 * x1
      BY <1>4, <1>3, PowerSum, SMT
    <2>2. x2 * x1 = 195112
      BY <1>4, <1>3, SMT
    <2>3. QED BY <2>1, <2>2, SMT
  <1>6. PICK x5 \in Nat : Power(b, 5) = x5 /\ x5 = 656356768
    <2>1. Power(b, 3 + 2) = x3 * x2
      BY <1>5, <1>4, PowerSum, SMT
    <2>2. x3 * x2 = 656356768
      BY <1>5, <1>4, SMT
    <2>3. QED BY <2>1, <2>2, SMT
  <1>7. PICK x7 \in Nat : Power(b, 7) = x7 /\ x7 = 2207984167552
    <2>1. Power(b, 5 + 2) = x5 * x2
      BY <1>6, <1>4, PowerSum, SMT
    <2>2. x5 * x2 = 2207984167552
      BY <1>6, <1>4, SMT
    <2>3. QED BY <2>1, <2>2, SMT
  <1>8. PICK x10 \in Nat : Power(b, 10) = x10 /\ x10 = 430804206899405824
    <2>1. Power(b, 5 + 5) = x5 * x5
      BY <1>6, PowerSum, SMT
    <2>2. x5 * x5 = 430804206899405824
      BY <1>6, SMT
    <2>3. QED BY <2>1, <2>2, SMT
  <1>9. PICK y1 \in Nat : Power(c, 1) = y1 /\ y1 = 2
    BY <1>2, PowerFirst
  <1>10. PICK y2 \in Nat : Power(c, 2) = y2 /\ y2 = 4
    <2>1. Power(c, 1 + 1) = y1 * y1
      BY <1>9, PowerSum, SMT
    <2>2. y1 * y1 = 4
      BY <1>9, SMT
    <2>3. QED BY <2>1, <2>2, SMT
  <1>11. PICK y4 \in Nat : Power(c, 4) = y4 /\ y4 = 16
    <2>1. Power(c, 2 + 2) = y2 * y2
      BY <1>10, PowerSum, SMT
    <2>2. y2 * y2 = 16
      BY <1>10, SMT
    <2>3. QED BY <2>1, <2>2, SMT
  <1>12. PICK y8 \in Nat : Power(c, 8) = y8 /\ y8 = 256
    <2>1. Power(c, 4 + 4) = y4 * y4
      BY <1>11, PowerSum, SMT
    <2>2. y4 * y4 = 256
      BY <1>11, SMT
    <2>3. QED BY <2>1, <2>2, SMT
  <1>13. PICK y9 \in Nat : Power(c, 9) = y9 /\ y9 = 512
    <2>1. Power(c, 8 + 1) = y8 * y1
      BY <1>12, <1>9, PowerSum, SMT
    <2>2. y8 * y1 = 512
      BY <1>12, <1>9, SMT
    <2>3. QED BY <2>1, <2>2, SMT
  <1>14. PICK y16 \in Nat : Power(c, 16) = y16 /\ y16 = 65536
    <2>1. Power(c, 8 + 8) = y8 * y8
      BY <1>12, PowerSum, SMT
    <2>2. y8 * y8 = 65536
      BY <1>12, SMT
    <2>3. QED BY <2>1, <2>2, SMT
  <1>15. PICK y32 \in Nat : Power(c, 32) = y32 /\ y32 = 4294967296
    <2>1. Power(c, 16 + 16) = y16 * y16
      BY <1>14, PowerSum, SMT
    <2>2. y16 * y16 = 4294967296
      BY <1>14, SMT
    <2>3. QED BY <2>1, <2>2, SMT
  <1>16. PICK y41 \in Nat : Power(c, 41) = y41 /\ y41 = 2199023255552
    <2>1. Power(c, 32 + 9) = y32 * y9
      BY <1>15, <1>13, PowerSum, SMT
    <2>2. y32 * y9 = 2199023255552
      BY <1>15, <1>13, SMT
    <2>3. QED BY <2>1, <2>2, SMT
  <1>17. PICK y18 \in Nat : Power(c, 18) = y18 /\ y18 = 262144
    <2>1. Power(c, 16 + 2) = y16 * y2
      BY <1>14, <1>10, PowerSum, SMT
    <2>2. y16 * y2 = 262144
      BY <1>14, <1>10, SMT
    <2>3. QED BY <2>1, <2>2, SMT
  <1>18. PICK y59 \in Nat : Power(c, 59) = y59 /\ y59 = 576460752303423488
    <2>1. Power(c, 18 + 41) = y18 * y41
      BY <1>17, <1>16, PowerSum, SMT
    <2>2. y18 * y41 = 576460752303423488
      BY <1>17, <1>16, SMT
    <2>3. QED BY <2>1, <2>2, SMT
  <1>19. y41 <= x7 /\ x10 <= y59
    BY <1>7, <1>16, <1>8, <1>18, SMT
  <1>20. PICK p \in Nat : p = Power(c, 287)
    BY PowerType
  <1>21. PICK a \in Nat : a = Power(b, 49) /\ p <= a
    <2>1. PICK n \in Nat : n = 7
      OBVIOUS
    <2>2. PICK m \in Nat : m = 41
      OBVIOUS
    <2>3. Power(y41, n) = Power(c, m * n)
      BY <2>2, <1>16, PowerOfPower
    <2>4. Power(x7, n) = Power(b, n * n)
      BY <2>1, <1>7, PowerOfPower
    <2>5. Power(y41, n) <= Power(x7, n)
      BY <1>19, PowerBase
    <2>6. m * n = 287 /\ n * n = 49
      BY <2>1, <2>2
    <2>7. PICK q \in Nat : q = Power(x7, n)
      BY PowerType
    <2>8. QED BY <1>20, <2>3, <2>4, <2>5, <2>6, <2>7
  <1>22. PICK r \in Nat : r = Power(c, 295)
    BY PowerType
  <1>23. PICK d \in Nat : d = Power(b, 50) /\ d <= r
    <2>1. PICK n \in Nat : n = 5
      OBVIOUS
    <2>2. PICK m \in Nat : m = 59
      OBVIOUS
    <2>3. PICK l \in Nat : l = 10
      OBVIOUS
    <2>4. Power(y59, n) = Power(c, m * n)
      BY <2>2, <1>18, PowerOfPower
    <2>5. Power(x10, n) = Power(b, l * n)
      BY <2>3, <1>8, PowerOfPower
    <2>6. Power(x10, n) <= Power(y59, n)
      BY <1>19, PowerBase
    <2>7. m * n = 295 /\ l * n = 50
      BY <2>1, <2>2, <2>3
    <2>8. PICK q \in Nat : q = Power(x10, n)
      BY PowerType
    <2>9. QED BY <1>22, <2>4, <2>5, <2>6, <2>7, <2>8
  <1>24. PICK t \in Nat : t = Power(256, 37) /\ t = 512 * p /\ t = 2 * r
    <2>1. PICK n \in Nat : n = 37
      OBVIOUS
    <2>2. PICK m \in Nat : m = 8
      OBVIOUS
    <2>3. Power(Power(c, m), n) = Power(c, m * n)
      BY PowerOfPower
    <2>4. Power(256, 37) = Power(c, 296)
      <3>1. m * n = 296
        BY <2>1, <2>2
      <3>2. Power(c, m) = 256
        BY <2>2, <1>12
      <3>3. QED BY <2>1, <2>3, <3>1, <3>2
    <2>5. Power(c, 287 + 9) = p * y9
      BY <1>20, <1>13, PowerSum
    <2>6. Power(c, 295 + 1) = r * y1
      BY <1>22, <1>9, PowerSum
    <2>7. p * y9 = 512 * p /\ r * y1 = 2 * r
      BY <1>13, <1>9
    <2>8. PICK q \in Nat : q = Power(c, 296)
      BY PowerType
    <2>9. q = 512 * p /\ q = 2 * r
      BY <2>5, <2>6, <2>7, <2>8
    <2>10. QED BY <2>4, <2>8, <2>9
  <1>25. PICK u \in Nat : u = Power(58, 52) /\ u = 195112 * a
    <2>1. Power(b, 49 + 3) = a * x3
      BY <1>21, <1>5, PowerSum
    <2>2. a * x3 = 195112 * a
      BY <1>5
    <2>3. QED BY <1>1, <2>1, <2>2
  <1>26. PICK v \in Nat : v = Power(58, 51) /\ v = 58 * d
    <2>1. Power(b, 50 + 1) = d * x1
      BY <1>23, <1>3, PowerSum
    <2>2. d * x1 = 58 * d
      BY <1>3
    <2>3. QED BY <1>1, <2>1, <2>2
  <1>27. 67 * t <= u /\ v <= 66 * t
    BY <1>21, <1>23, <1>24, <1>25, <1>26
  <1>28. QED BY <1>24, <1>25, <1>26, <1>27

\* What the address of the key k says.
Bin(k) == <<AddressVersion>> \o k \o SubSeq(double_sha256(<<AddressVersion>> \o k), 1, 4)

\* The bytes of an address: version, key and checksum, 38 in all.
LEMMA BinFacts ==
  ASSUME NEW k \in Keys
  PROVE  /\ Bin(k) \in Seq(0..255) /\ Len(Bin(k)) = 38 /\ Bin(k)[1] = 66
         /\ \A i \in 1..38 : Bin(k)[i] \in 0..255 /\ Bin(k)[i] \in Nat
  <1> DEFINE h == double_sha256(<<AddressVersion>> \o k)
             v == <<AddressVersion>>
             e == SubSeq(h, 1, 4)
  <1> DEFINE D == 0..255
  <1>1. k \in Seq(D) /\ Len(k) = 33 /\ h \in Seq(D) /\ Len(h) >= 4
    BY KeyAssumption
  <1>2. v \in Seq(D) /\ Len(v) = 1 /\ v[1] = 66
    BY DEF AddressVersion
  <1>3. Bin(k) = (v \o k) \o e
    BY DEF Bin
  <1>d. \A x \in D : x \in Nat /\ x \in 0..255
    OBVIOUS
  <1> HIDE DEF h, v, D
  <1>4. e \in Seq(D) /\ Len(e) = 4
    <2>1. PICK n \in Nat : n = 4 /\ n <= Len(h)
      BY <1>1
    <2>2. SubSeq(h, 1, n) \in Seq(D) /\ Len(SubSeq(h, 1, n)) = n
      BY <1>1, <2>1, FrontFacts
    <2>3. QED BY <2>1, <2>2
  <1> HIDE DEF e
  <1>5. PICK w : w = v \o k
    OBVIOUS
  <1>6. w \in Seq(D) /\ Len(w) = 34 /\ w[1] = 66
    <2>1. PICK m \in Nat : m = 1
      OBVIOUS
    <2>2. PICK n \in Nat : n = 33
      OBVIOUS
    <2>3. Concatenated(D, v \o k, v, k, m, n)
      <3>1. v \in Seq(D) /\ k \in Seq(D) /\ m \in Nat /\ n \in Nat /\ Len(v) = m /\ Len(k) = n
        BY <1>1, <1>2, <2>1, <2>2
      <3>2. QED BY <3>1, JoinFacts, Zenon
    <2>4. Concatenated(D, w, v, k, m, n)
      BY <1>5, <2>3
    <2>5. QED BY <1>2, <2>1, <2>2, <2>4 DEF Concatenated
  <1>7. PICK z : z = w \o e
    OBVIOUS
  <1>8. z \in Seq(D) /\ Len(z) = 38 /\ z[1] = 66
    <2>1. PICK m \in Nat : m = 34
      OBVIOUS
    <2>2. PICK n \in Nat : n = 4
      OBVIOUS
    <2>3. Concatenated(D, w \o e, w, e, m, n)
      <3>1. w \in Seq(D) /\ e \in Seq(D) /\ m \in Nat /\ n \in Nat /\ Len(w) = m /\ Len(e) = n
        BY <1>4, <1>6, <2>1, <2>2
      <3>2. QED BY <3>1, JoinFacts, Zenon
    <2>4. Concatenated(D, z, w, e, m, n)
      BY <1>7, <2>3
    <2>5. QED BY <1>6, <2>1, <2>2, <2>4 DEF Concatenated
  <1>9. Bin(k) = z
    BY <1>3, <1>5, <1>7
  <1>10. Bin(k) \in Seq(D) /\ Len(Bin(k)) = 38 /\ Bin(k)[1] = 66
    BY <1>8, <1>9
  <1>11. \A i \in 1..38 : Bin(k)[i] \in D
    BY <1>10, SeqElement
  <1>12. \A i \in 1..38 : Bin(k)[i] \in 0..255 /\ Bin(k)[i] \in Nat
    BY <1>11, <1>d
  <1>13. Bin(k) \in Seq(0..255)
    BY <1>10 DEF D
  <1>14. QED BY <1>10, <1>12, <1>13

\* The number of the first n bytes of an address.
BinNumber(k, n) == Prefix(256, Bin(k), n)

\* They make a number.
LEMMA BinNumberType ==
  ASSUME NEW k \in Keys, NEW n \in 0..38
  PROVE  BinNumber(k, n) \in Nat
  <1>1. PICK b \in Nat : b = 256
    OBVIOUS
  <1>2. \A i \in 1..n : Bin(k)[i] \in Nat
    <2>1. \A i \in 1..n : i \in 1..38
      OBVIOUS
    <2>2. QED BY <2>1, BinFacts
  <1>3. PICK m \in Nat : m = n
    OBVIOUS
  <1>4. Prefix(b, Bin(k), m) \in Nat
    BY <1>2, <1>3, PrefixType
  <1>5. QED BY <1>1, <1>3, <1>4 DEF BinNumber

\* It has 52 digits in base 58, neither more nor less: the first byte is 66.
LEMMA BinNumberBounds ==
  ASSUME NEW k \in Keys, NEW m \in 0..37
  PROVE  /\ BinNumber(k, m + 1) < Power(58, 52)
         /\ m = 37 => BinNumber(k, m + 1) >= Power(58, 51)
  <1> DEFINE bin == Bin(k)
             f == [i \in 1..37 |-> bin[i + 1]]
  <1>1. \A i \in 1..37 : f[i] \in Nat /\ f[i] \in 0..(256-1) /\ bin[1 + i] = f[i]
    <2>1. ASSUME NEW i \in 1..37
          PROVE  f[i] \in Nat /\ f[i] \in 0..(256-1) /\ bin[1 + i] = f[i]
      <3>1. i + 1 \in 1..38 /\ 1 + i = i + 1
        OBVIOUS
      <3>2. bin[i + 1] \in 0..255
        BY ZenonT(60), <3>1, BinFacts
      <3>3. QED BY <3>1, <3>2
    <2>2. QED BY <2>1
  <1>2. bin[1] = 66
    BY BinFacts
  <1> HIDE DEF bin, f
  <1>3. PICK b \in Nat : b = 256
    OBVIOUS
  <1>4. PICK a \in Nat : a = 1
    OBVIOUS
  <1>5. PICK n \in Nat : n = m
    OBVIOUS
  <1>6. PICK x \in Nat : x = Power(b, n)
    BY PowerType
  <1>7. PICK y \in Nat : y = Prefix(b, f, n) /\ y < x
    <2>1. ASSUME NEW i \in 1..n
          PROVE  f[i] \in 0..(b - 1)
      <3>1. i \in 1..37
        BY <1>5
      <3>2. f[i] \in 0..(256-1)
        BY <1>1, <3>1, Zenon
      <3>3. QED BY <1>3, <3>2
    <2>2. Prefix(b, f, n) \in Nat /\ Prefix(b, f, n) < Power(b, n)
      BY <2>1, PrefixBound
    <2>3. QED BY <1>6, <2>2
  <1>8. Prefix(b, bin, a + n) = 66 * x + y
    <2>1. SplitAt(bin, a, f, n)
      <3>1. \A i \in 1..a : bin[i] \in Nat
        BY <1>2, <1>4
      <3>2. ASSUME NEW i \in 1..n
            PROVE  f[i] \in Nat /\ bin[a + i] = f[i]
        <4>1. i \in 1..37
          BY <1>5
        <4>2. f[i] \in Nat /\ bin[1 + i] = f[i]
          BY <1>1, <4>1, Zenon
        <4>3. QED BY <1>4, <4>2
      <3>3. QED BY <3>1, <3>2 DEF SplitAt
    <2>2. Prefix(b, bin, a + n) = Prefix(b, bin, a) * Power(b, n) + Prefix(b, f, n)
      BY <2>1, PrefixSplit
    <2>3. PICK d \in Nat : d = 66 /\ bin[1] = d
      BY <1>2
    <2>4. Prefix(b, bin, 1) = d
      BY <2>3, PrefixOne
    <2>5. QED BY <1>4, <1>6, <1>7, <2>2, <2>3, <2>4
  <1>9. PICK z \in Nat : z = Power(b, 37) /\ x <= z
    <2>1. PICK h \in Nat : h = 37
      OBVIOUS
    <2>2. PICK z \in Nat : z = Power(b, h)
      BY PowerType
    <2>3. x <= z
      BY <1>3, <1>5, <1>6, <2>1, <2>2, PowerMonotone
    <2>4. QED BY <2>1, <2>2, <2>3
  <1>10. PICK u \in Nat : u = Power(58, 52) /\ 67 * z <= u
    BY <1>3, <1>9, Powers58
  <1>11. PICK v \in Nat : v = Power(58, 51) /\ v <= 66 * z
    BY <1>3, <1>9, Powers58
  <1>12. BinNumber(k, m + 1) = 66 * x + y
    <2>1. a + n = m + 1
      BY <1>4, <1>5
    <2>2. QED BY <1>3, <1>8, <2>1 DEF BinNumber, bin
  <1>13. 66 * x + y < u
    BY <1>7, <1>9, <1>10
  <1>14. m = 37 => 66 * x + y >= v
    BY <1>5, <1>6, <1>9, <1>11
  <1>15. QED BY <1>10, <1>11, <1>12, <1>13, <1>14

\* The first digit that counts is the second one.
LEMMA FirstDigit ==
  ASSUME NEW buf \in Buffer58, NEW t \in Nat, Prefix(58, buf, 53) = t,
         Power(58, 51) <= t, t < Power(58, 52)
  PROVE  buf[1] = 0 /\ buf[2] # 0
  <1>1. PICK x \in Nat : x = buf[1]
    BY BufferDigit
  <1>2. PICK y \in Nat : y = buf[2]
    BY BufferDigit
  <1>3. Prefix(58, buf, 1) = x
    BY <1>1, PrefixOne
  <1>4. x = 0
    <2>1. PICK p \in Nat : p = Power(58, 52)
      BY PowerType
    <2>2. PICK u \in Nat : u = Tail58(buf, 0)
      BY TailType
    <2>3. t = x * p + u
      <3>1. Prefix(58, buf, 53) = Prefix(58, buf, 0 + 1) * Power(58, 52 - 0) + Tail58(buf, 0)
        BY BufferSplit
      <3>2. 0 + 1 = 1 /\ 52 - 0 = 52
        OBVIOUS
      <3>3. QED BY <1>3, <2>1, <2>2, <3>1, <3>2
    <2>4. SUFFICES ASSUME x > 0 PROVE FALSE
      OBVIOUS
    <2>5. PICK e \in Nat : x = e + 1
      <3>1. x - 1 \in Nat /\ x = (x - 1) + 1
        BY <2>4
      <3>2. QED BY <3>1
    <2>6. (e + 1) * p = e * p + p /\ e * p \in Nat
      OBVIOUS
    <2>7. QED BY <2>1, <2>3, <2>5, <2>6
  <1>5. y # 0
    <2>1. SUFFICES ASSUME y = 0 PROVE FALSE
      OBVIOUS
    <2>2. PICK p \in Nat : p = Power(58, 51)
      BY PowerType
    <2>3. PICK u \in Nat : u = Tail58(buf, 1) /\ u < p
      <3>1. 1 \in 0..52 /\ 52 - 1 = 51
        OBVIOUS
      <3>2. QED BY <2>2, <3>1, TailType
    <2>4. Prefix(58, buf, 2) = 0
      <3>1. \A i \in 1..2 : buf[i] = 0
        <4>1. \A i \in 1..2 : i = 1 \/ i = 2
          OBVIOUS
        <4>2. buf[1] = 0 /\ buf[2] = 0
          BY <1>1, <1>2, <1>4, <2>1
        <4>3. QED BY <4>1, <4>2
      <3>2. QED BY <3>1, PrefixZeros
    <2>5. t = 0 * p + u
      <3>1. 1 \in 0..52
        OBVIOUS
      <3>2. Prefix(58, buf, 53) = Prefix(58, buf, 1 + 1) * Power(58, 52 - 1) + Tail58(buf, 1)
        BY <3>1, BufferSplit
      <3>3. 1 + 1 = 2 /\ 52 - 1 = 51
        OBVIOUS
      <3>4. QED BY <2>2, <2>3, <2>4, <3>2, <3>3
    <2>6. 0 * p = 0
      OBVIOUS
    <2>7. QED BY <2>2, <2>3, <2>5, <2>6
  <1>6. QED BY <1>1, <1>2, <1>4, <1>5

\* LeadingZeros counts the zeros at the beginning.
LEMMA LeadingZerosIs ==
  ASSUME NEW bin, NEW l \in Nat, Len(bin) = l, NEW m \in 0..l,
         \A k \in 1..m : bin[k] = 0,
         \A k \in 1..l : k = m + 1 => bin[k] # 0
  PROVE  LeadingZeros(bin) = m
  <1> DEFINE S == {n \in 0..l : \A k \in 1..n : bin[k] = 0}
  <1>1. m \in S
    OBVIOUS
  <1>2. \A n \in S : n <= m
    <2>1. ASSUME NEW n \in S, ~(n <= m) PROVE FALSE
      <3>1. n \in 0..l /\ \A k \in 1..n : bin[k] = 0
        BY <2>1
      <3>2. PICK k \in 1..l : k = m + 1 /\ k \in 1..n
        BY <2>1, <3>1
      <3>3. QED BY <3>1, <3>2
    <2>2. QED BY <2>1
  <1>3. S \in SUBSET (0..l) /\ S # {}
    BY <1>1
  <1>4. LeadingZeros(bin) = Max(S)
    BY DEF LeadingZeros
  <1> HIDE DEF S
  <1>5. Max(S) \in S /\ m <= Max(S)
    BY <1>1, <1>3, MaxOfBounded
  <1>6. Max(S) <= m
    BY <1>2, <1>5
  <1>7. PICK x \in 0..l : x = Max(S)
    BY <1>3, <1>5
  <1>8. QED BY <1>4, <1>5, <1>6, <1>7

\* An address has none: the version comes first.
LEMMA NoLeadingZero ==
  ASSUME NEW k \in Keys
  PROVE  LeadingZeros(Bin(k)) = 0
  <1>1. PICK bin : bin = Bin(k)
    OBVIOUS
  <1>2. Len(bin) = 38 /\ bin[1] = 66
    BY <1>1, BinFacts
  <1>3. \A q \in 1..0 : bin[q] = 0
    OBVIOUS
  <1>4. \A q \in 1..38 : q = 0 + 1 => bin[q] # 0
    BY <1>2
  <1>5. PICK l \in Nat : l = 38
    OBVIOUS
  <1>6. PICK m \in 0..l : m = 0
    BY <1>5
  <1>7. LeadingZeros(bin) = m
    <2>1. \A q \in 1..m : bin[q] = 0
      BY <1>6
    <2>2. \A q \in 1..l : q = m + 1 => bin[q] # 0
      BY <1>4, <1>5, <1>6
    <2>3. Len(bin) = l
      BY <1>2, <1>5
    <2>4. QED BY <2>1, <2>2, <2>3, LeadingZerosIs
  <1>8. QED BY <1>1, <1>6, <1>7

\* The work on the bytes of s.bin: buf holds the number of those before byte i,
\* and has zeros up to index high.
ByteAt(s, k) ==
  /\ s.i \in 0..38 /\ s.buf \in Buffer58 /\ s.high \in 0..52
  /\ \A p \in 1..53 : p <= s.high + 1 => s.buf[p] = 0
  /\ Prefix(58, s.buf, 53) = BinNumber(k, s.i)

\* base58_encode before its loop.
LEMMA BeginAddress ==
  ASSUME NEW k \in Keys, NEW s, s = encode_account(k)
  PROVE  BaseRecord(s) /\ s.bin = Bin(k) /\ s.overrun = FALSE /\ ByteAt(s, k)
  <1>1. PICK bin : bin = Bin(k)
    OBVIOUS
  <1>2. Len(bin) = 38 /\ LeadingZeros(bin) = 0
    BY <1>1, BinFacts, NoLeadingZero
  <1>3. s = base58_begin(bin)
    BY <1>1 DEF encode_account, base58check_encode, Bin
  <1>4. BufferSize(38 - 0) = 53
    BY DEF BufferSize
  <1> DEFINE buf == [q \in 1..53 |-> 0]
  <1>5. s = [bin |-> bin, i |-> 0, buf |-> buf, carry |-> 0, j |-> 0,
             high |-> 52, overrun |-> FALSE]
    <2>1. PICK z \in Nat : z = LeadingZeros(bin) /\ z = 0
      BY <1>2
    <2>2. PICK size \in Nat : size = BufferSize(Len(bin) - z) /\ size = 53
      BY <1>2, <1>4, <2>1
    <2>3. s = [bin |-> bin, i |-> z, buf |-> [q \in 1..size |-> 0], carry |-> 0, j |-> 0,
               high |-> size - 1, overrun |-> FALSE]
      BY <1>3, <2>1, <2>2, Zenon DEF base58_begin
    <2>4. size - 1 = 52
      BY <2>2
    <2>5. QED BY <2>1, <2>2, <2>3, <2>4
  <1>6. buf \in Buffer58 /\ \A q \in 1..53 : buf[q] = 0
    BY DEF Buffer58, Digit58
  <1> HIDE DEF buf
  <1>7. Prefix(58, buf, 53) = 0
    BY <1>6, PrefixZeros
  <1>8. BinNumber(k, 0) = 0
    BY PrefixStep DEF BinNumber
  <1>9. BaseRecord(s)
    BY <1>5 DEF BaseRecord, BaseFields
  <1>10. /\ s.bin = bin /\ s.i = 0 /\ s.buf = buf /\ s.high = 52 /\ s.overrun = FALSE
    BY <1>5
  <1>11. ByteAt(s, k)
    BY <1>6, <1>7, <1>8, <1>10 DEF ByteAt
  <1>12. QED BY <1>1, <1>9, <1>10, <1>11

\* Before the loop over the digits for a byte.
LEMMA BeginByteAt ==
  ASSUME NEW k \in Keys, NEW s, BaseRecord(s), ByteAt(s, k), s.bin = Bin(k), s.i # 38
  PROVE  LET n == BeginByte(s)
         IN  /\ BaseRecord(n) /\ n.bin = s.bin /\ n.i = s.i /\ n.overrun = s.overrun
             /\ s.i \in 0..37 /\ CarryAt(n, BinNumber(k, s.i + 1))
  <1>1. PICK i \in 0..37 : i = s.i
    BY DEF ByteAt
  <1>2. PICK buf \in Buffer58 : buf = s.buf
    BY DEF ByteAt
  <1>3. PICK c \in Nat : c = s.bin[i + 1]
    <2>1. i + 1 \in 1..38
      OBVIOUS
    <2>2. QED BY ZenonT(60), <2>1, BinFacts
  <1>4. PICK n : n = BeginByte(s)
    OBVIOUS
  <1>5. Len(buf) - 1 = 52
    BY DEF Buffer58
  <1>6. n = [s EXCEPT !.carry = c, !.j = 52]
    BY <1>1, <1>2, <1>3, <1>4, <1>5 DEF BeginByte
  <1>7. DOMAIN s = BaseFields
    BY DEF BaseRecord
  <1>8. /\ n.buf = buf /\ n.carry = c /\ n.j = 52 /\ n.high = s.high
        /\ n.bin = s.bin /\ n.i = s.i /\ n.overrun = s.overrun
    BY <1>2, <1>6, <1>7 DEF BaseFields
  <1>9. BaseRecord(n)
    <2>1. DOMAIN n = BaseFields
      BY <1>6, <1>7
    <2>2. n = [f \in BaseFields |-> n[f]]
      BY <1>6, <2>1
    <2>3. QED BY <2>2 DEF BaseRecord
  <1>10. BinNumber(k, i + 1) = BinNumber(k, i) * 256 + c
    <2>1. PICK b \in Nat : b = 256
      OBVIOUS
    <2>2. PICK m \in Nat : m = i
      OBVIOUS
    <2>3. PICK x \in Nat : x = Prefix(b, Bin(k), m)
      <3>1. i \in 0..38
        OBVIOUS
      <3>2. QED BY <2>1, <2>2, <3>1, BinNumberType DEF BinNumber
    <2>4. Bin(k)[m + 1] = c
      BY <1>3, <2>2
    <2>5. Prefix(b, Bin(k), m + 1) = x * b + c
      BY <2>3, <2>4, PrefixMore
    <2>6. QED BY <2>1, <2>2, <2>3, <2>5 DEF BinNumber
  <1>11. Tail58(buf, 52) = 0
    <2>1. Prefix(58, TailDigits(buf, 52), 0) = 0
      BY PrefixStep
    <2>2. 52 - 52 = 0
      OBVIOUS
    <2>3. QED BY <2>1, <2>2 DEF Tail58
  <1>12. Power(58, 0) = 1
    BY PowerStep
  <1>13. PICK x \in Nat : x = Prefix(58, buf, 53) /\ x = BinNumber(k, i)
    <2>1. i \in 0..38
      OBVIOUS
    <2>2. QED BY <1>1, <1>2, <2>1, BinNumberType DEF ByteAt
  <1>14. BinNumber(k, i + 1) = (Prefix(58, buf, 52 + 1) * 256 + c) * Power(58, 52 - 52) + Tail58(buf, 52)
    <2>1. 52 + 1 = 53 /\ 52 - 52 = 0
      OBVIOUS
    <2>2. PICK y \in Nat : y = x * 256 + c
      OBVIOUS
    <2>3. y = y * 1 + 0
      OBVIOUS
    <2>4. QED BY <1>10, <1>11, <1>12, <1>13, <2>1, <2>2, <2>3
  <1>15. CarryAt(n, BinNumber(k, i + 1))
    <2>1. n.j \in 0..52 /\ n.high \in 0..52
      BY <1>8 DEF ByteAt
    <2>2. \A p \in 1..53 : p <= n.j + 1 /\ p <= n.high + 1 => n.buf[p] = 0
      BY <1>2, <1>8 DEF ByteAt
    <2>3. QED BY <1>8, <1>14, <2>1, <2>2 DEF CarryAt
  <1>16. QED BY <1>1, <1>4, <1>8, <1>9, <1>15

\* After that loop the buffer is the number of one byte more.
LEMMA EndByteAt ==
  ASSUME NEW k \in Keys, NEW s, BaseRecord(s), s.i \in 0..37,
         CarryAt(s, BinNumber(k, s.i + 1)), ~Carrying(s)
  PROVE  LET n == EndByte(s)
         IN  BaseRecord(n) /\ n.bin = s.bin /\ n.overrun = s.overrun /\ ByteAt(n, k)
  <1>1. PICK i \in 0..37 : i = s.i
    OBVIOUS
  <1>2. PICK t \in Nat : t = BinNumber(k, i + 1)
    <2>1. i + 1 \in 0..38
      OBVIOUS
    <2>2. QED BY <2>1, BinNumberType
  <1>3. CarryAt(s, t)
    BY <1>1, <1>2
  <1>4. Prefix(58, s.buf, 53) = t /\ \A p \in 1..53 : p <= s.j + 1 => s.buf[p] = 0
    BY <1>3, CarryDone
  <1>5. s.buf \in Buffer58 /\ s.j \in 0..52
    BY <1>3 DEF CarryAt
  <1>6. PICK n : n = EndByte(s)
    OBVIOUS
  <1>7. DOMAIN s = BaseFields
    BY DEF BaseRecord
  <1>8. n = [s EXCEPT !.high = s.j, !.i = i + 1]
    BY <1>1, <1>6 DEF EndByte
  <1>9. /\ n.buf = s.buf /\ n.high = s.j /\ n.i = i + 1 /\ n.bin = s.bin /\ n.overrun = s.overrun
    BY <1>7, <1>8 DEF BaseFields
  <1>10. BaseRecord(n)
    <2>1. DOMAIN n = BaseFields
      BY <1>7, <1>8
    <2>2. n = [f \in BaseFields |-> n[f]]
      BY <1>8, <2>1
    <2>3. QED BY <2>2 DEF BaseRecord
  <1>11. i + 1 \in 0..38
    OBVIOUS
  <1>12. ByteAt(n, k)
    BY <1>2, <1>4, <1>5, <1>9, <1>11 DEF ByteAt
  <1>13. QED BY <1>6, <1>9, <1>10, <1>12

\* The characters of the digits are distinct, in ascending order.
LEMMA DigitTable ==
  /\ Len(b58digits_ordered) = 58
  /\ \A i \in 1..58 : b58digits_ordered[i] \in Nat
  /\ \A i \in 1..58, j \in 1..58 : i < j => b58digits_ordered[i] < b58digits_ordered[j]
  <1>1. Len(b58digits_ordered) = 58
    BY DEF b58digits_ordered
  <1>2. ASSUME NEW i \in 1..58
        PROVE  \/ i \in 1..9   /\ b58digits_ordered[i] = 48 + i
               \/ i \in 10..17 /\ b58digits_ordered[i] = 55 + i
               \/ i \in 18..22 /\ b58digits_ordered[i] = 56 + i
               \/ i \in 23..33 /\ b58digits_ordered[i] = 57 + i
               \/ i \in 34..44 /\ b58digits_ordered[i] = 63 + i
               \/ i \in 45..58 /\ b58digits_ordered[i] = 64 + i
    BY DEF b58digits_ordered
  <1>3. \A i \in 1..58 : b58digits_ordered[i] \in Nat
    <2>1. ASSUME NEW i \in 1..58 PROVE b58digits_ordered[i] \in Nat
      BY <1>2
    <2>2. QED BY <2>1
  <1>4. ASSUME NEW i \in 1..58, NEW j \in 1..58, i < j
        PROVE  b58digits_ordered[i] < b58digits_ordered[j]
    <2>1. PICK x \in Nat : x = b58digits_ordered[i]
      BY <1>3
    <2>2. PICK y \in Nat : y = b58digits_ordered[j]
      BY <1>3
    <2>3. \/ i \in 1..9   /\ x = 48 + i
          \/ i \in 10..17 /\ x = 55 + i
          \/ i \in 18..22 /\ x = 56 + i
          \/ i \in 23..33 /\ x = 57 + i
          \/ i \in 34..44 /\ x = 63 + i
          \/ i \in 45..58 /\ x = 64 + i
      BY <1>2, <2>1
    <2>4. \/ j \in 1..9   /\ y = 48 + j
          \/ j \in 10..17 /\ y = 55 + j
          \/ j \in 18..22 /\ y = 56 + j
          \/ j \in 23..33 /\ y = 57 + j
          \/ j \in 34..44 /\ y = 63 + j
          \/ j \in 45..58 /\ y = 64 + j
      BY <1>2, <2>2
    <2>5. x < y
      BY <1>4, <2>3, <2>4
    <2>6. QED BY <2>1, <2>2, <2>5
  <1>5. QED BY <1>1, <1>3, <1>4

\* Every digit has a character of its own.
LEMMA DigitFound ==
  ASSUME NEW i \in 1..58, NEW v, v = b58digits_ordered[i]
  PROVE  DigitValue(v) = i - 1
  <1> DEFINE S == {j \in 1..58 : b58digits_ordered[j] = b58digits_ordered[i]}
  <1>1. ASSUME NEW j \in S PROVE j = i
    <2>1. PICK x \in Nat : x = b58digits_ordered[i]
      BY DigitTable
    <2>2. j \in 1..58 /\ b58digits_ordered[j] = x
      BY <1>1, <2>1
    <2>3. ~(i < j)
      <3>1. ~(x < x)
        OBVIOUS
      <3>2. i < j => x < x
        BY ZenonT(60), <2>1, <2>2, DigitTable
      <3>3. QED BY <3>1, <3>2
    <2>4. ~(j < i)
      <3>1. ~(x < x)
        OBVIOUS
      <3>2. j < i => x < x
        BY ZenonT(60), <2>1, <2>2, DigitTable
      <3>3. QED BY <3>1, <3>2
    <2>5. QED BY <2>2, <2>3, <2>4
  <1>2. i \in S
    OBVIOUS
  <1>3. DigitValue(v) = Min(S) - 1
    <2>1. S = {j \in 1..Len(b58digits_ordered) : b58digits_ordered[j] = v}
      BY DigitTable
    <2>2. S # {}
      BY <1>2
    <2> HIDE DEF S
    <2>3. QED BY <2>1, <2>2, Zenon DEF DigitValue, SelectInSeq
  <1>4. S \in SUBSET Nat
    OBVIOUS
  <1> HIDE DEF S
  <1>5. Min(S) \in S
    <2>1. S # {}
      BY <1>2
    <2>2. QED BY <1>4, <2>1, MinOfNat
  <1>6. QED BY <1>1, <1>3, <1>5

\* The text when the work is over: the digits from the second one on.
LEMMA AddressDigits ==
  ASSUME NEW k \in Keys, NEW s, ByteAt(s, k), s.i = 38, s.bin = Bin(k),
         NEW text, text = base58_end(s, RecipientSize)
  PROVE  /\ Len(text) = 52 /\ Len(Digits58(text)) = 52
         /\ \A q \in 1..52 : Digits58(text)[q] = s.buf[1 + q]
         /\ s.buf \in Buffer58 /\ s.buf[1] = 0
         /\ Prefix(58, s.buf, 53) = BinNumber(k, 38)
  <1>1. PICK buf \in Buffer58 : buf = s.buf
    BY DEF ByteAt
  <1>2. PICK t \in Nat : t = BinNumber(k, 38)
    <2>1. 38 \in 0..38
      OBVIOUS
    <2>2. QED BY <2>1, BinNumberType
  <1>3. Prefix(58, buf, 53) = t
    BY <1>1, <1>2 DEF ByteAt
  <1>4. buf[1] = 0 /\ buf[2] # 0
    <2>1. PICK m \in 0..37 : m = 37
      OBVIOUS
    <2>2. BinNumber(k, m + 1) < Power(58, 52) /\ BinNumber(k, m + 1) >= Power(58, 51)
      BY <2>1, BinNumberBounds
    <2>3. m + 1 = 38
      BY <2>1
    <2>4. t < Power(58, 52) /\ t >= Power(58, 51)
      BY <1>2, <2>2, <2>3
    <2>5. PICK p \in Nat : p = Power(58, 51)
      BY PowerType
    <2>6. Power(58, 51) <= t
      BY <2>4, <2>5
    <2>7. QED BY <1>3, <2>4, <2>6, FirstDigit
  <1>5. Len(buf) = 53 /\ buf \in Seq(Digit58)
    <2>1. buf \in [1..53 -> Digit58]
      BY DEF Buffer58
    <2>2. Len(buf) = 53
      BY <2>1
    <2>3. buf \in Seq(Digit58)
      BY <2>1, SequenceOf
    <2>4. QED BY <2>2, <2>3
  <1>6. LeadingZeros(buf) = 1
    <2>1. PICK l \in Nat : l = 53
      OBVIOUS
    <2>2. PICK m \in 0..l : m = 1
      BY <2>1
    <2>3. \A q \in 1..m : buf[q] = 0
      BY <1>4, <2>2
    <2>4. \A q \in 1..l : q = m + 1 => buf[q] # 0
      BY <1>4, <2>2
    <2>5. LeadingZeros(buf) = m
      <3>1. l \in Nat /\ m \in 0..l /\ Len(buf) = l
        BY <1>5, <2>1
      <3>2. QED BY <2>3, <2>4, <3>1, LeadingZerosIs, Zenon
    <2>6. QED BY <2>2, <2>5
  <1> DEFINE figures == SubSeq(buf, 2, 53)
  <1>7. Len(figures) = 52 /\ \A q \in 1..52 : figures[q] = buf[1 + q]
    <2>1. Len(figures) = 52
      BY <1>5
    <2>2. ASSUME NEW q \in 1..52 PROVE figures[q] = buf[1 + q]
      BY <1>5
    <2>3. QED BY <2>1, <2>2
  <1> HIDE DEF figures
  <1>8. text = [q \in 1..52 |-> b58digits_ordered[1 + figures[q]]]
    <2>1. LeadingZeros(s.bin) = 0
      BY NoLeadingZero
    <2>2. figures = SubSeq(s.buf, LeadingZeros(s.buf) + 1, Len(s.buf))
      <3>1. 1 + 1 = 2
        OBVIOUS
      <3>2. SubSeq(buf, LeadingZeros(buf) + 1, Len(buf)) = SubSeq(buf, 1 + 1, 53)
        BY <1>5, <1>6
      <3>3. SubSeq(buf, 1 + 1, 53) = figures
        BY <3>1 DEF figures
      <3>4. QED BY <1>1, <3>2, <3>3
    <2>3. PICK z \in Nat : z = LeadingZeros(s.bin) /\ z = 0
      BY <2>1
    <2>4. ~(RecipientSize <= z + Len(figures)) /\ z + Len(figures) = 52
      BY <1>7, <2>3, KeyAssumption
    <2>5. text = [q \in 1..(z + Len(figures)) |->
                    b58digits_ordered[1 + IF q <= z THEN 0 ELSE figures[q - z]]]
      BY <2>2, <2>3, <2>4, Zenon DEF base58_end
    <2>6. text = [q \in 1..52 |-> b58digits_ordered[1 + IF q <= z THEN 0 ELSE figures[q - z]]]
      BY <2>4, <2>5
    <2>7. ASSUME NEW q \in 1..52
          PROVE  b58digits_ordered[1 + IF q <= z THEN 0 ELSE figures[q - z]]
                   = b58digits_ordered[1 + figures[q]]
      <3>1. ~(q <= z) /\ q - z = q
        BY <2>3
      <3>2. QED BY <3>1
    <2>8. QED BY <2>6, <2>7, Zenon
  <1>9. Len(text) = 52
    BY <1>8
  <1>10. Digits58(text) = [q \in 1..52 |-> DigitValue(text[q])]
    BY <1>9 DEF Digits58
  <1>11. ASSUME NEW q \in 1..52 PROVE Digits58(text)[q] = buf[1 + q]
    <2>1. PICK d \in 0..57 : d = buf[1 + q]
      <3>1. 1 + q \in 1..53
        OBVIOUS
      <3>2. QED BY <3>1, BufferDigit DEF Digit58
    <2>2. PICK i \in 1..58 : i = 1 + d
      OBVIOUS
    <2>3. text[q] = b58digits_ordered[i]
      <3>1. text[q] = b58digits_ordered[1 + figures[q]]
        BY <1>8
      <3>2. QED BY <1>7, <2>1, <2>2, <3>1
    <2>4. DigitValue(text[q]) = i - 1
      BY <2>3, DigitFound
    <2>5. Digits58(text)[q] = i - 1
      BY <1>10, <2>4
    <2>6. QED BY <2>1, <2>2, <2>5
  <1>12. Len(Digits58(text)) = 52
    BY <1>10
  <1>13. QED BY <1>1, <1>2, <1>3, <1>4, <1>9, <1>11, <1>12

\* base58_encode at work, on a byte or between two of them.
BaseInv ==
  /\ base58.overrun = FALSE
  /\ field \in {"base58", "carry"} =>
       bytes \in Keys /\ base58.bin = Bin(bytes) /\ BaseRecord(base58)
  /\ field = "base58" => ByteAt(base58, bytes)
  /\ field = "carry" =>
       base58.i \in 0..37 /\ CarryAt(base58, BinNumber(bytes, base58.i + 1))

\* The text has its length and says the bytes.
AddressRead ==
  field = "recipient" =>
    /\ Len(recipient_address) = RecipientSize - 1
    /\ Value(58, Digits58(recipient_address)) = Value(256, Bin(bytes))
    /\ \A p \in Primes :
         Remainder(58, Digits58(recipient_address), p) = Remainder(256, Bin(bytes), p)

\* The inductive invariant of an address.
AddressInv == BaseInv /\ AddressRead

\* The figures and the bytes are the same number.
LEMMA AddressSame ==
  ASSUME NEW k \in Keys, NEW buf \in Buffer58, buf[1] = 0,
         NEW ds, Len(ds) = 52, \A q \in 1..52 : ds[q] = buf[1 + q],
         Prefix(58, buf, 53) = BinNumber(k, 38), NEW p \in Nat, p > 0
  PROVE  /\ Prefix(58, ds, 52) = Prefix(256, Bin(k), 38)
         /\ Remainder(58, ds, p) = Remainder(256, Bin(k), p)
  <1>1. PICK b \in Nat : b = 58
    OBVIOUS
  <1>2. PICK c \in Nat : c = 256
    OBVIOUS
  <1>3. PICK n \in Nat : n = 52
    OBVIOUS
  <1>4. PICK m \in Nat : m = 38
    OBVIOUS
  <1>5. \A q \in 1..n : ds[q] \in Nat /\ buf[1 + q] = ds[q]
    <2>1. \A q \in 1..n : 1 + q \in 1..53
      BY <1>3
    <2>2. \A q \in 1..n : buf[1 + q] \in Nat
      BY <2>1, BufferDigit
    <2>3. QED BY <1>3, <2>2
  <1>6. Prefix(b, buf, 53) = Prefix(b, ds, n)
    <2>1. PICK a \in Nat : a = 1
      OBVIOUS
    <2>2. SplitAt(buf, a, ds, n)
      <3>1. \A i \in 1..a : buf[i] \in Nat
        BY <2>1
      <3>2. QED BY <1>5, <2>1, <3>1 DEF SplitAt
    <2>3. Prefix(b, buf, a + n) = Prefix(b, buf, a) * Power(b, n) + Prefix(b, ds, n)
      BY <2>2, PrefixSplit
    <2>4. Prefix(b, buf, a) = 0
      <3>1. Prefix(b, buf, 1) = 0
        BY PrefixOne
      <3>2. QED BY <2>1, <3>1
    <2>5. PICK x \in Nat : x = Power(b, n)
      BY PowerType
    <2>6. PICK y \in Nat : y = Prefix(b, ds, n)
      <3>1. \A q \in 1..n : ds[q] \in Nat
        BY <1>5
      <3>2. QED BY <3>1, PrefixType
    <2>7. a + n = 53 /\ 0 * x + y = y
      BY <1>3, <2>1
    <2>8. QED BY <2>3, <2>4, <2>5, <2>6, <2>7
  <1>7. Remainder(b, ds, p) = Prefix(b, ds, n) % p
    <2>1. \A q \in 1..n : ds[q] \in Nat
      BY <1>5
    <2>2. Len(ds) = n
      BY <1>3
    <2>3. PICK es : es = ds
      OBVIOUS
    <2>4. \A q \in 1..n : es[q] \in Nat
      BY <2>1, <2>3
    <2>5. Len(es) = n
      BY <2>2, <2>3
    <2>6. Remainder(b, es, p) = Prefix(b, es, n) % p
      BY <2>4, <2>5, RemainderIs
    <2>7. QED BY <2>3, <2>6
  <1>8. Remainder(c, Bin(k), p) = Prefix(c, Bin(k), m) % p
    <2>1. Len(Bin(k)) = m /\ \A q \in 1..m : Bin(k)[q] \in Nat
      BY <1>4, BinFacts
    <2>2. QED BY <2>1, RemainderIs
  <1>9. Prefix(b, ds, n) = Prefix(c, Bin(k), m)
    BY <1>1, <1>2, <1>4, <1>6 DEF BinNumber
  <1>10. Remainder(b, ds, p) = Remainder(c, Bin(k), p)
    BY <1>7, <1>8, <1>9
  <1>11. QED BY <1>1, <1>2, <1>3, <1>4, <1>9, <1>10

\* Before the first conversion nothing is written.
LEMMA AddressInitially == Init => AddressInv
  <1>1. base58_begin(<<>>).overrun = FALSE
    BY DEF base58_begin
  <1>2. QED BY <1>1 DEF Init, AddressInv, BaseInv, AddressRead

\* An address begins.
LEMMA AddressBegins ==
  ASSUME EncodeRecipient
  PROVE  AddressInv'
  <1>1. field' = "base58" /\ bytes' \in Keys /\ base58' = encode_account(bytes')
    BY DEF EncodeRecipient
  <1>2. BaseRecord(base58') /\ base58'.bin = Bin(bytes') /\ base58'.overrun = FALSE /\ ByteAt(base58', bytes')
    BY <1>1, BeginAddress
  <1>3. QED BY <1>1, <1>2 DEF AddressInv, BaseInv, AddressRead

\* A byte of it begins.
LEMMA AddressByte ==
  ASSUME AddressInv, EncodeByte
  PROVE  AddressInv'
  <1>1. field = "base58" /\ field' = "carry" /\ bytes' = bytes /\ base58' = BeginByte(base58)
        /\ base58.i < Len(base58.bin)
    BY DEF EncodeByte
  <1>2. bytes \in Keys /\ base58.bin = Bin(bytes) /\ BaseRecord(base58) /\ ByteAt(base58, bytes)
        /\ base58.overrun = FALSE
    BY <1>1 DEF AddressInv, BaseInv
  <1>3. base58.i # 38
    <2>1. Len(Bin(bytes)) = 38
      BY <1>2, BinFacts
    <2>2. Len(base58.bin) = 38
      BY <1>2, <2>1, Zenon
    <2>3. PICK i \in 0..38 : i = base58.i
      BY <1>2 DEF ByteAt
    <2>4. QED BY <1>1, <2>2, <2>3
  <1> DEFINE n == BeginByte(base58)
  <1>4. /\ BaseRecord(n) /\ n.bin = base58.bin /\ n.i = base58.i /\ n.overrun = base58.overrun
        /\ base58.i \in 0..37 /\ CarryAt(n, BinNumber(bytes, base58.i + 1))
    BY <1>2, <1>3, BeginByteAt
  <1> HIDE DEF n
  <1>5. base58' = n
    BY <1>1 DEF n
  <1>6. QED BY <1>1, <1>2, <1>4, <1>5 DEF AddressInv, BaseInv, AddressRead

\* A digit is worked off, or the byte ends.
LEMMA AddressCarry ==
  ASSUME AddressInv, Carry
  PROVE  AddressInv'
  <1>1. field = "carry" /\ bytes' = bytes
    BY DEF Carry
  <1>2. bytes \in Keys /\ base58.bin = Bin(bytes) /\ BaseRecord(base58) /\ base58.overrun = FALSE
        /\ base58.i \in 0..37 /\ CarryAt(base58, BinNumber(bytes, base58.i + 1))
    BY <1>1 DEF AddressInv, BaseInv
  <1>3. CASE Carrying(base58)
    <2>1. base58' = CarryStep(base58) /\ field' = "carry"
      BY <1>1, <1>3 DEF Carry
    <2>2. PICK m \in 0..37 : m = base58.i
      BY <1>2
    <2>3. PICK t \in Nat : t = BinNumber(bytes, m + 1)
      <3>1. m + 1 \in 0..38
        OBVIOUS
      <3>2. QED BY <1>2, <3>1, BinNumberType
    <2>4. t < Power(58, 52)
      BY <1>2, <2>3, BinNumberBounds
    <2>5. CarryAt(base58, t)
      BY <1>2, <2>2, <2>3
    <2> DEFINE n == CarryStep(base58)
    <2>6. CarryAt(n, t) /\ n.overrun = FALSE /\ n.bin = base58.bin /\ n.i = base58.i /\ BaseRecord(n)
      BY <1>2, <1>3, <2>4, <2>5, CarryStepAt, Zenon
    <2> HIDE DEF n
    <2>7. base58' = n
      BY <2>1 DEF n
    <2>8. CarryAt(n, BinNumber(bytes, n.i + 1))
      BY <2>2, <2>3, <2>6
    <2>9. QED BY <1>1, <1>2, <2>1, <2>6, <2>7, <2>8 DEF AddressInv, BaseInv, AddressRead
  <1>4. CASE ~Carrying(base58)
    <2>1. base58' = EndByte(base58) /\ field' = "base58"
      BY <1>1, <1>4 DEF Carry
    <2> DEFINE n == EndByte(base58)
    <2>2. BaseRecord(n) /\ n.bin = base58.bin /\ n.overrun = base58.overrun /\ ByteAt(n, bytes)
      BY <1>2, <1>4, EndByteAt, Zenon
    <2> HIDE DEF n
    <2>3. base58' = n
      BY <2>1 DEF n
    <2>4. QED BY <1>1, <1>2, <2>1, <2>2, <2>3 DEF AddressInv, BaseInv, AddressRead
  <1>5. QED BY <1>3, <1>4

\* The text is written.
LEMMA AddressEnds ==
  ASSUME AddressInv, EncodeDigits
  PROVE  AddressInv'
  <1>1. /\ field = "base58" /\ field' = "recipient" /\ bytes' = bytes /\ base58' = base58
        /\ base58.i = Len(base58.bin) /\ recipient_address' = base58_end(base58, RecipientSize)
    BY DEF EncodeDigits
  <1>2. bytes \in Keys /\ base58.bin = Bin(bytes) /\ ByteAt(base58, bytes) /\ base58.overrun = FALSE
    BY <1>1 DEF AddressInv, BaseInv
  <1>3. base58.i = 38
    BY <1>1, <1>2, BinFacts
  <1>4. PICK text : text = recipient_address'
    OBVIOUS
  <1>5. /\ Len(text) = 52 /\ Len(Digits58(text)) = 52
        /\ \A q \in 1..52 : Digits58(text)[q] = base58.buf[1 + q]
        /\ base58.buf \in Buffer58 /\ base58.buf[1] = 0
        /\ Prefix(58, base58.buf, 53) = BinNumber(bytes, 38)
    <2>1. text = base58_end(base58, RecipientSize)
      BY <1>1, <1>4
    <2>2. QED BY <1>2, <1>3, <2>1, AddressDigits
  <1>6. Len(text) = RecipientSize - 1
    <2>1. 53 - 1 = 52
      OBVIOUS
    <2>2. QED BY <1>5, <2>1, KeyAssumption
  <1>7. ASSUME NEW p \in Primes
        PROVE  Remainder(58, Digits58(text), p) = Remainder(256, Bin(bytes), p)
    <2>1. p \in Nat /\ p > 0
      BY DEF Primes
    <2>2. QED BY <1>2, <1>5, <2>1, AddressSame
  <1>8. Value(58, Digits58(text)) = Value(256, Bin(bytes))
    <2>1. PICK p \in Nat : p = 1 /\ p > 0
      OBVIOUS
    <2>2. Prefix(58, Digits58(text), 52) = Prefix(256, Bin(bytes), 38)
      BY <1>2, <1>5, <2>1, AddressSame
    <2>3. Len(Bin(bytes)) = 38
      BY <1>2, BinFacts
    <2>4. QED BY <1>5, <2>2, <2>3 DEF Value
  <1>9. AddressRead'
    BY <1>1, <1>4, <1>6, <1>7, <1>8 DEF AddressRead
  <1>10. BaseInv'
    BY <1>1, <1>2 DEF BaseInv
  <1>11. QED BY <1>9, <1>10 DEF AddressInv

\* Every step of the encodings keeps the invariant.
LEMMA AddressPreserved ==
  ASSUME AddressInv, [Next]_vars
  PROVE  AddressInv'
  <1>1. CASE EncodeRecipient
    BY <1>1, AddressBegins
  <1>2. CASE EncodeByte
    BY <1>2, AddressByte
  <1>3. CASE Carry
    BY <1>3, AddressCarry
  <1>4. CASE EncodeDigits
    BY <1>4, AddressEnds
  <1>5. CASE UNCHANGED vars
    <2>1. /\ field' = field /\ bytes' = bytes /\ base58' = base58
          /\ recipient_address' = recipient_address
      BY <1>5 DEF vars, keyVars
    <2>2. QED BY <2>1 DEF AddressInv, BaseInv, AddressRead
  <1>6. CASE base58' = base58 /\ field' \notin {"base58", "carry", "recipient"}
    BY <1>6 DEF AddressInv, BaseInv, AddressRead
  <1>7. QED
    BY <1>1, <1>2, <1>3, <1>4, <1>5, <1>6
       DEF Next, EncodeAmount, BeginDigit, Divide, EndDigit, BeginNumber, DecodeNumber,
           Done, keyVars

\* The text of a recipient's address has 52 characters and says the version, the key
\* and the checksum, whatever the key and the hash; the loop over the digits, whose
\* index is unsigned, never passes the first one (account.h:24).
THEOREM AddressExact == Spec => []AddressIsExact
  <1>1. AddressInv => AddressIsExact
    <2> SUFFICES ASSUME AddressInv PROVE AddressIsExact
      OBVIOUS
    <2>2. base58.overrun = FALSE
      BY DEF AddressInv, BaseInv
    <2>3. Bin(bytes) = <<AddressVersion>> \o bytes
                         \o SubSeq(double_sha256(<<AddressVersion>> \o bytes), 1, 4)
      BY DEF Bin
    <2>4. QED BY <2>2, <2>3, Zenon DEF AddressIsExact, AddressInv, AddressRead
  <1>2. QED BY AddressInitially, AddressPreserved, <1>1, PTL DEF Spec

\* The number that a text of digits in base 58 is, and that of the bytes of an address.
AddressSaysAll ==
  field = "recipient" =>
    Value(58, Digits58(recipient_address))
      = Value(256, <<AddressVersion>> \o bytes
                     \o SubSeq(double_sha256(<<AddressVersion>> \o bytes), 1, 4))

\* The text of an address is the number of its bytes itself, in base 58: what
\* AddressIsExact says of the remainders, for which TLC has numbers (account.h:22).
THEOREM AddressSays == Spec => []AddressSaysAll
  <1>1. AddressInv => AddressSaysAll
    <2> SUFFICES ASSUME AddressInv PROVE AddressSaysAll
      OBVIOUS
    <2>1. Bin(bytes) = <<AddressVersion>> \o bytes
                         \o SubSeq(double_sha256(<<AddressVersion>> \o bytes), 1, 4)
      BY DEF Bin
    <2>2. QED BY <2>1, Zenon DEF AddressSaysAll, AddressInv, AddressRead
  <1>2. QED BY AddressInitially, AddressPreserved, <1>1, PTL DEF Spec

----------------------------------------------------------------------------
(* Numbers of two limbs, and their division by ten.                        *)

\* A limb, and the numbers of two and of four limbs.
Word == 0..(Limb - 1)
Half(v) == <<v \div Limb, v % Limb>>
Big(v) == <<clear128, Half(v)>>

\* A limb has more than one bit and can hold a digit of base 10.
LEMMA LimbFacts ==
  /\ LimbBits \in Nat /\ LimbBits > 1
  /\ Limb \in Nat /\ Limb > 10 /\ Limb = Power(2, LimbBits)
  /\ \A n \in 0..LimbBits : TwoTo[n] = Power(2, n) /\ TwoTo[n] \in Nat /\ TwoTo[n] > 0
  <1>1. PICK k \in Nat : k = LimbBits
    <2>1. PICK b \in Nat : b = ByteBits
      BY LimbAssumption
    <2>2. PICK l \in Nat : l = LimbBytes
      BY LimbAssumption
    <2>3. b * l \in Nat
      OBVIOUS
    <2>4. QED BY <2>1, <2>2, <2>3 DEF LimbBits
  <1>2. PICK w \in Nat : w = Power(2, k)
    BY PowerType
  <1>3. w > 10
    BY <1>1, <1>2, LimbAssumption DEF LimbBits
  <1>4. \A n \in 0..LimbBits : TwoTo[n] = Power(2, n) /\ TwoTo[n] \in Nat /\ TwoTo[n] > 0
    <2>1. ASSUME NEW n \in 0..k PROVE TwoTo[n] = Power(2, n) /\ TwoTo[n] \in Nat /\ TwoTo[n] > 0
      <3>1. TwoTo[n] = Power(2, n)
        BY <1>1 DEF TwoTo
      <3>2. PICK m \in Nat : m = n
        OBVIOUS
      <3>3. Power(2, m) \in Nat /\ Power(2, m) > 0
        BY PowerType
      <3>4. QED BY <3>1, <3>2, <3>3
    <2>2. QED BY <1>1, <2>1
  <1>5. k > 1
    <2>1. k # 0
      <3>1. Power(2, 0) = 1
        BY PowerStep
      <3>2. QED BY <1>2, <1>3, <3>1
    <2>2. k # 1
      <3>1. Power(2, 1) = 2
        BY PowerFirst
      <3>2. QED BY <1>2, <1>3, <3>1
    <2>3. QED BY <2>1, <2>2
  <1>6. Limb = w
    <2>1. k \in 0..LimbBits
      BY <1>1
    <2>2. QED BY <1>1, <1>2, <1>4, <2>1 DEF Limb
  <1>7. QED BY <1>1, <1>2, <1>3, <1>4, <1>5, <1>6

\* The two limbs of a number.
LEMMA HalfIs ==
  ASSUME NEW w \in Nat, w = Limb, NEW h \in 0..(w-1), NEW l \in 0..(w-1),
         NEW a \in Nat, a = h * w + l
  PROVE  Half(a) = <<h, l>> /\ Big(a) = <<clear128, <<h, l>>>> /\ a < w * w
  <1>1. PICK q \in Nat : q = h
    OBVIOUS
  <1>2. a \div w = q /\ a % w = l
    BY <1>1, DivisionIs
  <1>3. Half(a) = <<h, l>>
    BY <1>1, <1>2 DEF Half
  <1>4. a < w * w
    <2>1. h * w + w <= w * w
      BY <1>1, MultipleGap
    <2>2. PICK x \in Nat : x = h * w
      BY <1>1
    <2>3. PICK y \in Nat : y = w * w
      OBVIOUS
    <2>4. QED BY <2>1, <2>2, <2>3
  <1>5. QED BY <1>3, <1>4 DEF Big

\* The number a has the limbs h and l.
Splits(a, h, l) == h \in 0..(Limb - 1) /\ l \in 0..(Limb - 1) /\ a = h * Limb + l

\* The same, for a fact under one name.
LEMMA HalfOf ==
  ASSUME NEW a \in Nat, NEW h, NEW l, Splits(a, h, l)
  PROVE  Half(a) = <<h, l>> /\ Big(a) = <<clear128, <<h, l>>>> /\ a < Limb * Limb
  <1>1. PICK w \in Nat : w = Limb
    BY LimbFacts
  <1>2. PICK x \in 0..(w-1) : x = h
    BY <1>1 DEF Splits
  <1>3. PICK y \in 0..(w-1) : y = l
    BY <1>1 DEF Splits
  <1>4. a = x * w + y
    BY <1>1, <1>2, <1>3 DEF Splits
  <1>5. QED BY <1>1, <1>2, <1>3, <1>4, HalfIs

\* Every number below the square of a limb has two.
LEMMA HalfParts ==
  ASSUME NEW w \in Nat, w = Limb, NEW a \in Nat, a < w * w
  PROVE  \E h \in 0..(w-1), l \in 0..(w-1) :
           a = h * w + l /\ Half(a) = <<h, l>> /\ Big(a) = <<clear128, <<h, l>>>>
  <1>1. w > 0
    BY LimbFacts
  <1>2. PICK h \in Nat : h = a \div w
    BY <1>1, DivisionTheorem
  <1>3. PICK l \in 0..(w-1) : l = a % w
    BY <1>1, DivisionTheorem
  <1>4. a = h * w + l
    BY <1>1, <1>2, <1>3, DivisionTheorem
  <1>5. h < w
    <2>1. SUFFICES ASSUME h >= w PROVE FALSE
      OBVIOUS
    <2>2. w * w <= h * w
      BY <2>1, ProductMonotone
    <2>3. PICK x \in Nat : x = h * w
      OBVIOUS
    <2>4. PICK y \in Nat : y = w * w
      OBVIOUS
    <2>5. QED BY <1>4, <2>2, <2>3, <2>4
  <1>6. Half(a) = <<h, l>>
    BY <1>2, <1>3 DEF Half
  <1>7. QED BY <1>4, <1>5, <1>6 DEF Big

\* The greater pair is the greater number.
LEMMA PairGreater ==
  ASSUME NEW w \in Nat, NEW h \in 0..(w-1), NEW l \in 0..(w-1),
         NEW g \in 0..(w-1), NEW k \in 0..(w-1)
  PROVE  /\ h > g => h * w + l > g * w + k
         /\ (h * w + l = g * w + k) <=> (h = g /\ l = k)
  <1>1. PICK x \in Nat : x = h * w
    OBVIOUS
  <1>2. PICK y \in Nat : y = g * w
    OBVIOUS
  <1>3. h > g => y + w <= x
    <2>1. SUFFICES ASSUME h > g PROVE y + w <= x
      OBVIOUS
    <2>2. g * w + w <= h * w
      BY <2>1, MultipleGap
    <2>3. QED BY <1>1, <1>2, <2>2
  <1>4. h < g => x + w <= y
    <2>1. SUFFICES ASSUME h < g PROVE x + w <= y
      OBVIOUS
    <2>2. h * w + w <= g * w
      BY <2>1, MultipleGap
    <2>3. QED BY <1>1, <1>2, <2>2
  <1>5. h = g => x = y
    BY <1>1, <1>2
  <1>6. QED BY <1>1, <1>2, <1>3, <1>4, <1>5

\* gt128 compares the numbers.
LEMMA HalfGreater ==
  ASSUME NEW w \in Nat, w = Limb, NEW a \in Nat, a < w * w, NEW b \in Nat, b < w * w
  PROVE  /\ gt128(Half(a), Half(b)) <=> a > b
         /\ (Half(a) = Half(b)) <=> a = b
  <1>1. PICK h \in 0..(w-1), l \in 0..(w-1) : a = h * w + l /\ Half(a) = <<h, l>>
    BY HalfParts
  <1>2. PICK g \in 0..(w-1), k \in 0..(w-1) : b = g * w + k /\ Half(b) = <<g, k>>
    BY HalfParts
  <1>3. PICK x \in Nat : x = h * w
    OBVIOUS
  <1>4. PICK y \in Nat : y = g * w
    OBVIOUS
  <1>5. /\ h > g => a > b
        /\ h < g => b > a
        /\ (a = b) <=> (h = g /\ l = k)
    BY <1>1, <1>2, PairGreater
  <1>6. gt128(Half(a), Half(b)) <=> IF h = g THEN l > k ELSE h > g
    BY <1>1, <1>2 DEF gt128, UPPER, LOWER
  <1>7. h = g => x = y
    BY <1>3, <1>4
  <1>8. gt128(Half(a), Half(b)) <=> a > b
    <2>1. CASE h = g
      <3>1. (l > k) <=> a > b
        BY <1>1, <1>2, <1>3, <1>4, <1>7, <2>1
      <3>2. QED BY <1>6, <2>1, <3>1
    <2>2. CASE h > g
      BY <1>5, <1>6, <2>2
    <2>3. CASE h < g
      <3>1. ~(a > b) /\ ~(h > g) /\ h # g
        BY <1>5, <2>3
      <3>2. QED BY <1>6, <3>1
    <2>4. QED BY <2>1, <2>2, <2>3
  <1>9. (Half(a) = Half(b)) <=> (h = g /\ l = k)
    BY <1>1, <1>2
  <1>10. QED BY <1>5, <1>8, <1>9

\* So do gt256, gte256 and zero256.
LEMMA BigGreater ==
  ASSUME NEW w \in Nat, w = Limb, NEW a \in Nat, a < w * w, NEW b \in Nat, b < w * w
  PROVE  /\ gt256(Big(a), Big(b)) <=> a > b
         /\ gte256(Big(a), Big(b)) <=> a >= b
         /\ zero256(Big(a)) <=> a = 0
  <1>1. gt256(Big(a), Big(b)) <=> a > b
    BY HalfGreater DEF gt256, Big, UPPER, LOWER
  <1>2. (Big(a) = Big(b)) <=> a = b
    BY HalfGreater DEF Big
  <1>3. gte256(Big(a), Big(b)) <=> a >= b
    BY <1>1, <1>2 DEF gte256
  <1>4. PICK h \in 0..(w-1), l \in 0..(w-1) : a = h * w + l /\ Big(a) = <<clear128, <<h, l>>>>
    BY HalfParts
  <1>5. zero256(Big(a)) <=> (h = 0 /\ l = 0)
    BY <1>4 DEF zero256, zero128, clear128, UPPER, LOWER
  <1>6. (h * w + l = 0 * w + 0) <=> (h = 0 /\ l = 0)
    <2>1. 0 \in 0..(w - 1)
      BY <1>4
    <2>2. QED BY <2>1, PairGreater
  <1>7. 0 * w + 0 = 0
    OBVIOUS
  <1>8. QED BY <1>1, <1>3, <1>4, <1>5, <1>6, <1>7

\* A number below the limb is its own remainder.
LEMMA SmallMod ==
  ASSUME NEW w \in Nat, NEW x \in 0..(w-1)
  PROVE  x % w = x
  <1>1. PICK y \in Nat : y = x
    OBVIOUS
  <1>2. y = 0 * w + x /\ 0 \in Nat
    BY <1>1
  <1>3. PICK z \in Nat : z = 0
    OBVIOUS
  <1>4. y = z * w + x
    BY <1>2, <1>3
  <1>5. y % w = x
    BY <1>4, DivisionIs
  <1>6. QED BY <1>1, <1>5

\* A negative one wraps around once.
LEMMA NegativeMod ==
  ASSUME NEW w \in Nat, w > 0, NEW x \in 1..(w-1)
  PROVE  (x - w) % w = x
  <1>1. PICK a \in Int : a = x - w
    OBVIOUS
  <1>2. PICK q \in Int : q = a \div w
    OBVIOUS
  <1>3. PICK r \in Int : r = a % w /\ 0 <= r /\ r < w
    OBVIOUS
  <1>4. a = w * q + r
    BY <1>2, <1>3, DivisionOfInt
  <1>5. q = -1
    <2>1. ~(q >= 0)
      <3>1. SUFFICES ASSUME q >= 0 PROVE FALSE
        OBVIOUS
      <3>2. PICK n \in Nat : n = q
        BY <3>1
      <3>3. w * n \in Nat
        OBVIOUS
      <3>4. QED BY <1>1, <1>3, <1>4, <3>2, <3>3
    <2>2. ~(q <= -2)
      <3>1. SUFFICES ASSUME q <= -2 PROVE FALSE
        OBVIOUS
      <3>2. PICK n \in Nat : n = -2 - q
        BY <3>1
      <3>3. q = -2 - n
        BY <3>2
      <3>4. PICK y \in Nat : y = w * n
        OBVIOUS
      <3>5. w * q = -2 * w - y
        <4>1. w * (-2 - n) = -2 * w - w * n
          OBVIOUS
        <4>2. QED BY <3>3, <3>4, <4>1
      <3>6. QED BY <1>1, <1>3, <1>4, <3>4, <3>5
    <2>3. QED BY <2>1, <2>2
  <1>6. w * q = -w
    BY <1>5
  <1>7. r = x
    BY <1>1, <1>4, <1>6
  <1>8. QED BY <1>1, <1>3, <1>7

\* A difference of limbs borrows or does not.
LEMMA SubIs ==
  ASSUME NEW w \in Nat, w = Limb, w > 0, NEW a \in 0..(w-1), NEW b \in 0..(w-1)
  PROVE  /\ a >= b => Sub(a, b) = a - b
         /\ a < b => Sub(a, b) = a - b + w
  <1>1. CASE a >= b
    <2>1. a - b \in 0..(w-1)
      BY <1>1
    <2>2. (a - b) % w = a - b
      BY <2>1, SmallMod
    <2>3. QED BY <1>1, <2>2 DEF Sub
  <1>2. CASE a < b
    <2>1. PICK x \in 1..(w-1) : x = a - b + w
      BY <1>2
    <2>2. x - w = a - b
      BY <2>1
    <2>3. (x - w) % w = x
      BY NegativeMod
    <2>4. QED BY <1>2, <2>1, <2>2, <2>3 DEF Sub
  <1>3. QED BY <1>1, <1>2

\* minus128 subtracts.
LEMMA HalfMinus ==
  ASSUME NEW w \in Nat, w = Limb, NEW a \in Nat, a < w * w, NEW b \in Nat, b <= a
  PROVE  minus128(Half(a), Half(b)) = Half(a - b)
  <1>0. w > 10 /\ b < w * w
    <2>1. PICK y \in Nat : y = w * w
      OBVIOUS
    <2>2. QED BY <2>1, LimbFacts
  <1>1. PICK h \in 0..(w-1), l \in 0..(w-1) : a = h * w + l /\ Half(a) = <<h, l>>
    BY HalfParts
  <1>2. PICK g \in 0..(w-1), k \in 0..(w-1) : b = g * w + k /\ Half(b) = <<g, k>>
    BY <1>0, HalfParts
  <1>3. PICK x \in Nat : x = h * w
    OBVIOUS
  <1>4. PICK y \in Nat : y = g * w
    OBVIOUS
  <1>5. h >= g /\ (h = g => l >= k)
    <2>1. h < g => b > a
      BY <1>1, <1>2, PairGreater
    <2>2. h = g => x = y
      BY <1>3, <1>4
    <2>3. QED BY <1>1, <1>2, <1>3, <1>4, <2>1, <2>2
  <1>6. (h - g) * w = x - y
    BY <1>3, <1>4
  <1>7. PICK d \in Nat : d = a - b
    OBVIOUS
  <1>8. minus128(Half(a), Half(b)) = <<Sub(Sub(h, g), Flag(Sub(l, k) > l)), Sub(l, k)>>
    BY <1>1, <1>2 DEF minus128, UPPER, LOWER
  <1>9. CASE l >= k
    <2>1. Sub(l, k) = l - k /\ Sub(h, g) = h - g
      BY <1>0, <1>5, <1>9, SubIs
    <2>2. Flag(Sub(l, k) > l) = 0
      BY <2>1 DEF Flag
    <2>3. PICK m \in 0..(w-1) : m = h - g
      BY <1>5
    <2>4. Sub(m, 0) = m
      <3>1. 0 \in 0..(w-1) /\ m >= 0 /\ m - 0 = m
        BY <1>0
      <3>2. QED BY <1>0, <3>1, SubIs
    <2>5. PICK n \in 0..(w-1) : n = l - k
      BY <1>9
    <2>6. d = m * w + n
      BY <1>1, <1>2, <1>3, <1>4, <1>6, <1>7, <2>3, <2>5
    <2>7. Half(d) = <<m, n>>
      <3>1. Splits(d, m, n)
        BY <2>6 DEF Splits
      <3>2. QED BY <3>1, HalfOf
    <2>8. QED BY <1>7, <1>8, <2>1, <2>2, <2>3, <2>4, <2>5, <2>7
  <1>10. CASE l < k
    <2>1. Sub(l, k) = l - k + w /\ Sub(h, g) = h - g
      BY <1>0, <1>5, <1>10, SubIs
    <2>2. Flag(Sub(l, k) > l) = 1
      BY <1>0, <2>1 DEF Flag
    <2>3. PICK m \in 0..(w-1) : m = h - g /\ m >= 1
      BY <1>5, <1>10
    <2>4. Sub(m, 1) = m - 1
      <3>1. 1 \in 0..(w-1)
        BY <1>0
      <3>2. QED BY <1>0, <2>3, <3>1, SubIs
    <2>5. PICK n \in 0..(w-1) : n = l - k + w
      BY <1>10
    <2>6. PICK p \in 0..(w-1) : p = m - 1
      BY <2>3
    <2>7. p * w = (h - g) * w - w
      <3>1. (m - 1) * w = m * w - w
        OBVIOUS
      <3>2. QED BY <2>3, <2>6, <3>1
    <2>8. PICK z \in Nat : z = p * w
      OBVIOUS
    <2>9. d = p * w + n
      BY <1>1, <1>2, <1>3, <1>4, <1>6, <1>7, <2>5, <2>7, <2>8
    <2>10. Half(d) = <<p, n>>
      <3>1. Splits(d, p, n)
        BY <2>9 DEF Splits
      <3>2. QED BY <3>1, HalfOf
    <2>11. QED BY <1>7, <1>8, <2>1, <2>2, <2>3, <2>4, <2>5, <2>6, <2>10
  <1>11. QED BY <1>9, <1>10

\* Zero is clear.
LEMMA HalfZero == Half(0) = clear128 /\ Big(0) = clear256
  <1>1. PICK w \in Nat : w = Limb /\ w > 10
    BY LimbFacts
  <1>2. 0 \in 0..(w-1) /\ 0 = 0 * w + 0 /\ 0 \in Nat
    BY <1>1
  <1>3. PICK z \in Nat : z = 0
    OBVIOUS
  <1>4. Half(z) = <<0, 0>> /\ Big(z) = <<clear128, <<0, 0>>>>
    BY <1>1, <1>2, <1>3, HalfIs
  <1>5. QED BY <1>3, <1>4 DEF clear128, clear256

\* minus256 subtracts.
LEMMA BigMinus ==
  ASSUME NEW w \in Nat, w = Limb, NEW a \in Nat, a < w * w, NEW b \in Nat, b <= a
  PROVE  minus256(Big(a), Big(b)) = Big(a - b)
  <1>1. minus128(Half(a), Half(b)) = Half(a - b)
    BY HalfMinus
  <1>2. PICK d \in Nat : d = a - b /\ d < w * w /\ ~(d > a)
    <2>1. PICK y \in Nat : y = w * w
      OBVIOUS
    <2>2. QED BY <2>1
  <1>3. minus128(clear128, clear128) = clear128
    <2>1. PICK z \in Nat : z = 0
      OBVIOUS
    <2>2. z < w * w /\ z <= z
      BY <1>2, <2>1
    <2>3. minus128(Half(z), Half(z)) = Half(z - z)
      BY <2>2, HalfMinus
    <2>4. z - z = z
      BY <2>1
    <2>5. QED BY <2>1, <2>3, <2>4, HalfZero
  <1>4. ~gt128(Half(d), Half(a))
    BY <1>2, HalfGreater
  <1>5. QED BY <1>1, <1>2, <1>3, <1>4 DEF minus256, Big, UPPER, LOWER

\* Zero adds nothing to a limb.
LEMMA AddZero ==
  ASSUME NEW y \in Word
  PROVE  Add(y, 0) = y /\ Add(0, y) = y
  <1>1. PICK w \in Nat : w = Limb
    BY LimbFacts
  <1>2. y \in 0..(w - 1)
    BY <1>1 DEF Word
  <1>3. y % w = y
    BY <1>2, SmallMod
  <1>4. y + 0 = y /\ 0 + y = y
    BY <1>2
  <1>5. QED BY <1>1, <1>3, <1>4 DEF Add

\* Zero divided is zero.
LEMMA ZeroDiv ==
  ASSUME NEW w \in Nat, w > 0
  PROVE  0 \div w = 0
  <1>1. PICK z \in Nat : z = 0
    OBVIOUS
  <1>2. z = z * w + z /\ z \in 0..(w - 1)
    BY <1>1
  <1>3. z \div w = z
    BY <1>2, DivisionIs
  <1>4. QED BY <1>1, <1>3

\* Zero shifted is zero.
LEMMA ShiftZero ==
  ASSUME NEW n \in 0..LimbBits
  PROVE  Shl(0, n) = 0 /\ Shr(0, n) = 0
  <1>1. PICK w \in Nat : w = Limb /\ w > 0
    BY LimbFacts
  <1>2. PICK p \in Nat : p = TwoTo[n] /\ p > 0
    BY LimbFacts
  <1>3. 0 * p = 0 /\ 0 % w = 0 /\ 0 \div p = 0
    BY <1>1, <1>2, ZeroMod, ZeroDiv
  <1>4. QED BY <1>1, <1>2, <1>3 DEF Shl, Shr

\* Zero is a limb.
LEMMA ZeroWord == 0 \in Word
  BY LimbFacts DEF Word

\* Zero adds nothing to a number.
LEMMA AddClear ==
  ASSUME NEW w \in Nat, w = Limb, NEW a \in Nat, a < w * w
  PROVE  add128(Half(a), clear128) = Half(a)
  <1>1. PICK h \in 0..(w-1), l \in 0..(w-1) : Half(a) = <<h, l>>
    BY HalfParts
  <1>2. h \in Word /\ l \in Word
    BY DEF Word
  <1>3. Add(h, 0) = h /\ Add(l, 0) = l
    BY <1>2, AddZero
  <1>4. Flag(l < l) = 0
    BY DEF Flag
  <1>5. QED BY <1>1, <1>3, <1>4 DEF add128, clear128, UPPER, LOWER

\* Zero shifted is zero.
LEMMA ShiftClear ==
  ASSUME NEW v \in 1..(2 * LimbBits - 1)
  PROVE  shiftl128(clear128, v) = clear128 /\ shiftr128(clear128, v) = clear128
  <1>1. PICK k \in Nat : k = LimbBits /\ k > 1
    BY LimbFacts
  <1>2. PICK u \in Nat : u = v
    OBVIOUS
  <1>3. UPPER(clear128) = 0 /\ LOWER(clear128) = 0
    BY DEF UPPER, LOWER, clear128
  <1>4. Add(0, 0) = 0
    BY AddZero, ZeroWord
  <1>5. ~(u >= 2 * k) /\ u # 0 /\ u > 0
    BY <1>1, <1>2
  <1>6. CASE u = k
    <2>1. shiftl128(clear128, u) = <<0, 0>> /\ shiftr128(clear128, u) = <<0, 0>>
      BY <1>1, <1>3, <1>5, <1>6 DEF shiftl128, shiftr128
    <2>2. QED BY <1>2, <2>1 DEF clear128
  <1>7. CASE u < k
    <2>1. u \in 0..LimbBits /\ LimbBits - u \in 0..LimbBits
      BY <1>1, <1>7
    <2>2. Shl(0, u) = 0 /\ Shr(0, u) = 0 /\ Shl(0, LimbBits - u) = 0 /\ Shr(0, LimbBits - u) = 0
      BY <2>1, ShiftZero
    <2>3. u # k /\ u < LimbBits /\ ~(u > LimbBits)
      BY <1>1, <1>7
    <2>4. shiftl128(clear128, u) = <<Add(Shl(0, u), Shr(0, LimbBits - u)), Shl(0, u)>>
      BY <1>1, <1>3, <1>5, <2>3 DEF shiftl128
    <2>5. shiftr128(clear128, u) = <<Shr(0, u), Add(Shl(0, LimbBits - u), Shr(0, u))>>
      BY <1>1, <1>3, <1>5, <2>3 DEF shiftr128
    <2>6. QED BY <1>2, <1>4, <2>2, <2>4, <2>5 DEF clear128
  <1>8. CASE u > k
    <2>1. u - LimbBits \in 0..LimbBits
      BY <1>1, <1>2, <1>8
    <2>2. Shl(0, u - LimbBits) = 0 /\ Shr(0, u - LimbBits) = 0
      BY <2>1, ShiftZero
    <2>3. u # k /\ ~(u < LimbBits) /\ u > LimbBits /\ u < 2 * LimbBits
      BY <1>1, <1>5, <1>8
    <2>4. shiftl128(clear128, u) = <<Shl(0, u - LimbBits), 0>>
      BY <1>1, <1>3, <1>5, <2>3 DEF shiftl128
    <2>5. shiftr128(clear128, u) = <<0, Shr(0, u - LimbBits)>>
      BY <1>1, <1>3, <1>5, <2>3 DEF shiftr128
    <2>6. QED BY <1>2, <2>2, <2>4, <2>5 DEF clear128
  <1>9. QED BY <1>1, <1>2, <1>6, <1>7, <1>8

\* A shift to the right by one bit halves two limbs.
LEMMA HalfRight ==
  ASSUME NEW w \in Nat, w = Limb, NEW a \in Nat, a < w * w
  PROVE  shiftr128(Half(a), 1) = Half(a \div 2) /\ a \div 2 \in Nat /\ a \div 2 <= a
  <1>1. PICK k \in Nat : k = LimbBits /\ k > 1
    BY LimbFacts
  <1>2. PICK j \in Nat : j + 1 = k
    <2>1. k - 1 \in Nat /\ (k - 1) + 1 = k
      BY <1>1
    <2>2. QED BY <2>1
  <1>3. PICK p \in Nat : p = TwoTo[j] /\ p > 0 /\ p = Power(2, j)
    <2>1. j \in 0..LimbBits
      BY <1>1, <1>2
    <2>2. QED BY <2>1, LimbFacts
  <1>4. w = 2 * p
    <2>1. Power(2, j + 1) = 2 * Power(2, j)
      BY PowerStep
    <2>2. QED BY <1>1, <1>2, <1>3, <2>1, LimbFacts
  <1>5. TwoTo[1] = 2
    <2>1. 1 \in 0..LimbBits
      BY <1>1
    <2>2. QED BY <2>1, LimbFacts, PowerFirst
  <1>6. PICK h \in 0..(w-1), l \in 0..(w-1) : a = h * w + l /\ Half(a) = <<h, l>>
    BY HalfParts
  <1>7. PICK c \in Nat, b \in 0..1 : h = 2 * c + b /\ c = h \div 2
    BY <1>6
  <1>8. PICK d \in Nat, e \in 0..1 : l = 2 * d + e /\ d = l \div 2
    BY <1>6
  <1>9. Shr(h, 1) = c /\ Shr(l, 1) = d
    BY <1>5, <1>7, <1>8 DEF Shr
  <1>10. PICK x \in Nat : x = b * p /\ x < w /\ x <= p
    <2>1. CASE b = 0
      <3>1. b * p = 0
        BY <2>1
      <3>2. QED BY <1>3, <1>4, <3>1
    <2>2. CASE b = 1
      <3>1. b * p = p
        BY <2>2
      <3>2. QED BY <1>3, <1>4, <3>1
    <2>3. QED BY <1>7, <2>1, <2>2
  <1>11. PICK y \in Nat : y = c * w
    BY <1>7
  <1>12. h * p = y + x
    <2>1. (2 * c + b) * p = c * (2 * p) + b * p
      BY <1>7
    <2>2. QED BY <1>4, <1>7, <1>10, <1>11, <2>1
  <1>13. Shl(h, j) = x
    <2>1. PICK z \in Nat : z = h * p
      BY <1>6
    <2>2. z = c * w + x /\ x \in 0..(w - 1)
      BY <1>10, <1>11, <1>12, <2>1
    <2>3. z % w = x
      BY <1>7, <2>2, DivisionIs
    <2>4. QED BY <1>3, <2>1, <2>3 DEF Shl
  <1>14. Add(x, d) = x + d /\ x + d \in 0..(w - 1)
    <2>1. d < p
      BY <1>4, <1>6, <1>8
    <2>2. x + d \in 0..(w - 1)
      BY <1>4, <1>8, <1>10, <2>1
    <2>3. (x + d) % w = x + d
      BY <2>2, SmallMod
    <2>4. QED BY <2>2, <2>3 DEF Add
  <1>15. shiftr128(Half(a), 1) = <<Shr(h, 1), Add(Shl(h, LimbBits - 1), Shr(l, 1))>>
    <2>1. ~(1 >= 2 * LimbBits) /\ 1 # LimbBits /\ 1 # 0 /\ 1 > 0 /\ 1 < LimbBits
          /\ ~(1 > LimbBits)
      BY <1>1
    <2>2. QED BY <1>6, <2>1 DEF shiftr128, UPPER, LOWER
  <1>16. shiftr128(Half(a), 1) = <<c, x + d>>
    <2>1. LimbBits - 1 = j
      BY <1>1, <1>2
    <2>2. QED BY <1>9, <1>13, <1>14, <1>15, <2>1
  <1>17. PICK m \in Nat : m = y + x + d
    BY <1>8
  <1>18. a = 2 * m + e
    <2>1. (2 * c + b) * w = 2 * (c * w) + b * w
      BY <1>7
    <2>2. b * w = 2 * (b * p)
      BY <1>4
    <2>3. PICK z \in Nat : z = h * w
      BY <1>6
    <2>4. z = 2 * y + 2 * x
      BY <1>7, <1>10, <1>11, <2>1, <2>2, <2>3
    <2>5. QED BY <1>6, <1>8, <1>17, <2>3, <2>4
  <1>19. a \div 2 = m
    BY <1>8, <1>17, <1>18
  <1>20. Half(m) = <<c, x + d>>
    <2>1. c \in 0..(w - 1)
      BY <1>6, <1>7
    <2>2. Splits(m, c, x + d)
      <3>1. m = c * w + (x + d)
        BY <1>8, <1>11, <1>17
      <3>2. QED BY <1>14, <2>1, <3>1 DEF Splits
    <2>3. QED BY <2>2, HalfOf
  <1>21. QED BY <1>16, <1>18, <1>19, <1>20

\* And four of them.
LEMMA BigRight ==
  ASSUME NEW w \in Nat, w = Limb, NEW a \in Nat, a < w * w
  PROVE  shiftr256(Big(a), 1) = Big(a \div 2)
  <1>1. PICK k \in Nat : k = LimbBits /\ k > 1
    BY LimbFacts
  <1>2. PICK m \in Nat : m = a \div 2 /\ m <= a /\ shiftr128(Half(a), 1) = Half(m)
    BY HalfRight
  <1>3. m < w * w
    <2>1. PICK y \in Nat : y = w * w
      OBVIOUS
    <2>2. QED BY <1>2, <2>1
  <1>4. add128(Half(m), clear128) = Half(m)
    BY <1>3, AddClear
  <1>5. shiftl128(clear128, 2 * LimbBits - 1) = clear128 /\ shiftr128(clear128, 1) = clear128
    <2>1. 2 * LimbBits - 1 \in 1..(2 * LimbBits - 1) /\ 1 \in 1..(2 * LimbBits - 1)
      BY <1>1
    <2>2. QED BY <2>1, ShiftClear
  <1>6. ~(1 >= 4 * LimbBits) /\ 1 # 2 * LimbBits /\ 1 # 0 /\ 1 > 0 /\ 1 < 2 * LimbBits
        /\ ~(1 > 2 * LimbBits)
    BY <1>1
  <1>7. UPPER(Big(a)) = clear128 /\ LOWER(Big(a)) = Half(a)
    BY DEF Big, UPPER, LOWER
  <1>8. shiftr256(Big(a), 1)
          = <<shiftr128(clear128, 1), add128(shiftr128(Half(a), 1), shiftl128(clear128, 2 * LimbBits - 1))>>
    BY <1>6, <1>7 DEF shiftr256
  <1>9. QED BY <1>2, <1>4, <1>5, <1>8 DEF Big

\* A number of one limb.
LEMMA SmallHalf ==
  ASSUME NEW x \in Word
  PROVE  Half(x) = <<0, x>> /\ x \in Nat
  <1>1. PICK w \in Nat : w = Limb /\ w > 10
    BY LimbFacts
  <1>2. PICK y \in Nat : y = x
    BY DEF Word
  <1>3. 0 * w + y = y
    BY <1>1
  <1>4. Splits(y, 0, y)
    <2>1. 0 \in Word /\ y \in Word
      BY <1>2, ZeroWord
    <2>2. y = 0 * Limb + y
      BY <1>1, <1>3
    <2>3. QED BY <2>1, <2>2 DEF Splits, Word
  <1>5. QED BY <1>2, <1>4, HalfOf

\* Two powers of two whose product is the limb.
LEMMA TwoToSplit ==
  ASSUME NEW v \in 0..LimbBits
  PROVE  /\ TwoTo[v] \in Nat /\ TwoTo[LimbBits - v] \in Nat
         /\ TwoTo[v] > 0 /\ TwoTo[LimbBits - v] > 0
         /\ Limb = TwoTo[v] * TwoTo[LimbBits - v]
  <1>1. PICK k \in Nat : k = LimbBits
    BY LimbFacts
  <1>2. PICK i \in Nat : i = v
    OBVIOUS
  <1>3. PICK j \in Nat : i + j = k
    <2>1. k - v \in Nat /\ i + (k - v) = k
      BY <1>1, <1>2
    <2>2. QED BY <2>1
  <1>4. Power(2, i + j) = Power(2, i) * Power(2, j)
    BY PowerAdd
  <1>5. i \in 0..LimbBits /\ j \in 0..LimbBits /\ LimbBits - v = j
    BY <1>1, <1>2, <1>3
  <1>6. TwoTo[i] = Power(2, i) /\ TwoTo[j] = Power(2, j) /\ Limb = Power(2, i + j)
    BY <1>1, <1>3, <1>5, LimbFacts
  <1>7. TwoTo[i] \in Nat /\ TwoTo[j] \in Nat /\ TwoTo[i] > 0 /\ TwoTo[j] > 0
    BY <1>5, LimbFacts
  <1>8. QED BY <1>2, <1>4, <1>5, <1>6, <1>7

\* A shift within the two limbs: t is x times a power of two.
LEMMA HalfLeft ==
  ASSUME NEW w \in Nat, w = Limb, NEW x \in 0..(w-1), NEW v \in 0..(2 * LimbBits - 1),
         NEW t \in Nat, t = x * Power(2, v), t < w * w
  PROVE  shiftl128(Half(x), v) = Half(t)
  <1>0. w > 10
    BY LimbFacts
  <1>1. PICK k \in Nat : k = LimbBits /\ k > 1
    BY LimbFacts
  <1>2. PICK u \in Nat : u = v
    OBVIOUS
  <1>3. Half(x) = <<0, x>> /\ x \in Nat /\ x \in Word
    BY SmallHalf DEF Word
  <1>4. UPPER(Half(x)) = 0 /\ LOWER(Half(x)) = x
    BY <1>3 DEF UPPER, LOWER
  <1>5. ~(u >= 2 * k)
    BY <1>1, <1>2
  <1>6. CASE u = 0
    <2>1. Power(2, v) = 1
      BY <1>2, <1>6, PowerStep
    <2>2. t = x
      BY <2>1
    <2>3. shiftl128(Half(x), u) = Half(x)
      BY <1>1, <1>5, <1>6 DEF shiftl128
    <2>4. QED BY <1>2, <2>2, <2>3
  <1>7. CASE u = k
    <2>1. Power(2, v) = w
      BY <1>1, <1>2, <1>7, LimbFacts
    <2>2. shiftl128(Half(x), u) = <<x, 0>>
      BY <1>1, <1>4, <1>5, <1>7 DEF shiftl128
    <2>3. Splits(t, x, 0)
      <3>1. t = x * w + 0
        BY <2>1
      <3>2. QED BY <1>0, <3>1 DEF Splits
    <2>4. QED BY <1>2, <2>2, <2>3, HalfOf
  <1>8. CASE u > 0 /\ u < k
    <2>1. u \in 0..LimbBits
      BY <1>1, <1>8
    <2>2. PICK q \in Nat : q = TwoTo[u] /\ q = Power(2, v) /\ q > 0
      BY <1>2, <2>1, LimbFacts
    <2>3. PICK p \in Nat : p = TwoTo[LimbBits - u] /\ p > 0 /\ w = q * p
      BY <2>1, <2>2, TwoToSplit
    <2>4. PICK c \in Nat : c = x \div p
      BY <1>3, <2>3, DivisionTheorem
    <2>5. PICK d \in 0..(p - 1) : d = x % p
      BY <1>3, <2>3, DivisionTheorem
    <2>6. x = c * p + d
      <3>1. PICK y \in Nat : y = x
        BY <1>3
      <3>2. y = (y \div p) * p + (y % p)
        BY <2>3, DivisionTheorem
      <3>3. QED BY <2>4, <2>5, <3>1, <3>2
    <2>7. PICK z \in Nat : z = d * q
      BY <2>5
    <2>8. z < w
      <3>1. d * q + q <= p * q
        BY <2>5, MultipleGap
      <3>2. p * q = w
        BY <2>3
      <3>3. QED BY <2>2, <2>7, <3>1, <3>2
    <2>9. t = c * w + z
      <3>1. (c * p + d) * q = c * (q * p) + d * q
        BY <2>5
      <3>2. QED BY <2>2, <2>3, <2>6, <2>7, <3>1
    <2>10. t % w = z
      <3>1. z \in 0..(w - 1)
        BY <2>8
      <3>2. IsDivision(t, w, c, z)
        BY <2>9, <3>1 DEF IsDivision
      <3>3. QED BY <3>2, DivisionBy
    <2>11. Shl(x, u) = z
      BY <2>2, <2>10 DEF Shl
    <2>12. Shr(x, LimbBits - u) = c
      BY <2>3, <2>4 DEF Shr
    <2>13. c \in Word
      <3>1. PICK y \in Nat : y = c * p
        OBVIOUS
      <3>2. c <= c * p
        <4>1. c * 1 <= c * p
          BY <2>3, ProductMonotone
        <4>2. c * 1 = c
          OBVIOUS
        <4>3. QED BY <4>1, <4>2
      <3>3. c <= x
        BY <2>5, <2>6, <3>1, <3>2
      <3>4. QED BY <3>3 DEF Word
    <2>14. shiftl128(Half(x), u) = <<Add(Shl(0, u), Shr(x, LimbBits - u)), Shl(x, u)>>
      <3>1. u # k /\ u # 0 /\ u < LimbBits
        BY <1>1, <1>8
      <3>2. QED BY <1>1, <1>4, <1>5, <1>8, <3>1 DEF shiftl128
    <2>15. shiftl128(Half(x), u) = <<c, z>>
      <3>1. Shl(0, u) = 0
        BY <2>1, ShiftZero
      <3>2. Add(0, c) = c
        BY <2>13, AddZero
      <3>3. QED BY <2>11, <2>12, <2>14, <3>1, <3>2
    <2>16. Splits(t, c, z)
      BY <2>8, <2>9, <2>13 DEF Splits, Word
    <2>17. QED BY <1>2, <2>15, <2>16, HalfOf
  <1>9. CASE u > k
    <2>1. PICK j \in Nat : k + j = u
      <3>1. u - k \in Nat /\ k + (u - k) = u
        BY <1>9
      <3>2. QED BY <3>1
    <2>2. j \in 0..LimbBits /\ u - LimbBits = j
      BY <1>1, <1>2, <2>1
    <2>3. PICK q \in Nat : q = TwoTo[j] /\ q = Power(2, j)
      BY <2>2, LimbFacts
    <2>4. Power(2, k + j) = Power(2, k) * Power(2, j)
      BY PowerAdd
    <2>5. Power(2, v) = w * q
      BY <1>1, <1>2, <2>1, <2>3, <2>4, LimbFacts
    <2>6. PICK z \in Nat : z = x * q
      BY <1>3
    <2>7. t = z * w
      <3>1. x * (w * q) = (x * q) * w
        BY <1>3
      <3>2. QED BY <2>5, <2>6, <3>1
    <2>8. z < w
      <3>1. SUFFICES ASSUME z >= w PROVE FALSE
        OBVIOUS
      <3>2. w * w <= z * w
        BY <3>1, ProductMonotone
      <3>3. PICK y \in Nat : y = w * w
        OBVIOUS
      <3>4. QED BY <2>7, <3>2, <3>3
    <2>9. Shl(x, j) = z
      <3>1. z \in 0..(w - 1)
        BY <2>8
      <3>2. z % w = z
        BY <3>1, SmallMod
      <3>3. QED BY <2>3, <2>6, <3>2 DEF Shl
    <2>10. shiftl128(Half(x), u) = <<Shl(x, u - LimbBits), 0>>
      <3>1. u # k /\ u # 0 /\ ~(u < LimbBits) /\ u > LimbBits /\ u < 2 * LimbBits
        BY <1>1, <1>5, <1>9
      <3>2. QED BY <1>1, <1>4, <1>5, <3>1 DEF shiftl128
    <2>11. Splits(t, z, 0)
      <3>1. t = z * w + 0
        BY <2>6, <2>7
      <3>2. QED BY <1>0, <2>6, <2>8, <3>1 DEF Splits
    <2>12. QED BY <1>2, <2>2, <2>9, <2>10, <2>11, HalfOf
  <1>10. QED BY <1>1, <1>6, <1>7, <1>8, <1>9

\* and then nothing is shifted out of them.
LEMMA HalfLeftOut ==
  ASSUME NEW w \in Nat, w = Limb, NEW x \in 0..(w-1), NEW v \in 1..(2 * LimbBits - 1),
         NEW t \in Nat, t = x * Power(2, v), t < w * w
  PROVE  shiftr128(Half(x), 2 * LimbBits - v) = clear128
  <1>1. PICK k \in Nat : k = LimbBits /\ k > 1
    BY LimbFacts
  <1>2. PICK u \in Nat : u = 2 * LimbBits - v /\ u > 0 /\ u < 2 * k
    <2>1. PICK i \in Nat : i = v /\ i > 0 /\ i < 2 * k
      BY <1>1
    <2>2. 2 * k - i \in Nat /\ 2 * k - i > 0 /\ 2 * k - i < 2 * k
      BY <2>1
    <2>3. QED BY <1>1, <2>1, <2>2
  <1>3. Half(x) = <<0, x>> /\ x \in Nat
    BY SmallHalf DEF Word
  <1>4. UPPER(Half(x)) = 0 /\ LOWER(Half(x)) = x
    BY <1>3 DEF UPPER, LOWER
  <1>5. CASE u = k
    <2>1. shiftr128(Half(x), u) = <<0, 0>>
      BY <1>1, <1>2, <1>4, <1>5 DEF shiftr128
    <2>2. QED BY <1>2, <2>1 DEF clear128
  <1>6. CASE u > k
    <2>1. u - LimbBits \in 0..LimbBits
      BY <1>1, <1>2, <1>6
    <2>2. Shr(0, u - LimbBits) = 0
      BY <2>1, ShiftZero
    <2>3. shiftr128(Half(x), u) = <<0, Shr(0, u - LimbBits)>>
      <3>1. u # k /\ u # 0 /\ ~(u < LimbBits) /\ u > LimbBits /\ u < 2 * LimbBits
            /\ ~(u >= 2 * LimbBits)
        BY <1>1, <1>2, <1>6
      <3>2. QED BY <1>1, <1>4, <3>1 DEF shiftr128
    <2>4. QED BY <1>2, <2>2, <2>3 DEF clear128
  <1>7. CASE u < k
    <2>1. u \in 0..LimbBits /\ LimbBits - u \in 0..LimbBits
      BY <1>1, <1>2, <1>7
    <2>2. PICK p \in Nat : p = TwoTo[u] /\ p > 0
      BY <2>1, LimbFacts
    <2>3. PICK q \in Nat : q = TwoTo[LimbBits - u] /\ w = p * q
      BY <2>1, <2>2, TwoToSplit
    <2>4. Power(2, v) = w * q
      <3>1. PICK j \in Nat : j = LimbBits - u
        BY <1>1, <1>7
      <3>2. k + j = v
        BY <1>1, <1>2, <3>1
      <3>3. Power(2, k + j) = Power(2, k) * Power(2, j)
        BY PowerAdd
      <3>4. q = Power(2, j)
        BY <2>1, <2>3, <3>1, LimbFacts
      <3>5. QED BY <1>1, <3>2, <3>3, <3>4, LimbFacts
    <2>5. PICK z \in Nat : z = x * q
      BY <1>3, <2>3
    <2>6. t = z * w
      <3>1. x * (w * q) = (x * q) * w
        BY <1>3, <2>3
      <3>2. QED BY <2>4, <2>5, <3>1
    <2>7. z < w
      <3>1. SUFFICES ASSUME z >= w PROVE FALSE
        OBVIOUS
      <3>2. w * w <= z * w
        BY <3>1, ProductMonotone
      <3>3. PICK y \in Nat : y = w * w
        OBVIOUS
      <3>4. QED BY <2>6, <3>2, <3>3
    <2>8. x < p
      <3>1. SUFFICES ASSUME x >= p PROVE FALSE
        OBVIOUS
      <3>2. p * q <= x * q
        BY <1>3, <3>1, ProductMonotone
      <3>3. QED BY <2>3, <2>5, <2>7, <3>2
    <2>9. Shr(x, u) = 0
      <3>1. 0 * p + x = x /\ x \in 0..(p - 1)
        BY <1>3, <2>8
      <3>2. PICK n \in Nat : n = 0
        OBVIOUS
      <3>3. PICK y \in Nat : y = x
        BY <1>3
      <3>4. y \div p = n
        <4>1. y = n * p + x
          BY <3>1, <3>2, <3>3
        <4>2. QED BY <3>1, <4>1, DivisionIs
      <3>5. QED BY <2>2, <3>2, <3>3, <3>4 DEF Shr
    <2>10. Shr(0, u) = 0 /\ Shl(0, LimbBits - u) = 0 /\ Add(0, 0) = 0
      BY <2>1, ShiftZero, ZeroWord, AddZero
    <2>11. shiftr128(Half(x), u) = <<Shr(0, u), Add(Shl(0, LimbBits - u), Shr(x, u))>>
      <3>1. u # k /\ u # 0 /\ u < LimbBits /\ ~(u > LimbBits) /\ ~(u >= 2 * LimbBits) /\ u > 0
        BY <1>1, <1>2, <1>7
      <3>2. QED BY <1>1, <1>4, <3>1 DEF shiftr128
    <2>12. QED BY <1>2, <2>9, <2>10, <2>11 DEF clear128
  <1>8. QED BY <1>1, <1>5, <1>6, <1>7

\* A shift to the left multiplies by a power of two, when there is room.
LEMMA BigLeft ==
  ASSUME NEW w \in Nat, w = Limb, NEW x \in 0..(w-1), NEW v \in 0..(2 * LimbBits - 1),
         NEW t \in Nat, t = x * Power(2, v), t < w * w
  PROVE  shiftl256(Big(x), v) = Big(t)
  <1>1. PICK k \in Nat : k = LimbBits /\ k > 1
    BY LimbFacts
  <1>2. PICK u \in Nat : u = v
    OBVIOUS
  <1>3. UPPER(Big(x)) = clear128 /\ LOWER(Big(x)) = Half(x)
    BY DEF Big, UPPER, LOWER
  <1>4. ~(u >= 4 * k) /\ u # 2 * k /\ u < 2 * k /\ ~(u > 2 * k)
    BY <1>1, <1>2
  <1>5. CASE u = 0
    <2>1. Power(2, v) = 1
      BY <1>2, <1>5, PowerStep
    <2>2. t = x
      BY <2>1
    <2>3. shiftl256(Big(x), u) = Big(x)
      BY <1>1, <1>4, <1>5 DEF shiftl256
    <2>4. QED BY <1>2, <2>2, <2>3
  <1>6. CASE u > 0
    <2>1. v \in 1..(2 * LimbBits - 1)
      BY <1>2, <1>6
    <2>2. shiftl128(Half(x), v) = Half(t)
      BY HalfLeft
    <2>3. shiftr128(Half(x), 2 * LimbBits - v) = clear128
      BY <2>1, HalfLeftOut
    <2>4. shiftl128(clear128, v) = clear128
      BY <2>1, ShiftClear
    <2>5. add128(clear128, clear128) = clear128
      <3>1. PICK z \in Nat : z = 0
        OBVIOUS
      <3>2. z < w * w
        <4>1. PICK y \in Nat : y = w * w
          OBVIOUS
        <4>2. QED BY <3>1, <4>1
      <3>3. add128(Half(z), clear128) = Half(z)
        BY <3>2, AddClear
      <3>4. QED BY <3>1, <3>3, HalfZero
    <2>6. shiftl256(Big(x), u)
            = <<add128(shiftl128(clear128, u), shiftr128(Half(x), 2 * LimbBits - u)),
                shiftl128(Half(x), u)>>
      <3>1. u # 0 /\ u > 0
        BY <1>6
      <3>2. QED BY <1>1, <1>3, <1>4, <3>1 DEF shiftl256
    <2>7. QED BY <1>2, <2>2, <2>3, <2>4, <2>5, <2>6 DEF Big
  <1>7. QED BY <1>5, <1>6

\* A quotient by p from that by 2p and one bit.
LEMMA HalveDivision ==
  ASSUME NEW a \in Nat, NEW p \in Nat, p > 0
  PROVE  a \div p = (a \div (2 * p)) * 2 + ((a \div p) % 2)
  <1>1. PICK y \in Nat : y = a \div p
    BY DivisionTheorem
  <1>2. PICK r \in 0..(p - 1) : r = a % p
    BY DivisionTheorem
  <1>3. a = y * p + r
    BY <1>1, <1>2, DivisionTheorem
  <1>4. PICK c \in Nat, b \in 0..1 : y = 2 * c + b /\ b = y % 2
    BY <1>1
  <1>5. PICK q \in Nat : q = 2 * p
    OBVIOUS
  <1>6. PICK z \in Nat : z = b * p /\ z <= p
    <2>1. CASE b = 0
      <3>1. b * p = 0
        BY <2>1
      <3>2. QED BY <3>1
    <2>2. CASE b = 1
      <3>1. b * p = p
        BY <2>2
      <3>2. QED BY <3>1
    <2>3. QED BY <2>1, <2>2
  <1>7. IsDivision(a, q, c, z + r)
    <2>1. (2 * c + b) * p = c * (2 * p) + b * p
      BY <1>4
    <2>2. a = c * q + z + r
      BY <1>3, <1>4, <1>5, <1>6, <2>1
    <2>3. PICK x \in Nat : x = c * q
      OBVIOUS
    <2>4. c * q + z + r = c * q + (z + r)
      BY <1>2, <1>6, <2>3
    <2>5. z + r \in 0..(q - 1)
      BY <1>2, <1>5, <1>6
    <2>6. QED BY <2>2, <2>4, <2>5 DEF IsDivision
  <1>8. a \div q = c
    BY <1>7, DivisionBy
  <1>9. QED BY <1>1, <1>4, <1>5, <1>8

\* The bits of a limb, the highest one first.
BitList(a) == [i \in 1..LimbBits |-> Bit(a, LimbBits - i)]

\* Bit k of a limb.
LEMMA BitIs ==
  ASSUME NEW a \in Nat, NEW k \in 0..LimbBits
  PROVE  Bit(a, k) = (a \div Power(2, k)) % 2 /\ Bit(a, k) \in 0..1
  <1>1. PICK p \in Nat : p = TwoTo[k] /\ p = Power(2, k) /\ p > 0
    BY LimbFacts
  <1>2. PICK q \in Nat : q = a \div p
    BY <1>1, DivisionTheorem
  <1>3. q % 2 \in 0..1
    OBVIOUS
  <1>4. QED BY <1>1, <1>2, <1>3 DEF Bit, Shr

\* The bits of a limb, the most significant first, are the limb.
LEMMA BitsOfLimb ==
  ASSUME NEW a \in Word
  PROVE  Prefix(2, BitList(a), LimbBits) = a
  <1>1. PICK w \in Nat : w = Limb
    BY LimbFacts
  <1>2. PICK k \in Nat : k = LimbBits /\ Power(2, k) = w
    BY <1>1, LimbFacts
  <1>3. PICK x \in Nat : x = a /\ x < w
    BY <1>1 DEF Word
  <1> DEFINE S == {n \in Nat : n <= k => Prefix(2, BitList(a), n) = x \div Power(2, k - n)}
  <1>4. 0 \in S
    <2>1. Prefix(2, BitList(a), 0) = 0
      BY PrefixStep
    <2>2. PICK z \in Nat : z = 0
      OBVIOUS
    <2>3. IsDivision(x, w, z, x)
      <3>1. x = 0 * w + x
        OBVIOUS
      <3>2. QED BY <1>3, <2>2, <3>1 DEF IsDivision
    <2>4. x \div w = z
      BY <2>3, DivisionBy
    <2>5. k - 0 = k
      BY <1>2
    <2>6. QED BY <1>2, <2>1, <2>2, <2>4, <2>5
  <1>5. ASSUME NEW n \in Nat, n \in S PROVE n + 1 \in S
    <2>1. SUFFICES ASSUME n + 1 <= k
                   PROVE  Prefix(2, BitList(a), n + 1) = x \div Power(2, k - (n + 1))
      OBVIOUS
    <2>2. PICK j \in Nat : j = k - (n + 1) /\ j + 1 = k - n
      BY <1>2, <2>1
    <2>3. PICK p \in Nat : p = Power(2, j) /\ p > 0
      BY PowerType
    <2>4. Power(2, j + 1) = 2 * p
      BY <2>3, PowerStep
    <2>5. PICK v \in Nat : v = x \div (2 * p)
      <3>1. PICK q \in Nat : q = 2 * p /\ q > 0
        BY <2>3
      <3>2. QED BY <3>1, DivisionTheorem
    <2>6. Prefix(2, BitList(a), n) = v
      <3>1. n <= k
        BY <2>1
      <3>2. QED BY <1>5, <2>2, <2>4, <2>5, <3>1
    <2>7. PICK d \in Nat : d = (x \div p) % 2 /\ BitList(a)[n + 1] = d
      <3>1. j \in 0..LimbBits /\ n + 1 \in 1..LimbBits /\ LimbBits - (n + 1) = j
        BY <1>2, <2>1, <2>2
      <3>2. Bit(x, j) = (x \div p) % 2 /\ Bit(x, j) \in 0..1
        BY <2>3, <3>1, BitIs
      <3>3. BitList(a)[n + 1] = Bit(x, j)
        BY <1>3, <3>1 DEF BitList
      <3>4. QED BY <3>2, <3>3
    <2>8. PICK b \in Nat : b = 2
      OBVIOUS
    <2>9. Prefix(b, BitList(a), n + 1) = v * b + d
      BY <2>6, <2>7, <2>8, PrefixMore
    <2>10. x \div p = v * 2 + d
      BY <2>3, <2>5, <2>7, HalveDivision
    <2>11. QED BY <2>2, <2>3, <2>8, <2>9, <2>10
  <1> HIDE DEF S
  <1>6. Nat \subseteq S
    BY <1>4, <1>5, SetInduction
  <1>7. k - k = 0 /\ Power(2, 0) = 1 /\ x \div 1 = x
    BY PowerStep
  <1>8. k \in S
    BY <1>6
  <1>9. Prefix(2, BitList(a), k) = x \div Power(2, k - k)
    BY <1>8 DEF S
  <1>10. QED BY <1>2, <1>3, <1>7, <1>9

\* Or makes the limb with these bits.
LEMMA OrIs ==
  ASSUME NEW a, NEW b, NEW c \in Word,
         \A k \in 0..(LimbBits - 1) : Flag(Bit(a, k) = 1 \/ Bit(b, k) = 1) = Bit(c, k)
  PROVE  Or(a, b) = c
  <1> DEFINE list == [i \in 1..LimbBits |->
                        Flag(Bit(a, LimbBits - i) = 1 \/ Bit(b, LimbBits - i) = 1)]
  <1>1. PICK n \in Nat : n = LimbBits
    BY LimbFacts
  <1>2. Or(a, b) = Prefix(2, list, n)
    <2>1. Or(a, b) = Value(2, list)
      BY DEF Or
    <2>2. Len(list) = n
      BY <1>1
    <2> HIDE DEF list
    <2>3. QED BY <2>1, <2>2 DEF Value
  <1>3. \A i \in 1..n : list[i] = BitList(c)[i]
    <2>1. ASSUME NEW i \in 1..n PROVE list[i] = BitList(c)[i]
      <3>1. LimbBits - i \in 0..(LimbBits - 1) /\ i \in 1..LimbBits
        BY <1>1
      <3>2. PICK k \in 0..(LimbBits - 1) : k = LimbBits - i
        BY <3>1
      <3>3. list[i] = Flag(Bit(a, k) = 1 \/ Bit(b, k) = 1)
        BY <3>1, <3>2
      <3>4. BitList(c)[i] = Bit(c, k)
        BY <3>1, <3>2 DEF BitList
      <3>5. QED BY <3>3, <3>4
    <2>2. QED BY <2>1
  <1> HIDE DEF list
  <1>4. Prefix(2, list, n) = Prefix(2, BitList(c), n)
    BY <1>3, PrefixSame
  <1>5. QED BY <1>1, <1>2, <1>4, BitsOfLimb

\* Or with zero changes nothing.
LEMMA OrZero ==
  ASSUME NEW a \in Word
  PROVE  Or(a, 0) = a /\ Or(0, a) = a
  <1>1. a \in Nat
    BY DEF Word
  <1>2. ASSUME NEW k \in 0..(LimbBits - 1)
        PROVE  /\ Flag(Bit(a, k) = 1 \/ Bit(0, k) = 1) = Bit(a, k)
               /\ Flag(Bit(0, k) = 1 \/ Bit(a, k) = 1) = Bit(a, k)
    <2>1. k \in 0..LimbBits
      BY LimbFacts
    <2>2. Bit(0, k) = 0
      <3>1. Shr(0, k) = 0
        BY <2>1, ShiftZero
      <3>2. QED BY <3>1 DEF Bit
    <2>3. PICK d \in 0..1 : d = Bit(a, k)
      BY <1>1, <2>1, BitIs
    <2>4. QED BY <2>2, <2>3 DEF Flag
  <1>3. QED BY <1>2, OrIs

\* One bit below the last one of a.
LEMMA OrBit ==
  ASSUME NEW e \in 0..(LimbBits - 1), NEW d \in Nat, NEW a \in Nat, a = d * Power(2, e + 1),
         NEW p \in Nat, p = Power(2, e), a + p \in Word
  PROVE  Or(a, p) = a + p
  <1>1. PICK K \in Nat : K = LimbBits
    BY LimbFacts
  <1>2. p > 0
    BY PowerType
  <1>3. a = d * (2 * p)
    <2>1. PICK n \in Nat : n = e
      OBVIOUS
    <2>2. Power(2, n + 1) = 2 * Power(2, n)
      BY PowerStep
    <2>3. QED BY <2>1, <2>2
  <1>4. PICK c \in Nat : c = a + p
    OBVIOUS
  <1>5. ASSUME NEW k \in 0..(LimbBits - 1)
        PROVE  Flag(Bit(a, k) = 1 \/ Bit(p, k) = 1) = Bit(c, k)
    <2>0. k \in 0..LimbBits /\ k \in Nat /\ e \in Nat
      BY <1>1
    <2>1. PICK q \in Nat : q = Power(2, k) /\ q > 0
      BY <2>0, PowerType
    <2>2. Bit(a, k) = (a \div q) % 2 /\ Bit(p, k) = (p \div q) % 2 /\ Bit(c, k) = (c \div q) % 2
      BY <2>0, <2>1, BitIs
    <2>3. CASE k <= e
      <3>1. PICK i \in Nat : k + i = e
        <4>1. e - k \in Nat /\ k + (e - k) = e
          BY <2>0, <2>3
        <4>2. QED BY <4>1
      <3>2. PICK m \in Nat : m = Power(2, i) /\ m > 0
        BY PowerType
      <3>3. p = q * m
        <4>1. PICK j \in Nat : j = k
          BY <2>0
        <4>2. Power(2, j + i) = Power(2, j) * Power(2, i)
          BY PowerAdd
        <4>3. j + i = e
          BY <3>1, <4>1
        <4>4. QED BY <2>1, <3>2, <4>1, <4>2, <4>3
      <3>4. PICK x \in Nat : x = d * m
        OBVIOUS
      <3>5. a = (2 * x) * q /\ p = m * q /\ c = (2 * x + m) * q
        <4>1. d * (2 * (q * m)) = (2 * (d * m)) * q
          OBVIOUS
        <4>2. q * m = m * q
          OBVIOUS
        <4>3. (2 * x + m) * q = (2 * x) * q + m * q
          OBVIOUS
        <4>4. QED BY <1>3, <1>4, <3>3, <3>4, <4>1, <4>2, <4>3
      <3>6. a \div q = 2 * x /\ p \div q = m /\ c \div q = 2 * x + m
        <4>1. PICK y \in Nat : y = 2 * x
          OBVIOUS
        <4>2. PICK z \in Nat : z = 2 * x + m
          OBVIOUS
        <4>3. IsDivision(a, q, y, 0) /\ IsDivision(p, q, m, 0) /\ IsDivision(c, q, z, 0)
          <5>1. 0 \in 0..(q - 1)
            BY <2>1
          <5>2. y * q + 0 = y * q /\ m * q + 0 = m * q /\ z * q + 0 = z * q
            OBVIOUS
          <5>3. QED BY <3>5, <4>1, <4>2, <5>1, <5>2 DEF IsDivision
        <4>4. QED BY <4>1, <4>2, <4>3, DivisionBy
      <3>7. (2 * x) % 2 = 0 /\ (2 * x + m) % 2 = m % 2 /\ m % 2 \in 0..1
        OBVIOUS
      <3>8. PICK u \in 0..1 : u = m % 2
        BY <3>7
      <3>9. Bit(a, k) = 0 /\ Bit(p, k) = u /\ Bit(c, k) = u
        BY <2>2, <3>6, <3>7, <3>8
      <3>10. QED BY <3>8, <3>9 DEF Flag
    <2>4. CASE k > e
      <3>1. PICK i \in Nat : (e + 1) + i = k
        <4>1. k - (e + 1) \in Nat /\ (e + 1) + (k - (e + 1)) = k
          BY <2>0, <2>4
        <4>2. QED BY <4>1
      <3>2. PICK m \in Nat : m = Power(2, i) /\ m > 0
        BY PowerType
      <3>3. q = (2 * p) * m
        <4>1. PICK n \in Nat : n = e + 1
          BY <2>0
        <4>2. Power(2, n + i) = Power(2, n) * Power(2, i)
          BY PowerAdd
        <4>3. Power(2, n) = 2 * p
          BY <2>0, <4>1, PowerStep
        <4>4. QED BY <2>1, <3>1, <3>2, <4>1, <4>2, <4>3
      <3>4. PICK x \in Nat : x = d \div m
        BY <3>2, DivisionTheorem
      <3>5. PICK r \in 0..(m - 1) : r = d % m
        BY <3>2, DivisionTheorem
      <3>6. d = x * m + r
        <4>1. d = (d \div m) * m + (d % m)
          BY <3>2, DivisionTheorem
        <4>2. QED BY <3>4, <3>5, <4>1
      <3>7. PICK s \in Nat : s = 2 * p
        OBVIOUS
      <3>8. PICK t \in Nat : t = r * s
        BY <3>5
      <3>9. a = x * q + t
        <4>1. (x * m + r) * s = x * (s * m) + r * s
          BY <3>5
        <4>2. QED BY <1>3, <3>3, <3>6, <3>7, <3>8, <4>1
      <3>10. t + s <= q
        <4>1. r * s + s <= m * s
          BY <3>5, MultipleGap
        <4>2. m * s = s * m
          OBVIOUS
        <4>3. QED BY <3>3, <3>7, <3>8, <4>1, <4>2
      <3>11. p < s
        BY <1>2, <3>7
      <3>12. PICK z \in Nat : z = 0
        OBVIOUS
      <3>13. IsDivision(a, q, x, t) /\ IsDivision(c, q, x, t + p) /\ IsDivision(p, q, z, p)
        <4>1. t \in 0..(q - 1) /\ t + p \in 0..(q - 1) /\ p \in 0..(q - 1)
          BY <3>10, <3>11
        <4>2. PICK y \in Nat : y = x * q
          OBVIOUS
        <4>3. c = x * q + (t + p)
          BY <1>4, <3>9, <4>2
        <4>4. p = 0 * q + p
          OBVIOUS
        <4>5. QED BY <3>9, <3>12, <4>1, <4>3, <4>4 DEF IsDivision
      <3>14. a \div q = x /\ c \div q = x /\ p \div q = 0
        BY <3>12, <3>13, DivisionBy
      <3>15. x % 2 \in 0..1 /\ 0 % 2 = 0
        OBVIOUS
      <3>16. PICK u \in 0..1 : u = x % 2
        BY <3>15
      <3>17. Bit(a, k) = u /\ Bit(p, k) = 0 /\ Bit(c, k) = u
        BY <2>2, <3>14, <3>15, <3>16
      <3>18. QED BY <3>16, <3>17 DEF Flag
    <2>5. QED BY <2>0, <2>3, <2>4
  <1>6. c \in Word
    BY <1>4
  <1>7. Or(a, p) = c
    BY <1>5, <1>6, OrIs
  <1>8. QED BY <1>4, <1>7

\* The upper limb of a number that fits is a limb.
LEMMA FactorSmaller ==
  ASSUME NEW w \in Nat, NEW x \in Nat, NEW y \in Nat, x * w <= y, y < w * w
  PROVE  x < w
  <1>1. SUFFICES ASSUME x >= w PROVE FALSE
    OBVIOUS
  <1>2. w * w <= x * w
    BY <1>1, ProductMonotone
  <1>3. PICK z \in Nat : z = w * w
    OBVIOUS
  <1>4. PICK t \in Nat : t = x * w
    OBVIOUS
  <1>5. QED BY <1>2, <1>3, <1>4

\* Or of bits that are not there yet is their sum.
LEMMA HalfOr ==
  ASSUME NEW w \in Nat, w = Limb, NEW e \in 0..(2 * LimbBits - 1), NEW d \in Nat,
         NEW a \in Nat, a = d * Power(2, e + 1), NEW p \in Nat, p = Power(2, e), a + p < w * w
  PROVE  or128(Half(a), Half(p)) = Half(a + p)
  <1>0. w > 10
    BY LimbFacts
  <1>1. PICK K \in Nat : K = LimbBits /\ K > 1
    BY LimbFacts
  <1>2. PICK n \in Nat : n = e
    OBVIOUS
  <1>3. PICK s \in Nat : s = Power(2, n + 1) /\ s = 2 * p
    <2>1. Power(2, n + 1) = 2 * Power(2, n)
      BY PowerStep
    <2>2. QED BY <1>2, <2>1
  <1>4. a = d * s /\ p > 0
    <2>1. Power(2, n) > 0
      BY PowerType
    <2>2. QED BY <1>2, <1>3, <2>1
  <1>5. PICK c \in Nat : c = a + p
    OBVIOUS
  <1>6. CASE n < K
    <2>1. PICK i \in Nat : (n + 1) + i = K
      <3>1. K - (n + 1) \in Nat /\ (n + 1) + (K - (n + 1)) = K
        BY <1>6
      <3>2. QED BY <3>1
    <2>2. PICK m \in Nat : m = Power(2, i) /\ m > 0
      BY PowerType
    <2>3. w = s * m
      <3>1. PICK j \in Nat : j = n + 1
        OBVIOUS
      <3>2. Power(2, j + i) = Power(2, j) * Power(2, i)
        BY PowerAdd
      <3>3. QED BY <1>1, <1>3, <2>1, <2>2, <3>1, <3>2, LimbFacts
    <2>4. PICK x \in Nat : x = d \div m
      BY <2>2, DivisionTheorem
    <2>5. PICK r \in 0..(m - 1) : r = d % m
      BY <2>2, DivisionTheorem
    <2>6. d = x * m + r
      <3>1. d = (d \div m) * m + (d % m)
        BY <2>2, DivisionTheorem
      <3>2. QED BY <2>4, <2>5, <3>1
    <2>7. PICK t \in Nat : t = r * s
      BY <2>5
    <2>8. a = x * w + t
      <3>1. (x * m + r) * s = x * (s * m) + r * s
        BY <2>5
      <3>2. QED BY <1>4, <2>3, <2>6, <2>7, <3>1
    <2>9. t + s <= w
      <3>1. r * s + s <= m * s
        BY <2>5, MultipleGap
      <3>2. m * s = s * m
        OBVIOUS
      <3>3. QED BY <2>3, <2>7, <3>1, <3>2
    <2>10. PICK y \in Nat : y = x * w
      OBVIOUS
    <2>11. x < w
      <3>1. x * w <= c
        BY <1>5, <2>8, <2>10
      <3>2. QED BY <1>5, <3>1, FactorSmaller
    <2>12. t \in Word /\ t + p \in Word /\ x \in Word /\ p \in Word
      <3>1. t + p < w
        BY <1>3, <1>4, <2>9
      <3>2. QED BY <2>11, <3>1 DEF Word
    <2>13. Half(a) = <<x, t>>
      <3>1. Splits(a, x, t)
        BY <2>8, <2>12 DEF Splits, Word
      <3>2. QED BY <3>1, HalfOf
    <2>14. Half(c) = <<x, t + p>>
      <3>1. c = x * w + (t + p)
        BY <1>5, <2>8, <2>10
      <3>2. Splits(c, x, t + p)
        BY <2>12, <3>1 DEF Splits, Word
      <3>3. QED BY <3>2, HalfOf
    <2>15. Half(p) = <<0, p>>
      BY <2>12, SmallHalf
    <2>16. Or(x, 0) = x
      BY <2>12, OrZero
    <2>17. Or(t, p) = t + p
      <3>1. e \in 0..(LimbBits - 1)
        BY <1>1, <1>2, <1>6
      <3>2. r \in Nat /\ t = r * Power(2, e + 1)
        BY <1>2, <1>3, <2>5, <2>7
      <3>3. QED BY <2>12, <3>1, <3>2, OrBit
    <2>18. QED BY <1>5, <2>13, <2>14, <2>15, <2>16, <2>17 DEF or128, UPPER, LOWER
  <1>7. CASE n >= K
    <2>1. PICK i \in Nat : K + i = n
      <3>1. n - K \in Nat /\ K + (n - K) = n
        BY <1>7
      <3>2. QED BY <3>1
    <2>2. i \in 0..(LimbBits - 1)
      BY <1>1, <1>2, <2>1
    <2>3. PICK q \in Nat : q = Power(2, i)
      BY PowerType
    <2>4. p = q * w
      <3>1. Power(2, K + i) = Power(2, K) * Power(2, i)
        BY PowerAdd
      <3>2. w * q = q * w
        OBVIOUS
      <3>3. QED BY <1>1, <1>2, <2>1, <2>3, <3>1, <3>2, LimbFacts
    <2>5. PICK x \in Nat : x = d * Power(2, i + 1) /\ x = d * (2 * q)
      <3>1. Power(2, i + 1) = 2 * q
        BY <2>3, PowerStep
      <3>2. d * (2 * q) \in Nat
        OBVIOUS
      <3>3. QED BY <3>1, <3>2
    <2>6. a = x * w
      <3>1. d * (2 * (q * w)) = (d * (2 * q)) * w
        OBVIOUS
      <3>2. QED BY <1>3, <1>4, <2>4, <2>5, <3>1
    <2>7. c = (x + q) * w
      <3>1. (x + q) * w = x * w + q * w
        OBVIOUS
      <3>2. QED BY <1>5, <2>4, <2>6, <3>1
    <2>8. x + q < w
      <3>1. PICK z \in Nat : z = x + q
        OBVIOUS
      <3>2. z * w <= c
        BY <1>5, <2>7, <3>1
      <3>3. z < w
        BY <1>5, <3>2, FactorSmaller
      <3>4. QED BY <3>1, <3>3
    <2>9. x \in Word /\ q \in Word /\ x + q \in Word
      BY <2>8 DEF Word
    <2>10. Half(a) = <<x, 0>> /\ Half(p) = <<q, 0>> /\ Half(c) = <<x + q, 0>>
      <3>1. a = x * w + 0 /\ p = q * w + 0 /\ c = (x + q) * w + 0
        BY <2>4, <2>6, <2>7
      <3>2. Splits(a, x, 0) /\ Splits(p, q, 0) /\ Splits(c, x + q, 0)
        BY <2>9, <3>1, ZeroWord DEF Splits, Word
      <3>3. QED BY <3>2, HalfOf
    <2>11. Or(x, q) = x + q
      BY <2>2, <2>3, <2>5, <2>9, OrBit
    <2>12. Or(0, 0) = 0
      BY ZeroWord, OrZero
    <2>13. QED BY <1>5, <2>10, <2>11, <2>12 DEF or128, UPPER, LOWER
  <1>8. QED BY <1>6, <1>7

\* The same, of four limbs.
LEMMA BigOr ==
  ASSUME NEW w \in Nat, w = Limb, NEW e \in 0..(2 * LimbBits - 1), NEW d \in Nat,
         NEW a \in Nat, a = d * Power(2, e + 1), NEW p \in Nat, p = Power(2, e), a + p < w * w
  PROVE  or256(Big(a), Big(p)) = Big(a + p)
  <1>1. or128(Half(a), Half(p)) = Half(a + p)
    BY HalfOr
  <1>2. or128(clear128, clear128) = clear128
    <2>1. Or(0, 0) = 0
      BY ZeroWord, OrZero
    <2>2. QED BY <2>1 DEF or128, clear128, UPPER, LOWER
  <1>3. QED BY <1>1, <1>2 DEF or256, Big, UPPER, LOWER

----------------------------------------------------------------------------
(* The length of a number in bits *)

\* The length of a limb is that of its number in base 2.
LEMMA LimbLengthIs ==
  ASSUME NEW a \in Word
  PROVE  /\ LimbLength(a) \in 0..LimbBits
         /\ a < Power(2, LimbLength(a))
         /\ \A m \in Nat : m + 1 = LimbLength(a) => Power(2, m) <= a
         /\ a # 0 => LimbLength(a) > 0
  <1>1. PICK K \in Nat : K = LimbBits
    BY LimbFacts
  <1>2. PICK x \in Nat : x = a /\ x < Power(2, K)
    BY <1>1, LimbFacts DEF Word
  <1> DEFINE S == {n \in Nat : x < Power(2, n)}
  <1>3. K \in S /\ S \in SUBSET Nat
    BY <1>2
  <1>4. PICK n \in S : \A y \in S : n <= y
    <2> HIDE DEF S
    <2>1. S # {} /\ S \in SUBSET Nat
      BY <1>3
    <2>2. QED BY <2>1, MinOfNat
  <1>5. n \in Nat /\ x < Power(2, n) /\ n <= K
    BY <1>3, <1>4
  <1>6. \A m \in Nat : m < n => Power(2, m) <= x
    <2>1. ASSUME NEW m \in Nat, m < n PROVE Power(2, m) <= x
      <3>1. m \notin S
        BY <1>4, <1>5, <2>1
      <3>2. Power(2, m) \in Nat
        BY PowerType
      <3>3. QED BY <3>1, <3>2
    <2>2. QED BY <2>1
  <1> HIDE DEF S
  <1>7. {k \in 0..(LimbBits - 1) : a >= TwoTo[k]} = 0..(n - 1)
    <2>1. ASSUME NEW k \in 0..(LimbBits - 1)
          PROVE  (a >= TwoTo[k]) <=> k \in 0..(n - 1)
      <3>1. PICK m \in Nat : m = k
        OBVIOUS
      <3>2. m \in 0..LimbBits
        BY <1>1, <3>1
      <3>3. PICK p \in Nat : p = TwoTo[m] /\ p = Power(2, m)
        BY <3>2, LimbFacts
      <3>4. CASE m < n
        <4>1. p <= x
          BY <1>6, <3>3, <3>4
        <4>2. QED BY <1>2, <1>5, <3>1, <3>3, <3>4, <4>1
      <3>5. CASE m >= n
        <4>1. Power(2, n) <= Power(2, m)
          BY <1>5, <3>5, PowerMonotone
        <4>2. PICK z \in Nat : z = Power(2, n)
          BY <1>5, PowerType
        <4>3. x < p
          BY <1>5, <3>3, <4>1, <4>2
        <4>4. QED BY <1>2, <1>5, <3>1, <3>3, <3>5, <4>3
      <3>6. QED BY <1>5, <3>4, <3>5
    <2>2. \A k \in 0..(n - 1) : k \in 0..(LimbBits - 1)
      BY <1>1, <1>5
    <2>3. QED BY <2>1, <2>2
  <1>8. LimbLength(a) = n
    <2>1. Cardinality(0..(n - 1)) = n
      <3>1. 0 \in Int /\ n - 1 \in Int
        BY <1>5
      <3>2. Cardinality(0..(n - 1)) = IF 0 > n - 1 THEN 0 ELSE (n - 1) - 0 + 1
        BY <3>1, FS_Interval
      <3>3. QED BY <1>5, <3>2
    <2>2. QED BY <1>7, <2>1 DEF LimbLength
  <1>9. a # 0 => n > 0
    <2>1. n = 0 => x < 1
      BY <1>5, PowerStep
    <2>2. QED BY <1>2, <1>5, <2>1
  <1>10. \A m \in Nat : m + 1 = n => Power(2, m) <= a
    BY <1>2, <1>6
  <1>11. QED BY <1>1, <1>2, <1>5, <1>8, <1>9, <1>10

\* bits256 is the length of a number in base 2.
LEMMA BigLength ==
  ASSUME NEW w \in Nat, w = Limb, NEW a \in Nat, a < w * w, a > 0
  PROVE  \E m \in Nat : /\ bits256(Big(a)) = m + 1 /\ m + 1 <= 2 * LimbBits
                        /\ Power(2, m) <= a /\ a < Power(2, m + 1)
  <1>1. PICK K \in Nat : K = LimbBits
    BY LimbFacts
  <1>2. PICK h \in 0..(w-1), l \in 0..(w-1) : a = h * w + l /\ Half(a) = <<h, l>>
    BY HalfParts
  <1>3. h \in Word /\ l \in Word /\ h \in Nat /\ l \in Nat
    BY DEF Word
  <1>4. bits256(Big(a)) = bits128(Half(a))
    <2>1. zero128(UPPER(Big(a))) /\ LOWER(Big(a)) = Half(a)
      BY DEF Big, zero128, clear128, UPPER, LOWER
    <2>2. QED BY <2>1 DEF bits256
  <1>5. CASE h = 0
    <2>1. 0 * w + l = l
      OBVIOUS
    <2>2. l = a /\ l # 0
      BY <1>2, <1>5, <2>1
    <2>3. bits128(Half(a)) = LimbLength(l)
      BY <1>2, <1>5 DEF bits128, UPPER, LOWER
    <2>4. PICK m \in Nat : m + 1 = LimbLength(l) /\ m + 1 <= K
      <3>1. LimbLength(l) \in 0..K /\ LimbLength(l) > 0
        BY <1>1, <1>3, <2>2, LimbLengthIs
      <3>2. LimbLength(l) - 1 \in Nat /\ (LimbLength(l) - 1) + 1 = LimbLength(l)
        BY <3>1
      <3>3. QED BY <3>1, <3>2
    <2>5. Power(2, m) <= l /\ l < Power(2, m + 1)
      BY <1>3, <2>4, LimbLengthIs
    <2>6. bits256(Big(a)) = m + 1 /\ m + 1 <= 2 * LimbBits
      BY <1>1, <1>4, <2>3, <2>4
    <2>7. QED BY <2>2, <2>5, <2>6
  <1>6. CASE h # 0
    <2>1. bits128(Half(a)) = LimbBits + LimbLength(h)
      BY <1>2, <1>6 DEF bits128, UPPER, LOWER
    <2>2. PICK j \in Nat : j + 1 = LimbLength(h) /\ j + 1 <= K
      <3>1. LimbLength(h) \in 0..K /\ LimbLength(h) > 0
        BY <1>1, <1>3, <1>6, LimbLengthIs
      <3>2. LimbLength(h) - 1 \in Nat /\ (LimbLength(h) - 1) + 1 = LimbLength(h)
        BY <3>1
      <3>3. QED BY <3>1, <3>2
    <2>3. Power(2, j) <= h /\ h < Power(2, j + 1)
      BY <1>3, <2>2, LimbLengthIs
    <2>4. PICK x \in Nat : x = Power(2, j)
      BY PowerType
    <2>5. PICK y \in Nat : y = Power(2, j + 1)
      BY PowerType
    <2>6. PICK m \in Nat : m = K + j
      OBVIOUS
    <2>7. Power(2, m) = w * x
      <3>1. Power(2, K + j) = Power(2, K) * Power(2, j)
        BY PowerAdd
      <3>2. QED BY <1>1, <2>4, <2>6, <3>1, LimbFacts
    <2>8. Power(2, m + 1) = w * y
      <3>1. PICK i \in Nat : i = j + 1
        OBVIOUS
      <3>2. Power(2, K + i) = Power(2, K) * Power(2, i)
        BY PowerAdd
      <3>3. K + i = m + 1
        BY <2>6, <3>1
      <3>4. QED BY <1>1, <2>5, <3>1, <3>2, <3>3, LimbFacts
    <2>9. w * x <= a
      <3>1. x * w <= h * w
        BY <1>3, <2>3, <2>4, ProductMonotone
      <3>2. w * x = x * w
        OBVIOUS
      <3>3. PICK z \in Nat : z = h * w
        BY <1>3
      <3>4. PICK t \in Nat : t = x * w
        OBVIOUS
      <3>5. QED BY <1>2, <1>3, <3>1, <3>2, <3>3, <3>4
    <2>10. a < w * y
      <3>1. h * w + w <= y * w
        BY <1>3, <2>3, <2>5, MultipleGap
      <3>2. w * y = y * w
        OBVIOUS
      <3>3. PICK z \in Nat : z = h * w
        BY <1>3
      <3>4. PICK t \in Nat : t = y * w
        OBVIOUS
      <3>5. QED BY <1>2, <1>3, <3>1, <3>2, <3>3, <3>4
    <2>11. bits256(Big(a)) = m + 1 /\ m + 1 <= 2 * LimbBits
      BY <1>1, <1>4, <2>1, <2>2, <2>6
    <2>12. QED BY <2>7, <2>8, <2>9, <2>10, <2>11
  <1>7. QED BY <1>5, <1>6

----------------------------------------------------------------------------
(* The division by ten *)

\* A number of one limb, of four.
LEMMA SmallBig ==
  ASSUME NEW x \in Word
  PROVE  Big(x) = <<clear128, <<0, x>>>>
  BY SmallHalf DEF Big

\* Ten and one.
LEMMA TenIs == Ten = Big(10) /\ one = Big(1) /\ 10 \in Word /\ 1 \in Word
  <1>1. 10 \in Word /\ 1 \in Word
    BY LimbFacts DEF Word
  <1>2. QED BY <1>1, SmallBig DEF Ten, one

\* What the bit e of the quotient is asked for next: so far it is q, a multiple of
\* twice that bit, and m is left.
DivBit(s, l, m, q, d, e) ==
  /\ s.mod = Big(m) /\ s.div = Big(q) /\ l = q * 10 + m
  /\ s.copyd = Big(10 * Power(2, e)) /\ s.adder = Big(Power(2, e))
  /\ q = d * Power(2, e + 1) /\ m < 20 * Power(2, e)
  /\ 10 * Power(2, e) < Limb * Limb

\* The quotient has all of its bits.
DivLast(s, l, m, q) ==
  s.mod = Big(m) /\ s.div = Big(q) /\ l = q * 10 + m /\ m < 10

\* The division of l by ten at work: the bits of the quotient are asked for one by
\* one, or there are none left.
DivAt(s, l) ==
  \E m \in Nat, q \in Nat :
    \/ DivLast(s, l, m, q)
    \/ \E d \in Nat, e \in 0..(2 * LimbBits - 1) : DivBit(s, l, m, q, d, e)

\* Half of a multiple of a power of two.
LEMMA HalvePower ==
  ASSUME NEW v \in Nat, NEW e \in Nat, v = e + 1, NEW c \in Nat
  PROVE  (c * Power(2, v)) \div 2 = c * Power(2, e) /\ c * Power(2, v) = 2 * (c * Power(2, e))
  <1>1. PICK p \in Nat : p = Power(2, e)
    BY PowerType
  <1>2. Power(2, v) = 2 * p
    BY <1>1, PowerStep
  <1>3. c * (2 * p) = 2 * (c * p)
    OBVIOUS
  <1>4. PICK z \in Nat : z = c * p
    OBVIOUS
  <1>5. (2 * z) \div 2 = z
    OBVIOUS
  <1>6. QED BY <1>1, <1>2, <1>3, <1>4, <1>5

\* The divisor is shifted to the length of the dividend.
LEMMA DivisorShifted ==
  ASSUME NEW w \in Nat, w = Limb, NEW l \in Nat, l < w * w, l >= 10
  PROVE  \E v \in 0..(2 * LimbBits - 1) :
           /\ bits256(Big(l)) - bits256(Ten) = v
           /\ 10 * Power(2, v) < w * w
           /\ l < 20 * Power(2, v)
  <1>0. w > 10
    BY LimbFacts
  <1>1. 10 < w * w
    <2>1. 1 * w <= w * w
      BY <1>0, ProductMonotone
    <2>2. PICK y \in Nat : y = w * w
      OBVIOUS
    <2>3. 1 * w = w
      OBVIOUS
    <2>4. QED BY <1>0, <2>1, <2>2, <2>3
  <1>2. PICK i \in Nat : /\ bits256(Big(l)) = i + 1 /\ i + 1 <= 2 * LimbBits
                         /\ Power(2, i) <= l /\ l < Power(2, i + 1)
    BY BigLength
  <1>3. PICK j \in Nat : /\ bits256(Big(10)) = j + 1
                         /\ Power(2, j) <= 10 /\ 10 < Power(2, j + 1)
    <2>1. PICK t \in Nat : t = 10 /\ t < w * w /\ t > 0
      BY <1>1
    <2>2. \E m \in Nat : /\ bits256(Big(t)) = m + 1 /\ m + 1 <= 2 * LimbBits
                         /\ Power(2, m) <= t /\ t < Power(2, m + 1)
      BY <2>1, BigLength
    <2>3. QED BY <2>1, <2>2
  <1>4. j <= i
    <2>1. SUFFICES ASSUME i < j PROVE FALSE
      OBVIOUS
    <2>2. PICK n \in Nat : n = i + 1 /\ n <= j
      BY <2>1
    <2>3. Power(2, n) <= Power(2, j)
      BY <2>2, PowerMonotone
    <2>4. PICK x \in Nat : x = Power(2, n)
      BY PowerType
    <2>5. PICK y \in Nat : y = Power(2, j)
      BY PowerType
    <2>6. l < x /\ y <= 10
      BY <1>2, <1>3, <2>2, <2>4, <2>5
    <2>7. QED BY <2>3, <2>4, <2>5, <2>6
  <1>5. PICK v \in Nat : j + v = i
    <2>1. i - j \in Nat /\ j + (i - j) = i
      BY <1>4
    <2>2. QED BY <2>1
  <1>6. PICK x \in Nat : x = Power(2, j)
    BY PowerType
  <1>7. PICK p \in Nat : p = Power(2, v) /\ p > 0
    BY PowerType
  <1>8. Power(2, i) = x * p
    <2>1. Power(2, j + v) = Power(2, j) * Power(2, v)
      BY PowerAdd
    <2>2. QED BY <1>5, <1>6, <1>7, <2>1
  <1>9. Power(2, i + 1) = 2 * (x * p) /\ Power(2, j + 1) = 2 * x
    BY <1>6, <1>8, PowerStep
  <1>10. PICK z \in Nat : z = x * p
    OBVIOUS
  <1>11. PICK y \in Nat : y = 10 * p
    OBVIOUS
  <1>12. y < 2 * z
    <2>1. 10 * p + p <= (2 * x) * p
      BY <1>3, <1>9, MultipleGap
    <2>2. (2 * x) * p = 2 * (x * p)
      OBVIOUS
    <2>3. QED BY <1>7, <1>10, <1>11, <2>1, <2>2
  <1>13. z <= y
    <2>1. x * p <= 10 * p
      BY <1>3, <1>6, ProductMonotone
    <2>2. QED BY <1>10, <1>11, <2>1
  <1>14. 2 * z <= w * w
    <2>1. PICK K \in Nat : K = LimbBits
      BY LimbFacts
    <2>2. Power(2, K + K) = w * w
      BY <2>1, LimbFacts, PowerDouble
    <2>3. PICK n \in Nat : n = i + 1
      OBVIOUS
    <2>4. n <= K + K
      BY <1>2, <2>1, <2>3
    <2>5. Power(2, n) <= Power(2, K + K)
      <3>1. PICK a \in Nat : a = K + K
        OBVIOUS
      <3>2. Power(2, n) <= Power(2, a)
        BY <2>4, <3>1, PowerMonotone
      <3>3. QED BY <3>1, <3>2
    <2>6. QED BY <1>9, <1>10, <2>2, <2>3, <2>5
  <1>15. y < w * w
    <2>1. PICK u \in Nat : u = w * w
      OBVIOUS
    <2>2. QED BY <1>12, <1>14, <2>1
  <1>16. l < 20 * p
    <2>1. l < 2 * z
      BY <1>2, <1>9, <1>10
    <2>2. 20 * p = 2 * y
      BY <1>11
    <2>3. QED BY <1>13, <2>1, <2>2
  <1>17. v \in 0..(2 * LimbBits - 1)
    <2>1. PICK K \in Nat : K = LimbBits
      BY LimbFacts
    <2>2. QED BY <1>2, <1>5, <2>1
  <1>18. bits256(Big(l)) - bits256(Ten) = v
    BY <1>2, <1>3, <1>5, TenIs
  <1>19. QED BY <1>7, <1>11, <1>15, <1>16, <1>17, <1>18

\* The division begins with a divisor and a weight that satisfy the invariant.
LEMMA DivStartAt ==
  ASSUME NEW w \in Nat, w = Limb, NEW l \in Nat, l < w * w, l >= 10
  PROVE  DivAt(DivStart(Big(l), Ten), l)
  <1>0. w > 10
    BY LimbFacts
  <1>1. PICK v \in 0..(2 * LimbBits - 1) :
          /\ bits256(Big(l)) - bits256(Ten) = v
          /\ 10 * Power(2, v) < w * w
          /\ l < 20 * Power(2, v)
    BY DivisorShifted
  <1>2. PICK u \in Nat : u = v
    OBVIOUS
  <1>3. PICK p \in Nat : p = Power(2, v) /\ p > 0
    BY <1>2, PowerType
  <1>4. PICK t \in Nat : t = 10 * p /\ t < w * w
    BY <1>1, <1>3
  <1>5. p < w * w
    <2>1. PICK y \in Nat : y = w * w
      OBVIOUS
    <2>2. QED BY <1>4, <2>1
  <1>6. shiftl256(Ten, v) = Big(t)
    <2>1. PICK x \in 0..(w - 1) : x = 10
      BY <1>0
    <2>2. t = x * Power(2, v)
      BY <1>3, <1>4, <2>1
    <2>3. shiftl256(Big(x), v) = Big(t)
      BY <1>4, <2>2, BigLeft
    <2>4. QED BY <2>1, <2>3, TenIs
  <1>7. shiftl256(one, v) = Big(p)
    <2>1. PICK x \in 0..(w - 1) : x = 1
      BY <1>0
    <2>2. p = x * Power(2, v)
      BY <1>3, <2>1
    <2>3. shiftl256(Big(x), v) = Big(p)
      BY <1>5, <2>2, BigLeft
    <2>4. QED BY <2>1, <2>3, TenIs
  <1>8. gt256(Big(t), Big(l)) <=> t > l
    BY <1>4, BigGreater
  <1>9. clear256 = Big(0)
    BY HalfZero
  <1>10. PICK s : s = DivStart(Big(l), Ten)
    OBVIOUS
  <1>11. l = 0 * 10 + l
    OBVIOUS
  <1>12. CASE t <= l
    <2>1. ~gt256(Big(t), Big(l))
      BY <1>8, <1>12
    <2>2. s = [mod |-> Big(l), div |-> Big(0), copyd |-> Big(t), adder |-> Big(p)]
      BY <1>1, <1>6, <1>7, <1>9, <1>10, <2>1 DEF DivStart
    <2>3. s.mod = Big(l) /\ s.div = Big(0) /\ s.copyd = Big(t) /\ s.adder = Big(p)
      BY <2>2
    <2>4. 0 = 0 * Power(2, v + 1)
      <3>1. PICK n \in Nat : n = v + 1
        BY <1>2
      <3>2. Power(2, n) \in Nat
        BY PowerType
      <3>3. QED BY <3>1, <3>2
    <2>5. DivBit(s, l, l, 0, 0, v)
      BY <1>1, <1>3, <1>4, <1>11, <2>3, <2>4 DEF DivBit
    <2>6. 0 \in Nat
      OBVIOUS
    <2>7. QED BY <1>10, <2>5, <2>6, Zenon DEF DivAt
  <1>13. CASE t > l
    <2>1. gt256(Big(t), Big(l))
      BY <1>8, <1>13
    <2>2. PICK e \in Nat : u = e + 1
      <3>1. u # 0
        <4>1. Power(2, 0) = 1
          BY PowerStep
        <4>2. QED BY <1>2, <1>3, <1>4, <1>13, <4>1
      <3>2. u - 1 \in Nat /\ u = (u - 1) + 1
        BY <3>1
      <3>3. QED BY <3>2
    <2>3. PICK q \in Nat : q = Power(2, e)
      BY PowerType
    <2>4. (10 * Power(2, u)) \div 2 = 10 * Power(2, e) /\ 10 * Power(2, u) = 2 * (10 * Power(2, e))
      BY <2>2, HalvePower
    <2>5. (1 * Power(2, u)) \div 2 = 1 * Power(2, e)
      BY <2>2, HalvePower
    <2>6. t \div 2 = 10 * q /\ t = 20 * q /\ p \div 2 = q
      BY <1>2, <1>3, <1>4, <2>3, <2>4, <2>5
    <2>7. shiftr256(Big(t), 1) = Big(10 * q) /\ shiftr256(Big(p), 1) = Big(q)
      BY <1>4, <1>5, <2>6, BigRight
    <2>8. s = [mod |-> Big(l), div |-> Big(0), copyd |-> Big(10 * q), adder |-> Big(q)]
      BY <1>1, <1>6, <1>7, <1>9, <1>10, <2>1, <2>7 DEF DivStart
    <2>9. s.mod = Big(l) /\ s.div = Big(0) /\ s.copyd = Big(10 * q) /\ s.adder = Big(q)
      BY <2>8
    <2>10. 0 = 0 * Power(2, e + 1)
      <3>1. PICK n \in Nat : n = e + 1
        OBVIOUS
      <3>2. Power(2, n) \in Nat
        BY PowerType
      <3>3. QED BY <3>1, <3>2
    <2>11. l < 20 * q /\ 10 * q < w * w
      <3>1. PICK y \in Nat : y = w * w
        OBVIOUS
      <3>2. QED BY <1>4, <1>13, <2>6, <3>1
    <2>12. DivBit(s, l, l, 0, 0, e)
      BY <1>11, <2>3, <2>9, <2>10, <2>11 DEF DivBit
    <2>13. 0 \in Nat /\ e \in 0..(2 * LimbBits - 1)
      <3>1. PICK K \in Nat : K = LimbBits
        BY LimbFacts
      <3>2. QED BY <1>2, <2>2, <3>1
    <2>14. QED BY <1>10, <2>12, <2>13, Zenon DEF DivAt
  <1>14. QED BY <1>4, <1>12, <1>13

\* One bit of the quotient.
LEMMA DivStepAt ==
  ASSUME NEW w \in Nat, w = Limb, NEW l \in Nat, l < w * w, NEW s, DivAt(s, l),
         gte256(s.mod, Ten)
  PROVE  DivAt(DivStep(s), l) /\ ~zero256(s.adder)
  <1>0. w > 10
    BY LimbFacts
  <1>1. PICK m \in Nat, q \in Nat :
          \/ DivLast(s, l, m, q)
          \/ \E d \in Nat, e \in 0..(2 * LimbBits - 1) : DivBit(s, l, m, q, d, e)
    BY DEF DivAt
  <1>2. s.mod = Big(m) /\ s.div = Big(q) /\ l = q * 10 + m
    BY <1>1, Zenon DEF DivLast, DivBit
  <1>3. m < w * w /\ q * 10 < w * w /\ 10 < w * w
    <2>1. PICK y \in Nat : y = w * w
      OBVIOUS
    <2>2. 10 * w <= w * w
      BY <1>0, ProductMonotone
    <2>3. QED BY <1>0, <1>2, <2>1, <2>2
  <1>4. m >= 10
    <2>1. PICK t \in Nat : t = 10
      OBVIOUS
    <2>2. gte256(Big(m), Big(t)) <=> m >= t
      BY <1>3, <2>1, BigGreater
    <2>3. QED BY <1>2, <2>1, <2>2, TenIs
  <1>5. PICK d \in Nat, e \in 0..(2 * LimbBits - 1) : DivBit(s, l, m, q, d, e)
    <2>1. ~DivLast(s, l, m, q)
      BY <1>4 DEF DivLast
    <2>2. QED BY <1>1, <2>1
  <1>6. PICK i \in Nat : i = e
    OBVIOUS
  <1>7. PICK p \in Nat : p = Power(2, e) /\ p > 0
    BY <1>6, PowerType
  <1>8. PICK c \in Nat : c = 10 * p
    OBVIOUS
  <1>9. /\ s.copyd = Big(c) /\ s.adder = Big(p) /\ m < 2 * c /\ c < w * w
        /\ q = d * Power(2, e + 1)
    <2>1. m < 20 * p /\ 20 * p = 2 * c
      BY <1>5, <1>7, <1>8 DEF DivBit
    <2>2. QED BY <1>5, <1>7, <1>8, <2>1 DEF DivBit
  <1>10. p < w * w
    <2>1. PICK y \in Nat : y = w * w
      OBVIOUS
    <2>2. QED BY <1>8, <1>9, <2>1
  <1>11. ~zero256(s.adder)
    BY <1>7, <1>9, <1>10, BigGreater
  <1>12. gte256(s.mod, s.copyd) <=> m >= c
    BY <1>2, <1>3, <1>9, BigGreater
  <1>13. PICK n : n = DivStep(s)
    OBVIOUS
  <1>14. n.copyd = Big(c \div 2) /\ n.adder = Big(p \div 2)
    <2>1. shiftr256(Big(c), 1) = Big(c \div 2) /\ shiftr256(Big(p), 1) = Big(p \div 2)
      BY <1>9, <1>10, BigRight
    <2>2. QED BY <1>9, <1>13, <2>1 DEF DivStep
  <1>15. \E x \in Nat, r \in Nat, b \in 0..1 :
           /\ n.mod = Big(x) /\ n.div = Big(r) /\ l = r * 10 + x /\ x < c
           /\ r = q + b * p
    <2>1. CASE m >= c
      <3>1. minus256(Big(m), Big(c)) = Big(m - c)
        BY <1>3, <2>1, BigMinus
      <3>2. q + p < w * w
        <4>1. PICK y \in Nat : y = w * w
          OBVIOUS
        <4>2. QED BY <1>2, <1>8, <2>1, <4>1
      <3>3. or256(Big(q), Big(p)) = Big(q + p)
        BY <1>7, <1>9, <3>2, BigOr
      <3>4. n.mod = Big(m - c) /\ n.div = Big(q + p)
        BY <1>2, <1>9, <1>12, <1>13, <2>1, <3>1, <3>3 DEF DivStep
      <3>5. PICK x \in Nat : x = m - c
        BY <2>1
      <3>6. PICK r \in Nat : r = q + p
        OBVIOUS
      <3>7. l = r * 10 + x /\ x < c /\ r = q + 1 * p
        BY <1>2, <1>8, <1>9, <3>5, <3>6
      <3>8. 1 \in 0..1
        OBVIOUS
      <3>9. QED BY <3>4, <3>5, <3>6, <3>7, <3>8
    <2>2. CASE m < c
      <3>1. ~(m >= c)
        BY <2>2
      <3>2. n.mod = Big(m) /\ n.div = Big(q)
        BY <1>2, <1>12, <1>13, <3>1 DEF DivStep
      <3>3. q = q + 0 * p /\ 0 \in 0..1
        OBVIOUS
      <3>4. QED BY <1>2, <2>2, <3>2, <3>3
    <2>3. QED BY <2>1, <2>2
  <1>16. PICK x \in Nat, r \in Nat, b \in 0..1 :
           /\ n.mod = Big(x) /\ n.div = Big(r) /\ l = r * 10 + x /\ x < c
           /\ r = q + b * p
    BY <1>15
  <1>17. CASE i = 0
    <2>1. Power(2, 0) = 1
      BY PowerStep
    <2>2. x < 10
      BY <1>6, <1>7, <1>8, <1>16, <1>17, <2>1
    <2>3. DivLast(n, l, x, r)
      BY <1>16, <2>2 DEF DivLast
    <2>4. QED BY <1>11, <1>13, <2>3, Zenon DEF DivAt
  <1>18. CASE i # 0
    <2>1. PICK f \in Nat : i = f + 1
      <3>1. i - 1 \in Nat /\ i = (i - 1) + 1
        BY <1>18
      <3>2. QED BY <3>1
    <2>2. PICK g \in Nat : g = Power(2, f)
      BY PowerType
    <2>3. (10 * Power(2, i)) \div 2 = 10 * Power(2, f) /\ 10 * Power(2, i) = 2 * (10 * Power(2, f))
      BY <2>1, HalvePower
    <2>4. (1 * Power(2, i)) \div 2 = 1 * Power(2, f) /\ 1 * Power(2, i) = 2 * (1 * Power(2, f))
      BY <2>1, HalvePower
    <2>5. c \div 2 = 10 * g /\ c = 20 * g /\ p \div 2 = g /\ p = 2 * g
      BY <1>6, <1>7, <1>8, <2>2, <2>3, <2>4
    <2>6. PICK h \in Nat : h = 2 * d + b
      OBVIOUS
    <2>7. r = h * Power(2, f + 1)
      <3>1. Power(2, f + 1) = p
        BY <1>6, <1>7, <2>1
      <3>2. Power(2, e + 1) = 2 * p
        <4>1. Power(2, i + 1) = 2 * Power(2, i)
          BY PowerStep
        <4>2. QED BY <1>6, <1>7, <4>1
      <3>3. (2 * d + b) * p = d * (2 * p) + b * p
        OBVIOUS
      <3>4. QED BY <1>9, <1>16, <2>6, <3>1, <3>2, <3>3
    <2>8. 10 * g < w * w
      <3>1. PICK y \in Nat : y = w * w
        OBVIOUS
      <3>2. QED BY <1>9, <2>5, <3>1
    <2>9. x < 20 * g
      BY <1>16, <2>5
    <2>10. DivBit(n, l, x, r, h, f)
      BY <1>14, <1>16, <2>2, <2>5, <2>7, <2>8, <2>9 DEF DivBit
    <2>11. f \in 0..(2 * LimbBits - 1)
      <3>1. PICK K \in Nat : K = LimbBits
        BY LimbFacts
      <3>2. QED BY <1>6, <2>1, <3>1
    <2>12. QED BY <1>11, <1>13, <2>10, <2>11, Zenon DEF DivAt
  <1>19. QED BY <1>17, <1>18

\* The division by ten: from its beginning,
LEMMA DivideAt ==
  ASSUME NEW w \in Nat, w = Limb, NEW l \in Nat, l < w * w
  PROVE  DivAt(divmod256(Big(l), Ten), l)
  <1>1. 10 < w * w
    <2>1. w > 10
      BY LimbFacts
    <2>2. 10 * w <= w * w
      BY <2>1, ProductMonotone
    <2>3. PICK y \in Nat : y = w * w
      OBVIOUS
    <2>4. QED BY <2>1, <2>2, <2>3
  <1>2. PICK t \in Nat : t = 10
    OBVIOUS
  <1>3. gt256(Big(t), Big(l)) <=> t > l
    BY <1>1, <1>2, BigGreater
  <1>4. CASE l >= 10
    <2>1. ~gt256(Ten, Big(l))
      BY <1>2, <1>3, <1>4, TenIs
    <2>2. divmod256(Big(l), Ten) = DivStart(Big(l), Ten)
      BY <2>1 DEF divmod256
    <2>3. QED BY <1>4, <2>2, DivStartAt
  <1>5. CASE l < 10
    <2>1. gt256(Ten, Big(l))
      BY <1>2, <1>3, <1>5, TenIs
    <2>2. divmod256(Big(l), Ten) = NotDivided(Big(l))
      BY <2>1 DEF divmod256
    <2>3. NotDivided(Big(l)).mod = Big(l) /\ NotDivided(Big(l)).div = Big(0)
      BY HalfZero DEF NotDivided
    <2>4. l = 0 * 10 + l /\ 0 \in Nat
      OBVIOUS
    <2>5. DivLast(divmod256(Big(l), Ten), l, l, 0)
      BY <1>5, <2>2, <2>3, <2>4 DEF DivLast
    <2>6. QED BY <2>4, <2>5, Zenon DEF DivAt
  <1>6. QED BY <1>4, <1>5

\* to its end.
LEMMA DividedBy ==
  ASSUME NEW w \in Nat, w = Limb, NEW l \in Nat, l < w * w, NEW s, DivAt(s, l),
         ~gte256(s.mod, Ten)
  PROVE  \E q \in Nat, m \in 0..9 : s.div = Big(q) /\ s.mod = Big(m) /\ l = q * 10 + m
  <1>1. PICK m \in Nat, q \in Nat :
          \/ DivLast(s, l, m, q)
          \/ \E d \in Nat, e \in 0..(2 * LimbBits - 1) : DivBit(s, l, m, q, d, e)
    BY DEF DivAt
  <1>2. s.mod = Big(m) /\ s.div = Big(q) /\ l = q * 10 + m
    BY <1>1, Zenon DEF DivLast, DivBit
  <1>3. m < w * w /\ 10 < w * w
    <2>1. PICK y \in Nat : y = w * w
      OBVIOUS
    <2>2. w > 10
      BY LimbFacts
    <2>3. 10 * w <= w * w
      BY <2>2, ProductMonotone
    <2>4. QED BY <1>2, <2>1, <2>2, <2>3
  <1>4. m < 10
    <2>1. PICK t \in Nat : t = 10
      OBVIOUS
    <2>2. gte256(Big(m), Big(t)) <=> m >= t
      BY <1>3, <2>1, BigGreater
    <2>3. QED BY <1>2, <2>1, <2>2, TenIs
  <1>5. m \in 0..9
    BY <1>4
  <1>6. QED BY <1>2, <1>5

\* z is the n members of s after the first m.
Sliced(D, z, s, m, n) ==
  z \in Seq(D) /\ Len(z) = n /\ \A i \in 1..n : z[i] = s[m + i]

\* SubSeq is a slice.
LEMMA SliceFacts ==
  ASSUME NEW D, NEW s \in Seq(D), NEW m \in Nat, NEW n \in Nat, m + n <= Len(s)
  PROVE  Sliced(D, SubSeq(s, m + 1, m + n), s, m, n)
  BY DEF Sliced

\* A slice of a slice is one of the whole.
LEMMA SliceWhole ==
  ASSUME NEW D, NEW s \in Seq(D), NEW z, NEW y, NEW m \in Nat, NEW n \in Nat, NEW k \in Nat, NEW j \in Nat,
         Sliced(D, z, s, m, n), Sliced(D, y, z, k, j), k + j <= n
  PROVE  Sliced(D, y, s, m + k, j)
  <1>1. ASSUME NEW i \in 1..j PROVE y[i] = s[m + k + i]
    <2>1. k + i \in 1..n /\ m + (k + i) = m + k + i
      OBVIOUS
    <2>2. y[i] = z[k + i]
      BY DEF Sliced
    <2>3. z[k + i] = s[m + (k + i)]
      BY <2>1 DEF Sliced
    <2>4. QED BY <2>1, <2>2, <2>3
  <1>2. y \in Seq(D) /\ Len(y) = j
    BY DEF Sliced
  <1>3. QED BY <1>1, <1>2 DEF Sliced

\* The base of the bytes.
ByteBase == Power(2, ByteBits)

\* The powers of a byte.
LEMMA ByteFacts ==
  /\ ByteBase \in Nat /\ ByteBase > 0 /\ LimbBytes \in Nat /\ LimbBytes > 0
  /\ Power(ByteBase, LimbBytes) = Limb
  /\ Power(ByteBase, 2 * LimbBytes - 1) = Power(2, ByteBits * (2 * LimbBytes - 1))
  <1>1. PICK c \in Nat : c = ByteBits
    BY LimbAssumption
  <1>2. PICK n \in Nat : n = LimbBytes /\ n > 0
    BY LimbAssumption
  <1>3. Power(2, c) \in Nat /\ Power(2, c) > 0
    BY PowerType
  <1>4. PICK k \in Nat : k = 2 * LimbBytes - 1
    BY <1>2
  <1>5. \A j \in Nat : Power(Power(2, c), j) = Power(2, c * j)
    BY PowerOfPower
  <1>6. Power(Power(2, c), n) = Power(2, c * n) /\ Power(Power(2, c), k) = Power(2, c * k)
    BY <1>5
  <1>7. Limb = Power(2, c * n)
    BY <1>1, <1>2, LimbFacts DEF LimbBits
  <1>8. QED BY <1>1, <1>2, <1>3, <1>4, <1>6, <1>7 DEF ByteBase

\* The bytes of an amount.
LEMMA AmountBytesType ==
  ASSUME NEW data \in AmountBytes
  PROVE  /\ data \in Seq(Byte) /\ Len(data) \in Nat /\ Len(data) <= 2 * LimbBytes - 1
         /\ \A i \in 1..Len(data) : data[i] \in 0..(ByteBase - 1) /\ data[i] \in Nat
  <1>1. data \in Seq(Byte) /\ Len(data) <= 2 * LimbBytes - 1
    BY EncodingAssumption
  <1>2. Len(data) \in Nat
    BY <1>1
  <1>3. \A i \in 1..Len(data) : data[i] \in Byte
    BY <1>1, SeqElement
  <1>4. QED BY <1>1, <1>2, <1>3 DEF Byte, ByteBase

\* The bytes of an amount, behind zeros.
Padded(data) == [i \in 1..(4 * LimbBytes - Len(data)) |-> 0] \o data

\* Behind zeros they fill four limbs (currency.h:49).
LEMMA PaddedIs ==
  ASSUME NEW data \in AmountBytes
  PROVE  /\ Padded(data) \in Seq(Byte) /\ Len(Padded(data)) = 4 * LimbBytes
         /\ \A i \in 1..(4 * LimbBytes) :
              Padded(data)[i] \in 0..(ByteBase - 1) /\ Padded(data)[i] \in Nat
         /\ \A i \in 1..(4 * LimbBytes - Len(data)) : Padded(data)[i] = 0
         /\ \A i \in 1..Len(data) : Padded(data)[4 * LimbBytes - Len(data) + i] = data[i]
  <1>1. PICK n \in Nat : n = Len(data)
    BY AmountBytesType
  <1>2. PICK B \in Nat : B = LimbBytes /\ B > 0
    BY ByteFacts
  <1>3. PICK k \in Nat : k = 4 * B - n
    <2>1. n <= 2 * B - 1
      BY <1>1, <1>2, AmountBytesType
    <2>2. 4 * B - n \in Nat
      BY <1>2, <2>1
    <2>3. QED BY <2>2
  <1>4. PICK zs : zs = [i \in 1..k |-> 0]
    OBVIOUS
  <1>5. 0 \in Byte
    BY ByteFacts DEF Byte, ByteBase
  <1>6. zs \in Seq(Byte) /\ Len(zs) = k /\ \A i \in 1..k : zs[i] = 0
    <2>1. zs \in [1..k -> Byte]
      BY <1>4, <1>5
    <2>2. QED BY <1>4, <2>1
  <1>7. PICK p : p = Padded(data)
    OBVIOUS
  <1>8. p = zs \o data
    BY <1>1, <1>2, <1>3, <1>4, <1>7 DEF Padded
  <1>9. Concatenated(Byte, p, zs, data, k, n)
    <2>1. zs \in Seq(Byte) /\ data \in Seq(Byte) /\ Len(zs) = k /\ Len(data) = n /\ k \in Nat /\ n \in Nat
      BY <1>1, <1>6, AmountBytesType
    <2>2. Concatenated(Byte, zs \o data, zs, data, k, n)
      BY <2>1, JoinFacts, Zenon
    <2>3. QED BY <1>8, <2>2
  <1>10. p \in Seq(Byte) /\ Len(p) = 4 * B
    BY <1>1, <1>3, <1>9, AmountBytesType DEF Concatenated
  <1>11. \A i \in 1..(4 * B) : p[i] \in 0..(ByteBase - 1) /\ p[i] \in Nat
    <2>1. \A i \in 1..Len(p) : p[i] \in Byte
      BY <1>10, SeqElement
    <2>2. QED BY <1>10, <2>1 DEF Byte, ByteBase
  <1>12. \A i \in 1..k : p[i] = 0
    BY <1>6, <1>9 DEF Concatenated
  <1>13. \A i \in 1..n : p[k + i] = data[i]
    BY <1>9 DEF Concatenated
  <1>14. QED BY <1>1, <1>2, <1>3, <1>7, <1>10, <1>11, <1>12, <1>13

----------------------------------------------------------------------------
(* Amounts.                                                                *)

\* What is read from a part of a sequence of bytes.
LEMMA ReadSlice ==
  ASSUME NEW z, NEW p, NEW m \in Nat, NEW B \in Nat, B = LimbBytes, Sliced(Byte, z, p, m, B)
  PROVE  /\ readUint64BE(z) = Prefix(ByteBase, z, B)
         /\ \A i \in 1..B : z[i] \in 0..(ByteBase - 1) /\ z[i] \in Nat
         /\ readUint64BE(z) \in 0..(Limb - 1)
  <1>1. z \in Seq(Byte) /\ Len(z) = B
    BY DEF Sliced
  <1>2. readUint64BE(z) = Prefix(ByteBase, z, B)
    BY <1>1 DEF readUint64BE, Value, ByteBase
  <1>3. PICK b \in Nat : b = ByteBase
    BY ByteFacts
  <1>4. \A i \in 1..B : z[i] \in 0..(b - 1)
    <2>1. \A i \in 1..Len(z) : z[i] \in Byte
      BY <1>1, SeqElement
    <2>2. QED BY <1>1, <1>3, <2>1 DEF Byte, ByteBase
  <1>5. Prefix(b, z, B) \in Nat /\ Prefix(b, z, B) < Power(b, B)
    BY <1>4, PrefixBound
  <1>6. PICK w \in Nat : w = Limb
    BY LimbFacts
  <1>7. Power(b, B) = w
    BY <1>3, <1>6, ByteFacts
  <1>8. PICK v \in Nat : v = Prefix(b, z, B)
    BY <1>5
  <1>9. v \in 0..(w - 1)
    BY <1>5, <1>7, <1>8
  <1>10. QED BY <1>2, <1>3, <1>4, <1>6, <1>8, <1>9

\* The limbs that convertUint256BE reads.
LEMMA LimbsRead ==
  ASSUME NEW data \in AmountBytes, NEW p, p = Padded(data), NEW B \in Nat, B = LimbBytes
  PROVE  \E z1, z2, z3, z4 :
           /\ Sliced(Byte, z1, p, 0, B) /\ Sliced(Byte, z2, p, B, B)
           /\ Sliced(Byte, z3, p, 2 * B, B) /\ Sliced(Byte, z4, p, 3 * B, B)
           /\ convertUint256BE(data)
                = <<<<readUint64BE(z1), readUint64BE(z2)>>, <<readUint64BE(z3), readUint64BE(z4)>>>>
  <1>1. p \in Seq(Byte) /\ Len(p) = 4 * B
    BY PaddedIs
  <1>2. PICK x : x = SubSeq(p, 1, 2 * B)
    OBVIOUS
  <1>3. PICK y : y = SubSeq(p, 2 * B + 1, 4 * B)
    OBVIOUS
  <1>4. Sliced(Byte, x, p, 0, 2 * B)
    <2>1. 0 + 1 = 1 /\ 0 + 2 * B = 2 * B /\ 0 \in Nat /\ 2 * B \in Nat /\ 0 + 2 * B <= Len(p)
      BY <1>1
    <2>2. Sliced(Byte, SubSeq(p, 0 + 1, 0 + 2 * B), p, 0, 2 * B)
      BY <1>1, <2>1, SliceFacts
    <2>3. QED BY <1>2, <2>1, <2>2
  <1>5. Sliced(Byte, y, p, 2 * B, 2 * B)
    <2>1. 2 * B + 2 * B = 4 * B /\ 2 * B \in Nat /\ 2 * B + 2 * B <= Len(p)
      BY <1>1
    <2>2. Sliced(Byte, SubSeq(p, 2 * B + 1, 2 * B + 2 * B), p, 2 * B, 2 * B)
      BY <1>1, <2>1, SliceFacts
    <2>3. QED BY <1>3, <2>1, <2>2
  <1>6. ASSUME NEW s, NEW m \in Nat, Sliced(Byte, s, p, m, 2 * B)
        PROVE  /\ Sliced(Byte, SubSeq(s, 1, B), p, m, B)
               /\ Sliced(Byte, SubSeq(s, B + 1, 2 * B), p, m + B, B)
    <2>1. s \in Seq(Byte) /\ Len(s) = 2 * B
      BY <1>6 DEF Sliced
    <2>2. 0 + 1 = 1 /\ 0 + B = B /\ 0 \in Nat /\ B + B = 2 * B /\ 2 * B \in Nat
          /\ 0 + B <= Len(s) /\ B + B <= Len(s) /\ m + 0 = m /\ 0 + B <= 2 * B /\ B + B <= 2 * B
      BY <2>1
    <2>3. Sliced(Byte, SubSeq(s, 0 + 1, 0 + B), s, 0, B)
      BY <2>1, <2>2, SliceFacts
    <2>4. Sliced(Byte, SubSeq(s, B + 1, B + B), s, B, B)
      BY <2>1, <2>2, SliceFacts
    <2>5. PICK z1 : z1 = SubSeq(s, 1, B) /\ Sliced(Byte, z1, s, 0, B)
      BY <2>2, <2>3
    <2>6. PICK z2 : z2 = SubSeq(s, B + 1, 2 * B) /\ Sliced(Byte, z2, s, B, B)
      BY <2>2, <2>4
    <2>7. PICK k \in Nat : k = 2 * B
      BY <2>2
    <2>8. p \in Seq(Byte) /\ Sliced(Byte, s, p, m, k) /\ 0 + B <= k /\ B + B <= k
      BY <1>1, <1>6, <2>2, <2>7
    <2>9. Sliced(Byte, z1, p, m + 0, B)
      BY <2>2, <2>5, <2>8, SliceWhole, Zenon
    <2>10. Sliced(Byte, z2, p, m + B, B)
      BY <2>6, <2>8, SliceWhole, Zenon
    <2>11. QED BY <2>2, <2>5, <2>6, <2>9, <2>10
  <1>7. /\ Sliced(Byte, SubSeq(x, 1, B), p, 0, B)
        /\ Sliced(Byte, SubSeq(x, B + 1, 2 * B), p, B, B)
    <2>1. 0 \in Nat /\ 0 + B = B
      OBVIOUS
    <2>2. Sliced(Byte, SubSeq(x, B + 1, 2 * B), p, 0 + B, B) /\ Sliced(Byte, SubSeq(x, 1, B), p, 0, B)
      BY <1>4, <1>6, <2>1
    <2>3. QED BY <2>1, <2>2
  <1>8. /\ Sliced(Byte, SubSeq(y, 1, B), p, 2 * B, B)
        /\ Sliced(Byte, SubSeq(y, B + 1, 2 * B), p, 3 * B, B)
    <2>1. 2 * B \in Nat /\ 2 * B + B = 3 * B
      OBVIOUS
    <2>2. /\ Sliced(Byte, SubSeq(y, B + 1, 2 * B), p, 2 * B + B, B)
          /\ Sliced(Byte, SubSeq(y, 1, B), p, 2 * B, B)
      BY <1>5, <1>6, <2>1
    <2>3. QED BY <2>1, <2>2
  <1>9. convertUint256BE(data)
          = <<<<readUint64BE(SubSeq(x, 1, B)), readUint64BE(SubSeq(x, B + 1, 2 * B))>>,
              <<readUint64BE(SubSeq(y, 1, B)), readUint64BE(SubSeq(y, B + 1, 2 * B))>>>>
    <2>1. convertUint256BE(data) = readu256BE(p)
      BY Zenon DEF convertUint256BE, Padded
    <2>2. QED BY <1>2, <1>3, <2>1, Zenon DEF readu256BE, readu128BE
  <1>10. QED BY <1>7, <1>8, <1>9, Zenon

\* The number that is divided is the number that the bytes are.
LEMMA AmountIsBig ==
  ASSUME NEW data \in AmountBytes, NEW w \in Nat, w = Limb
  PROVE  /\ AmountOf(data) \in Nat /\ AmountOf(data) < w * w
         /\ AmountOf(data) < Power(10, AmountSize - 8)
         /\ convertUint256BE(data) = Big(AmountOf(data))
  <1>1. PICK B \in Nat : B = LimbBytes /\ B > 0
    BY ByteFacts
  <1>2. PICK b \in Nat : b = ByteBase /\ b > 0
    BY ByteFacts
  <1>3. PICK n \in Nat : n = Len(data) /\ n <= 2 * B - 1
    BY <1>1, AmountBytesType
  <1>4. PICK p : p = Padded(data)
    OBVIOUS
  <1>5. PICK k \in Nat : k = 2 * B - n
    <2>1. 2 * B - n \in Nat
      BY <1>3
    <2>2. QED BY <2>1
  <1>6. /\ \A i \in 1..(4 * B) : p[i] \in 0..(b - 1) /\ p[i] \in Nat
        /\ \A i \in 1..(4 * B - n) : p[i] = 0
        /\ \A i \in 1..n : p[4 * B - n + i] = data[i]
    BY <1>1, <1>2, <1>3, <1>4, PaddedIs
  <1>7. PICK z1, z2, z3, z4 :
           /\ Sliced(Byte, z1, p, 0, B) /\ Sliced(Byte, z2, p, B, B)
           /\ Sliced(Byte, z3, p, 2 * B, B) /\ Sliced(Byte, z4, p, 3 * B, B)
           /\ convertUint256BE(data)
                = <<<<readUint64BE(z1), readUint64BE(z2)>>, <<readUint64BE(z3), readUint64BE(z4)>>>>
    BY <1>1, <1>4, LimbsRead
  <1>8. readUint64BE(z1) = 0 /\ readUint64BE(z2) = 0
    <2>1. ASSUME NEW z, NEW m \in Nat, m <= B, Sliced(Byte, z, p, m, B) PROVE readUint64BE(z) = 0
      <3>1. readUint64BE(z) = Prefix(b, z, B)
        BY <1>1, <1>2, <2>1, ReadSlice
      <3>2. \A i \in 1..B : z[i] = 0
        <4>1. ASSUME NEW i \in 1..B PROVE z[i] = 0
          <5>1. m + i \in 1..(4 * B - n)
            BY <1>3, <2>1
          <5>2. z[i] = p[m + i]
            BY <2>1 DEF Sliced
          <5>3. QED BY <1>6, <5>1, <5>2
        <4>2. QED BY <4>1
      <3>3. Prefix(b, z, B) = 0
        BY <3>2, PrefixZeros
      <3>4. QED BY <3>1, <3>3
    <2>2. 0 \in Nat /\ 0 <= B /\ B <= B
      OBVIOUS
    <2>3. QED BY <1>7, <2>1, <2>2
  <1>9. PICK h \in 0..(w - 1) : h = readUint64BE(z3) /\ h = Prefix(b, z3, B)
    <2>1. 2 * B \in Nat
      OBVIOUS
    <2>2. QED BY <1>1, <1>2, <1>7, <2>1, ReadSlice
  <1>10. PICK l \in 0..(w - 1) : l = readUint64BE(z4) /\ l = Prefix(b, z4, B)
    <2>1. 3 * B \in Nat
      OBVIOUS
    <2>2. QED BY <1>1, <1>2, <1>7, <2>1, ReadSlice
  <1>11. PICK q : q = [i \in 1..(2 * B) |-> p[2 * B + i]]
    OBVIOUS
  <1>12. \A i \in 1..(2 * B) : q[i] = p[2 * B + i] /\ q[i] \in Nat /\ 2 * B + i \in 1..(4 * B)
    <2>1. ASSUME NEW i \in 1..(2 * B)
          PROVE  q[i] = p[2 * B + i] /\ q[i] \in Nat /\ 2 * B + i \in 1..(4 * B)
      <3>1. 2 * B + i \in 1..(4 * B)
        OBVIOUS
      <3>2. q[i] = p[2 * B + i]
        BY <1>11
      <3>3. QED BY <1>6, <3>1, <3>2
    <2>2. QED BY <2>1
  <1>13. Prefix(b, q, B + B) = h * w + l
    <2>1. SplitAt(q, B, z4, B)
      <3>1. ASSUME NEW i \in 1..B PROVE q[i] \in Nat
        <4>1. i \in 1..(2 * B)
          OBVIOUS
        <4>2. QED BY <1>12, <4>1
      <3>2. ASSUME NEW i \in 1..B PROVE z4[i] \in Nat /\ q[B + i] = z4[i]
        <4>1. B + i \in 1..(2 * B) /\ 2 * B + (B + i) = 3 * B + i
          OBVIOUS
        <4>2. z4[i] = p[3 * B + i]
          BY <1>7 DEF Sliced
        <4>3. q[B + i] = p[2 * B + (B + i)] /\ q[B + i] \in Nat
          BY <1>12, <4>1
        <4>4. QED BY <4>1, <4>2, <4>3
      <3>3. QED BY <3>1, <3>2 DEF SplitAt
    <2>2. Prefix(b, q, B + B) = Prefix(b, q, B) * Power(b, B) + Prefix(b, z4, B)
      BY <2>1, PrefixSplit
    <2>3. Prefix(b, q, B) = Prefix(b, z3, B)
      <3>1. ASSUME NEW i \in 1..B PROVE q[i] = z3[i]
        <4>1. i \in 1..(2 * B)
          OBVIOUS
        <4>2. z3[i] = p[2 * B + i]
          BY <1>7 DEF Sliced
        <4>3. QED BY <1>12, <4>1, <4>2
      <3>2. QED BY <3>1, PrefixSame
    <2>4. Power(b, B) = w
      BY <1>1, <1>2, ByteFacts
    <2>5. QED BY <1>9, <1>10, <2>2, <2>3, <2>4
  <1>14. Prefix(b, q, k + n) = Prefix(b, data, n) /\ Prefix(b, data, n) \in Nat
    <2>1. \A i \in 1..n : data[i] \in Nat
      BY <1>3, AmountBytesType
    <2>2. SplitAt(q, k, data, n)
      <3>1. ASSUME NEW i \in 1..k PROVE q[i] \in Nat
        <4>1. i \in 1..(2 * B)
          BY <1>5
        <4>2. QED BY <1>12, <4>1
      <3>2. ASSUME NEW i \in 1..n PROVE data[i] \in Nat /\ q[k + i] = data[i]
        <4>1. k + i \in 1..(2 * B) /\ 2 * B + (k + i) = 4 * B - n + i
          BY <1>5
        <4>2. q[k + i] = p[2 * B + (k + i)]
          BY <1>12, <4>1
        <4>3. QED BY <1>6, <2>1, <4>1, <4>2
      <3>3. QED BY <3>1, <3>2 DEF SplitAt
    <2>3. Prefix(b, q, k + n) = Prefix(b, q, k) * Power(b, n) + Prefix(b, data, n)
      BY <2>2, PrefixSplit
    <2>4. Prefix(b, q, k) = 0
      <3>1. ASSUME NEW i \in 1..k PROVE q[i] = 0
        <4>1. i \in 1..(2 * B) /\ 2 * B + i \in 1..(4 * B - n)
          BY <1>5
        <4>2. QED BY <1>6, <1>12, <4>1
      <3>2. QED BY <3>1, PrefixZeros
    <2>5. PICK x \in Nat : x = Power(b, n)
      BY PowerType
    <2>6. PICK y \in Nat : y = Prefix(b, data, n)
      BY <2>1, PrefixType
    <2>7. 0 * x + y = y
      OBVIOUS
    <2>8. QED BY <2>3, <2>4, <2>5, <2>6, <2>7
  <1>15. PICK a \in Nat : a = AmountOf(data) /\ a = Prefix(b, data, n)
    BY <1>2, <1>3, <1>14 DEF AmountOf, Value, ByteBase
  <1>16. a = h * w + l
    <2>1. k + n = B + B
      BY <1>5
    <2>2. QED BY <1>13, <1>14, <1>15, <2>1
  <1>17. Big(a) = <<clear128, <<h, l>>>> /\ a < w * w
    <2>1. Splits(a, h, l)
      BY <1>16 DEF Splits
    <2>2. QED BY <2>1, HalfOf
  <1>18. convertUint256BE(data) = Big(a)
    BY <1>7, <1>8, <1>9, <1>10, <1>17 DEF clear128
  <1>19. a < Power(10, AmountSize - 8)
    <2>1. \A i \in 1..n : data[i] \in 0..(b - 1)
      BY <1>2, <1>3, AmountBytesType
    <2>2. a < Power(b, n)
      BY <1>15, <2>1, PrefixBound
    <2>3. PICK j \in Nat : j = 2 * B - 1
      BY <1>1
    <2>4. Power(b, n) <= Power(b, j)
      <3>1. n <= j
        BY <1>3, <2>3
      <3>2. CASE b > 1
        BY <3>1, <3>2, PowerMonotone
      <3>3. CASE b = 1
        <4>1. PICK c \in Nat : c = ByteBits /\ c > 0
          BY LimbAssumption
        <4>2. Power(2, 0) < Power(2, c)
          BY <4>1, PowerGrows
        <4>3. QED BY <1>2, <3>3, <4>1, <4>2, PowerStep DEF ByteBase
      <3>4. QED BY <1>2, <3>2, <3>3
    <2>5. Power(b, j) <= Power(10, AmountSize - 8)
      <3>1. Power(b, j) = Power(2, ByteBits * (2 * LimbBytes - 1))
        BY <1>1, <1>2, <2>3, ByteFacts
      <3>2. PICK u \in Nat : u = Power(b, j)
        BY PowerType
      <3>3. PICK v \in Nat : v = Power(10, AmountSize - 8)
        <4>1. PICK e \in Nat : e = AmountSize - 8
          <5>1. AmountSize - 8 \in Nat
            BY AmountAssumption
          <5>2. QED BY <5>1
        <4>2. QED BY <4>1, PowerType
      <3>4. QED BY <3>1, <3>2, <3>3, AmountAssumption
    <2>6. PICK u \in Nat : u = Power(b, n)
      BY PowerType
    <2>7. PICK v \in Nat : v = Power(b, j)
      BY PowerType
    <2>8. PICK x \in Nat : x = Power(10, AmountSize - 8)
      <3>1. PICK e \in Nat : e = AmountSize - 8
        <4>1. AmountSize - 8 \in Nat
          BY AmountAssumption
        <4>2. QED BY <4>1
      <3>2. QED BY <3>1, PowerType
    <2>9. QED BY <2>2, <2>4, <2>5, <2>6, <2>7, <2>8
  <1>20. QED BY <1>15, <1>17, <1>18, <1>19

\* The characters of digits.
Character == 48..57

\* The digits so far, in the order in which they are read.
SoFar(out) == [i \in 1..Len(out) |-> out[Len(out) + 1 - i] - 48]

\* The amount a is the digits so far behind the number r that is left.
Left(s, a, r) ==
  /\ s.rDiv = Big(r) /\ r < Limb * Limb
  /\ s.out \in Seq(Character) /\ Len(s.out) <= AmountSize - 8
  /\ a = r * Power(10, Len(s.out)) + Prefix(10, SoFar(s.out), Len(s.out))
  /\ Len(s.out) > 1 /\ r = 0 => s.out[Len(s.out)] # 48

\* The digits so far are digits.
LEMMA SoFarFacts ==
  ASSUME NEW out \in Seq(Character), NEW n \in Nat, n = Len(out)
  PROVE  /\ \A i \in 1..n : SoFar(out)[i] = out[n + 1 - i] - 48 /\ SoFar(out)[i] \in 0..9
         /\ Prefix(10, SoFar(out), n) \in Nat
  <1>1. ASSUME NEW i \in 1..n
        PROVE  SoFar(out)[i] = out[n + 1 - i] - 48 /\ SoFar(out)[i] \in 0..9
    <2>1. n + 1 - i \in 1..Len(out)
      OBVIOUS
    <2>2. out[n + 1 - i] \in Character
      BY <2>1, SeqElement
    <2>3. SoFar(out)[i] = out[n + 1 - i] - 48
      BY DEF SoFar
    <2>4. PICK c \in Character : c = out[n + 1 - i]
      BY <2>2
    <2>5. c - 48 \in 0..9
      BY DEF Character
    <2>6. QED BY <2>3, <2>4, <2>5
  <1>2. \A i \in 1..n : SoFar(out)[i] \in Nat
    BY SMTT(30), <1>1
  <1>3. PICK ten \in Nat : ten = 10
    OBVIOUS
  <1>4. Prefix(ten, SoFar(out), n) \in Nat
    BY <1>2, PrefixType
  <1>5. QED BY <1>1, <1>3, <1>4

\* z is the n digits of out and then m, which is read before them.
OneMore(z, out, n, m) ==
  /\ z \in Seq(Character) /\ Len(z) = n + 1 /\ z[n + 1] = 48 + m
  /\ Prefix(10, SoFar(z), n + 1) = m * Power(10, n) + Prefix(10, SoFar(out), n)

\* A digit before the ones so far.
LEMMA SoFarMore ==
  ASSUME NEW out \in Seq(Character), NEW n \in Nat, n = Len(out), NEW m \in 0..9,
         NEW z, z = Append(out, 48 + m)
  PROVE  OneMore(z, out, n, m)
  <1>1. PICK c \in Character : c = 48 + m
    BY DEF Character
  <1>2. z = Append(out, c)
    BY <1>1
  <1>3. z \in Seq(Character) /\ Len(z) = n + 1 /\ z[n + 1] = c /\ \A i \in 1..n : z[i] = out[i]
    BY <1>2
  <1>4. PICK k \in Nat : k = n + 1
    OBVIOUS
  <1>5. \A i \in 1..k : SoFar(z)[i] = z[k + 1 - i] - 48 /\ SoFar(z)[i] \in 0..9
    BY ZenonT(60), <1>3, <1>4, SoFarFacts
  <1>6. SoFar(z)[1] = m
    <2>1. 1 \in 1..k /\ k + 1 - 1 = n + 1
      BY <1>4
    <2>2. SoFar(z)[1] = c - 48
      BY <1>3, <1>5, <2>1
    <2>3. QED BY <1>1, <2>2
  <1>7. SplitAt(SoFar(z), 1, SoFar(out), n)
    <2>1. ASSUME NEW i \in 1..n PROVE SoFar(out)[i] \in Nat /\ SoFar(z)[1 + i] = SoFar(out)[i]
      <3>1. SoFar(out)[i] = out[n + 1 - i] - 48 /\ SoFar(out)[i] \in Nat
        <4>1. \A j \in 1..n : SoFar(out)[j] = out[n + 1 - j] - 48 /\ SoFar(out)[j] \in 0..9
          BY SoFarFacts
        <4>2. PICK x \in 0..9 : x = SoFar(out)[i] /\ x = out[n + 1 - i] - 48
          BY <4>1
        <4>3. QED BY SMTT(30), <4>2
      <3>2. 1 + i \in 1..k /\ k + 1 - (1 + i) = n + 1 - i /\ n + 1 - i \in 1..n
        BY <1>4
      <3>3. SoFar(z)[1 + i] = z[n + 1 - i] - 48
        BY <1>5, <3>2
      <3>4. QED BY <1>3, <3>1, <3>2, <3>3
    <2>2. \A i \in 1..1 : SoFar(z)[i] \in Nat
      BY <1>6
    <2>3. QED BY <2>1, <2>2 DEF SplitAt
  <1>8. PICK ten \in Nat : ten = 10
    OBVIOUS
  <1>9. PICK u \in Nat : u = 1
    OBVIOUS
  <1>10. Prefix(ten, SoFar(z), u + n)
           = Prefix(ten, SoFar(z), u) * Power(ten, n) + Prefix(ten, SoFar(out), n)
    BY <1>7, <1>9, PrefixSplit
  <1>11. Prefix(ten, SoFar(z), 1) = m
    <2>1. PICK d \in Nat : d = m
      OBVIOUS
    <2>2. QED BY <1>6, <2>1, PrefixOne
  <1>12. u + n = n + 1
    BY <1>9
  <1>13. QED BY <1>1, <1>3, <1>8, <1>9, <1>10, <1>11, <1>12 DEF OneMore

\* The amount is in the digits so far and in the number left.
LEMMA DigitArithmetic ==
  ASSUME NEW q \in Nat, NEW m \in Nat, NEW p \in Nat, NEW v \in Nat
  PROVE  (q * 10 + m) * p + v = q * (10 * p) + (m * p + v)
  OBVIOUS

\* A digit moves from the number that is left to the digits so far.
LEMMA NextDigitLeft ==
  ASSUME NEW s, NEW d, NEW a, NEW r \in Nat, NEW q \in Nat, NEW m \in 0..9,
         Left(s, a, r), d.div = Big(q), d.mod = Big(m), r = q * 10 + m,
         Len(s.out) = 0 \/ r # 0, Len(s.out) < AmountSize - 8
  PROVE  Left(NextDigit(s, d), a, q)
  <1>1. PICK out \in Seq(Character) : out = s.out
    BY DEF Left
  <1>2. PICK n \in Nat : n = Len(out)
    OBVIOUS
  <1>3. NextDigit(s, d).rDiv = Big(q) /\ NextDigit(s, d).out = Append(out, 48 + m)
    <2>1. m \in Word
      BY LimbFacts DEF Word
    <2>2. Big(m) = <<clear128, <<0, m>>>>
      BY <2>1, SmallBig
    <2>3. LOWER(LOWER(d.mod)) = m
      BY <2>2 DEF LOWER
    <2>4. QED BY <1>1, <2>3 DEF NextDigit
  <1>4. PICK z : z = NextDigit(s, d).out
    OBVIOUS
  <1>5. /\ z \in Seq(Character) /\ Len(z) = n + 1 /\ z[n + 1] = 48 + m
        /\ Prefix(10, SoFar(z), n + 1) = m * Power(10, n) + Prefix(10, SoFar(out), n)
    <2>1. z = Append(out, 48 + m)
      BY <1>3, <1>4
    <2>2. out \in Seq(Character) /\ n \in Nat /\ n = Len(out) /\ m \in 0..9
      BY <1>2
    <2>3. OneMore(z, out, n, m)
      BY <2>1, <2>2, SoFarMore, Zenon
    <2>4. QED BY <2>3, Zenon DEF OneMore
  <1>6. PICK p \in Nat : p = Power(10, n)
    <2>1. PICK ten \in Nat : ten = 10
      OBVIOUS
    <2>2. QED BY <2>1, PowerType
  <1>7. PICK v \in Nat : v = Prefix(10, SoFar(out), n)
    BY <1>2, SoFarFacts
  <1>8. a = r * p + v
    BY <1>1, <1>2, <1>6, <1>7 DEF Left
  <1>9. a = q * (10 * p) + (m * p + v)
    <2>1. PICK e \in Nat : e = m
      OBVIOUS
    <2>2. (q * 10 + e) * p + v = q * (10 * p) + (e * p + v)
      BY DigitArithmetic
    <2>3. QED BY <1>8, <2>1, <2>2
  <1>10. Power(10, n + 1) = 10 * p
    BY <1>6, PowerStep
  <1>11. a = q * Power(10, Len(z)) + Prefix(10, SoFar(z), Len(z))
    BY <1>5, <1>6, <1>7, <1>9, <1>10
  <1>12. q < Limb * Limb
    <2>1. PICK w \in Nat : w = Limb
      BY LimbFacts
    <2>2. PICK y \in Nat : y = w * w
      OBVIOUS
    <2>3. r < y
      BY <2>1, <2>2 DEF Left
    <2>4. QED BY <2>1, <2>2, <2>3
  <1>13. Len(z) <= AmountSize - 8
    BY <1>1, <1>2, <1>5, AmountAssumption
  <1>14. Len(z) > 1 /\ q = 0 => z[Len(z)] # 48
    <2>1. SUFFICES ASSUME Len(z) > 1, q = 0 PROVE m # 0
      BY <1>5
    <2>2. n # 0
      BY <1>5, <2>1
    <2>3. r # 0
      BY <1>1, <1>2, <2>2
    <2>4. QED BY <2>1, <2>3
  <1>15. QED BY <1>3, <1>4, <1>5, <1>11, <1>12, <1>13, <1>14 DEF Left

\* There is room for every digit of the amount.
LEMMA DigitsFit ==
  ASSUME NEW s, NEW a \in Nat, a < Power(10, AmountSize - 8), NEW r \in Nat, Left(s, a, r),
         ~Finished(s)
  PROVE  /\ Len(s.out) < AmountSize - 8 /\ (Len(s.out) = 0 \/ r # 0)
         /\ HasRoom(s, TempSize)
  <1>1. PICK out \in Seq(Character) : out = s.out
    BY DEF Left
  <1>2. PICK n \in Nat : n = Len(out)
    OBVIOUS
  <1>3. PICK e \in Nat : e = AmountSize - 8 /\ e >= 1
    <2>1. AmountSize - 8 \in Nat /\ AmountSize - 8 >= 1
      BY AmountAssumption
    <2>2. QED BY <2>1
  <1>4. n = 0 \/ r # 0
    <2>1. SUFFICES ASSUME n # 0, r = 0 PROVE FALSE
      OBVIOUS
    <2>2. s.out # <<>>
      BY <1>1, <1>2, <2>1
    <2>3. zero256(s.rDiv)
      <3>1. s.rDiv = Big(0) /\ 0 \in Nat
        BY <2>1 DEF Left
      <3>2. PICK w \in Nat : w = Limb /\ w > 10
        BY LimbFacts
      <3>3. PICK z \in Nat : z = 0
        OBVIOUS
      <3>4. 10 * w <= w * w
        BY <3>2, ProductMonotone
      <3>5. z < w * w
        <4>1. PICK y \in Nat : y = w * w
          OBVIOUS
        <4>2. QED BY <3>2, <3>3, <3>4, <4>1
      <3>6. zero256(Big(z)) <=> z = 0
        BY <3>2, <3>5, BigGreater
      <3>7. QED BY <3>1, <3>3, <3>6
    <2>4. QED BY <2>2, <2>3 DEF Finished
  <1>5. n < e
    <2>1. CASE n = 0
      BY <1>3, <2>1
    <2>2. CASE r # 0
      <3>1. PICK ten \in Nat : ten = 10 /\ ten > 1
        OBVIOUS
      <3>2. PICK p \in Nat : p = Power(ten, n)
        BY PowerType
      <3>3. PICK v \in Nat : v = Prefix(10, SoFar(out), n)
        BY <1>2, SoFarFacts
      <3>4. a = r * p + v
        BY <1>1, <1>2, <3>1, <3>2, <3>3 DEF Left
      <3>5. 1 * p <= r * p
        BY <2>2, ProductMonotone
      <3>6. PICK x \in Nat : x = r * p
        OBVIOUS
      <3>7. p <= a
        BY <3>4, <3>5, <3>6
      <3>8. SUFFICES ASSUME e <= n PROVE FALSE
        BY <1>3
      <3>9. PICK u \in Nat : u = Power(ten, e)
        BY PowerType
      <3>10. u <= p
        BY <3>1, <3>2, <3>8, <3>9, PowerMonotone
      <3>11. a < u
        BY <1>3, <3>1, <3>9
      <3>12. QED BY <3>7, <3>10, <3>11
    <2>3. QED BY <1>4, <2>1, <2>2
  <1>6. HasRoom(s, TempSize)
    <2>1. Len(s.out) <= TempSize - 1
      BY <1>1, <1>2, <1>3, <1>5, AmountAssumption
    <2>2. QED BY <2>1 DEF HasRoom
  <1>7. QED BY <1>1, <1>2, <1>3, <1>4, <1>5, <1>6

\* Before the first digit.
LEMMA FirstLeft ==
  ASSUME NEW a \in Nat, a < Limb * Limb
  PROVE  Left(tostring256(Big(a)), a, a)
  <1>1. PICK s : s = tostring256(Big(a))
    OBVIOUS
  <1>2. s.rDiv = Big(a) /\ s.out = <<>>
    BY <1>1 DEF tostring256
  <1>3. s.out \in Seq(Character) /\ Len(s.out) = 0
    BY <1>2
  <1>4. Power(10, 0) = 1 /\ Prefix(10, SoFar(s.out), 0) = 0
    BY PowerStep, PrefixStep
  <1>5. a = a * 1 + 0
    OBVIOUS
  <1>6. 0 <= AmountSize - 8
    BY AmountAssumption
  <1>7. QED BY <1>1, <1>2, <1>3, <1>4, <1>5, <1>6 DEF Left

\* The figures f say the amount a: w whole ones and then the decimals.
Figures(f, w, a) ==
  /\ w \in Nat /\ w >= 1
  /\ \A i \in 1..(w + Decimals) : f[i] \in 0..9
  /\ Prefix(10, f, w + Decimals) = a
  /\ f[1] = 0 => w = 1

\* t is all of the figures, as characters, with the point.
Pointed(t, f, w) ==
  /\ t \in Seq(Nat) /\ Len(t) = w + 1 + Decimals
  /\ \A i \in 1..w : t[i] = 48 + f[i]
  /\ t[w + 1] = 46
  /\ \A i \in 1..Decimals : t[w + 1 + i] = 48 + f[w + i]

\* t is the whole figures and m of the decimals, and the other ones are zero.
ReadsAs(t, f, w, m) ==
  /\ m \in 0..Decimals
  /\ t \in Seq(Nat) /\ Len(t) = IF m = 0 THEN w ELSE w + 1 + m
  /\ \A i \in 1..w : t[i] = 48 + f[i]
  /\ m # 0 => t[w + 1] = 46 /\ f[w + m] # 0
  /\ \A i \in 1..m : t[w + 1 + i] = 48 + f[w + i]
  /\ \A i \in (m + 1)..Decimals : f[w + i] = 0

\* The decimals are a number.
LEMMA DecimalsFact == Decimals \in Nat
  BY AmountAssumption

\* The first characters of a text with its point.
LEMMA FrontReads ==
  ASSUME NEW f, NEW w, NEW a, Figures(f, w, a), NEW t, Pointed(t, f, w), Decimals > 0,
         NEW m \in 0..Decimals, NEW l \in Nat, l = (IF m = 0 THEN w ELSE w + 1 + m),
         m # 0 => f[w + m] # 0,
         \A i \in (m + 1)..Decimals : f[w + i] = 0,
         NEW z, z = SubSeq(t, 1, l)
  PROVE  ReadsAs(z, f, w, m)
  <1>1. PICK v \in Nat : v = w /\ v >= 1
    BY DEF Figures
  <1>2. PICK d \in Nat : d = Decimals
    BY DecimalsFact
  <1>3. t \in Seq(Nat) /\ Len(t) = v + 1 + d
    BY <1>1, <1>2 DEF Pointed
  <1>4. l <= Len(t)
    BY <1>1, <1>2, <1>3
  <1>5. z \in Seq(Nat) /\ Len(z) = l /\ \A i \in 1..l : z[i] = t[i]
    <2>1. SubSeq(t, 1, l) \in Seq(Nat) /\ Len(SubSeq(t, 1, l)) = l
          /\ \A i \in 1..l : SubSeq(t, 1, l)[i] = t[i]
      BY <1>3, <1>4, FrontFacts
    <2>2. QED BY <2>1
  <1>6. ASSUME NEW i \in 1..w PROVE z[i] = 48 + f[i]
    <2>1. i \in 1..l
      BY <1>1, <1>2
    <2>2. t[i] = 48 + f[i]
      BY DEF Pointed
    <2>3. QED BY <1>5, <2>1, <2>2
  <1>7. m # 0 => z[w + 1] = 46
    <2>1. SUFFICES ASSUME m # 0 PROVE z[w + 1] = 46
      OBVIOUS
    <2>2. w + 1 \in 1..l
      BY <1>1, <1>2, <2>1
    <2>3. t[w + 1] = 46
      BY DEF Pointed
    <2>4. QED BY <1>5, <2>2, <2>3
  <1>8. ASSUME NEW i \in 1..m PROVE z[w + 1 + i] = 48 + f[w + i]
    <2>1. w + 1 + i \in 1..l
      BY <1>1, <1>2
    <2>2. i \in 1..Decimals
      BY <1>2
    <2>3. t[w + 1 + i] = 48 + f[w + i]
      BY <2>2 DEF Pointed
    <2>4. QED BY <1>5, <2>1, <2>3
  <1>9. QED BY <1>5, <1>6, <1>7, <1>8 DEF ReadsAs

\* The zeros at the end are the last decimals.
LEMMA TrimPointed ==
  ASSUME NEW f, NEW w, NEW a, Figures(f, w, a), NEW t, Pointed(t, f, w), Decimals > 0,
         NEW s \in Nat, s >= w + 1, s <= Len(t),
         s = w + 1 \/ \E i \in (s + 1)..Len(t) : t[i] # 48
  PROVE  \E m \in 0..Decimals : ReadsAs(TrimZeros(t, s), f, w, m)
  <1>1. PICK v \in Nat : v = w /\ v >= 1
    BY DEF Figures
  <1>2. PICK d \in Nat : d = Decimals /\ d > 0
    BY DecimalsFact
  <1>3. PICK n \in Nat : n = Len(t) /\ n = v + 1 + d
    BY <1>1, <1>2 DEF Pointed
  <1> DEFINE S == {s} \union {i \in (s + 1)..Len(t) : t[i] # Zero}
  <1>4. S \in SUBSET (0..n) /\ S # {}
    BY <1>1, <1>3
  <1>5. PICK last : last = Max(S)
    OBVIOUS
  <1>6. last \in S /\ \A i \in S : i <= last
    <2> HIDE DEF S
    <2>1. QED BY <1>4, <1>5, MaxOfBounded
  <1>7. last \in Nat /\ s <= last /\ last <= n
    BY <1>1, <1>3, <1>4, <1>6
  <1>8. ASSUME NEW i \in (last + 1)..n PROVE t[i] = 48
    <2>1. SUFFICES ASSUME t[i] # 48 PROVE FALSE
      OBVIOUS
    <2>2. i \in S
      BY <1>3, <1>7, <2>1 DEF Zero
    <2>3. i <= last
      BY <1>6, <2>2
    <2>4. QED BY <1>7, <2>3
  <1>9. last = s \/ (last > s /\ t[last] # 48)
    BY <1>6 DEF Zero
  <1>10. last = s => s = w + 1
    <2>1. SUFFICES ASSUME last = s, NEW i \in (s + 1)..Len(t), t[i] # 48 PROVE FALSE
      OBVIOUS
    <2>2. i \in S
      BY <2>1 DEF Zero
    <2>3. i <= last
      BY <1>6, <2>2
    <2>4. QED BY <1>3, <2>1, <2>3
  <1>11. TrimZeros(t, s) = IF last = Len(t) THEN t
                           ELSE SubSeq(t, 1, IF t[last] = 46 THEN last - 1 ELSE last)
    BY <1>5, Zenon DEF TrimZeros, Point
  <1>12. PICK m \in Nat : m = last - (v + 1)
    <2>1. last - (v + 1) \in Nat
      BY <1>1, <1>7
    <2>2. QED BY <2>1
  <1>13. m \in 0..Decimals
    BY <1>2, <1>3, <1>7, <1>12
  <1>14. \A i \in 1..Decimals : /\ f[w + i] \in 0..9 /\ t[w + 1 + i] = 48 + f[w + i]
                                /\ w + 1 + i \in 1..n
    <2>1. ASSUME NEW i \in 1..d PROVE f[v + i] \in 0..9 /\ t[v + 1 + i] = 48 + f[v + i]
                                      /\ v + 1 + i \in 1..n
      <3>1. v + i \in 1..(v + d)
        OBVIOUS
      <3>2. f[v + i] \in 0..9
        BY <1>1, <1>2, <3>1 DEF Figures
      <3>3. v + 1 + i \in 1..n
        BY <1>3
      <3>4. QED BY <1>1, <1>2, <3>2, <3>3 DEF Pointed
    <2>2. QED BY <1>1, <1>2, <2>1
  <1>15. ASSUME NEW i \in (m + 1)..Decimals PROVE f[w + i] = 0
    <2>1. i \in 1..Decimals /\ w + 1 + i \in (last + 1)..n
      BY <1>1, <1>2, <1>3, <1>7, <1>12
    <2>2. t[w + 1 + i] = 48
      BY <1>8, <2>1
    <2>3. PICK x \in 0..9 : x = f[w + i] /\ t[w + 1 + i] = 48 + x
      BY <1>14, <2>1
    <2>4. x = 0
      BY <2>2, <2>3
    <2>5. QED BY <2>3, <2>4
  <1>16. CASE m = 0
    <2>1. last = w + 1 /\ last # Len(t)
      BY <1>1, <1>2, <1>3, <1>7, <1>12, <1>16
    <2>2. t[last] = 46
      BY <2>1 DEF Pointed
    <2>3. PICK l \in Nat : l = w
      BY <1>1
    <2>4. last - 1 = l
      BY <2>1, <2>3
    <2>5. TrimZeros(t, s) = SubSeq(t, 1, l)
      BY <1>11, <2>1, <2>2, <2>4
    <2>6. l = IF m = 0 THEN w ELSE w + 1 + m
      BY <1>16, <2>3
    <2>7. ReadsAs(TrimZeros(t, s), f, w, m)
      BY <1>2, <1>13, <1>15, <1>16, <2>5, <2>6, FrontReads
    <2>8. QED BY <1>13, <2>7
  <1>17. CASE m # 0
    <2>1. last # w + 1 /\ last = w + 1 + m
      BY <1>1, <1>7, <1>12, <1>17
    <2>2. t[last] # 48
      BY <1>9, <1>10, <2>1
    <2>3. m \in 1..Decimals
      BY <1>2, <1>13, <1>17
    <2>4. PICK x \in 0..9 : x = f[w + m] /\ t[last] = 48 + x
      BY <1>14, <2>1, <2>3
    <2>5. t[last] # 46 /\ x # 0
      BY <2>2, <2>4
    <2>6. PICK l \in Nat : l = last
      BY <1>7
    <2>7. TrimZeros(t, s) = SubSeq(t, 1, l)
      <3>1. CASE last = Len(t)
        <4>1. t \in Seq(Nat)
          BY DEF Pointed
        <4>2. SubSeq(t, 1, Len(t)) = t
          BY <4>1
        <4>3. QED BY <1>11, <2>6, <3>1, <4>2
      <3>2. CASE last # Len(t)
        BY <1>11, <2>5, <2>6, <3>2
      <3>3. QED BY <3>1, <3>2
    <2>8. l = IF m = 0 THEN w ELSE w + 1 + m
      BY <1>17, <2>1, <2>6
    <2>9. f[w + m] # 0
      BY <2>4, <2>5
    <2>10. ReadsAs(TrimZeros(t, s), f, w, m)
      BY <1>2, <1>13, <1>15, <2>7, <2>8, <2>9, FrontReads
    <2>11. QED BY <1>13, <2>10
  <1>18. QED BY <1>16, <1>17

\* The figures of a number.
FiguresOf(src) == [i \in 1..Len(src) |-> src[i] - 48]

\* src is the amount a in n characters, in its shortest form.
IsNumeral(src, n, a) ==
  /\ n \in Nat /\ n >= 1 /\ n <= AmountSize - 8
  /\ src \in Seq(Character) /\ Len(src) = n
  /\ Prefix(10, FiguresOf(src), n) = a
  /\ n > 1 => src[1] # 48

\* text is the amount a with its point.
Says(text, a) ==
  \E f, w, m : Figures(f, w, a) /\ ReadsAs(text, f, w, m) /\ w + Decimals + 8 <= AmountSize

\* The characters of a numeral and their figures.
LEMMA FiguresOfIs ==
  ASSUME NEW src, NEW n, NEW a, IsNumeral(src, n, a), NEW i \in 1..n
  PROVE  FiguresOf(src)[i] = src[i] - 48 /\ FiguresOf(src)[i] \in 0..9 /\ src[i] \in Character
         /\ src[i] = 48 + FiguresOf(src)[i]
  <1>1. src \in Seq(Character) /\ Len(src) = n
    BY DEF IsNumeral
  <1>2. PICK c \in Character : c = src[i]
    BY <1>1, SeqElement
  <1>3. FiguresOf(src)[i] = src[i] - 48
    BY <1>1 DEF FiguresOf
  <1>4. c - 48 \in 0..9 /\ c = 48 + (c - 48)
    BY DEF Character
  <1>5. QED BY <1>2, <1>3, <1>4

\* Nothing but a zero.
LEMMA ZeroSays ==
  ASSUME NEW a, IsNumeral(<<Zero>>, 1, a)
  PROVE  adjustDecimals(<<Zero>>, AmountSize) = Written(<<Zero>>) /\ Says(<<Zero>>, a)
  <1>1. PICK d \in Nat : d = Decimals
    BY DecimalsFact
  <1>2. PICK f : f = [i \in 1..(1 + d) |-> 0]
    OBVIOUS
  <1>3. a = 0
    <2>1. FiguresOf(<<Zero>>)[1] = 0
      BY DEF FiguresOf, Zero
    <2>2. PICK ten \in Nat : ten = 10
      OBVIOUS
    <2>3. PICK z \in Nat : z = 0
      OBVIOUS
    <2>4. Prefix(ten, FiguresOf(<<Zero>>), 1) = z
      BY <2>1, <2>3, PrefixOne
    <2>5. QED BY <2>2, <2>3, <2>4 DEF IsNumeral
  <1>4. Prefix(10, f, 1 + d) = 0
    <2>1. PICK ten \in Nat : ten = 10
      OBVIOUS
    <2>2. PICK k \in Nat : k = 1 + d
      OBVIOUS
    <2>3. \A i \in 1..k : f[i] = 0
      BY <1>2, <2>2
    <2>4. Prefix(ten, f, k) = 0
      BY <2>3, PrefixZeros
    <2>5. QED BY <2>1, <2>2, <2>4
  <1>5. Figures(f, 1, a)
    BY <1>1, <1>2, <1>3, <1>4 DEF Figures
  <1>6. ReadsAs(<<Zero>>, f, 1, 0)
    <2>1. \A i \in (0 + 1)..d : f[1 + i] = 0
      BY <1>2
    <2>2. <<Zero>> \in Seq(Nat) /\ Len(<<Zero>>) = 1 /\ <<Zero>>[1] = 48
      BY DEF Zero
    <2>3. \A i \in 1..1 : <<Zero>>[i] = 48 + f[i]
      BY <1>2, <2>2
    <2>4. QED BY <1>1, <2>1, <2>2, <2>3 DEF ReadsAs
  <1>7. 1 + Decimals + 8 <= AmountSize /\ ~(AmountSize < 2)
    BY <1>1, AmountAssumption
  <1>8. adjustDecimals(<<Zero>>, AmountSize) = Written(<<Zero>>)
    BY <1>7 DEF adjustDecimals
  <1>9. QED BY <1>5, <1>6, <1>7, <1>8 DEF Says

\* Nothing but decimals.
LEMMA SmallSays ==
  ASSUME NEW src, NEW n, NEW a, IsNumeral(src, n, a), src # <<Zero>>, n <= Decimals
  PROVE  \E text : adjustDecimals(src, AmountSize) = Written(text) /\ Says(text, a)
  <1>1. PICK d \in Nat : d = Decimals
    BY DecimalsFact
  <1>2. src \in Seq(Character) /\ Len(src) = n /\ n \in Nat /\ n >= 1
    BY DEF IsNumeral
  <1>3. PICK z \in Nat : z = d - n
    <2>1. d - n \in Nat
      BY <1>1, <1>2
    <2>2. QED BY <2>1
  <1>4. PICK t : t = <<Zero, Point>> \o Zeros(Decimals - n) \o src
    OBVIOUS
  <1>5. PICK f : f = [i \in 1..(1 + d) |-> IF i <= 1 + z THEN 0 ELSE src[i - (1 + z)] - 48]
    OBVIOUS
  <1>6. \A i \in 1..n : /\ src[i] \in Nat /\ FiguresOf(src)[i] \in 0..9
                        /\ src[i] = 48 + FiguresOf(src)[i] /\ f[(1 + z) + i] = FiguresOf(src)[i]
    <2>1. ASSUME NEW i \in 1..n
          PROVE  /\ src[i] \in Nat /\ FiguresOf(src)[i] \in 0..9
                 /\ src[i] = 48 + FiguresOf(src)[i] /\ f[(1 + z) + i] = FiguresOf(src)[i]
      <3>1. FiguresOf(src)[i] = src[i] - 48 /\ FiguresOf(src)[i] \in 0..9
            /\ src[i] \in Character /\ src[i] = 48 + FiguresOf(src)[i]
        BY FiguresOfIs
      <3>2. (1 + z) + i \in 1..(1 + d) /\ ~((1 + z) + i <= 1 + z) /\ (1 + z) + i - (1 + z) = i
        BY <1>2, <1>3
      <3>3. f[(1 + z) + i] = src[i] - 48
        BY <1>5, <3>2
      <3>4. QED BY <3>1, <3>3 DEF Character
    <2>2. QED BY <2>1
  <1>7. \A i \in 1..(1 + z) : f[i] = 0
    BY <1>2, <1>3, <1>5
  <1>8. ASSUME NEW i \in 1..(1 + d) PROVE f[i] \in 0..9
    <2>1. CASE i <= 1 + z
      BY <1>7, <2>1
    <2>2. CASE i > 1 + z
      <3>1. PICK j \in 1..n : i = (1 + z) + j
        <4>1. i - (1 + z) \in 1..n /\ i = (1 + z) + (i - (1 + z))
          BY <1>2, <1>3, <2>2
        <4>2. QED BY <4>1
      <3>2. PICK x \in 0..9 : x = FiguresOf(src)[j] /\ x = f[(1 + z) + j]
        BY <1>6
      <3>3. QED BY <3>1, <3>2
    <2>3. QED BY <2>1, <2>2
  <1>9. Prefix(10, f, 1 + d) = a
    <2>1. PICK ten \in Nat : ten = 10
      OBVIOUS
    <2>2. PICK k \in Nat : k = 1 + z
      OBVIOUS
    <2>3. SplitAt(f, k, FiguresOf(src), n)
      <3>1. \A i \in 1..k : f[i] \in Nat
        BY <1>7, <2>2
      <3>2. ASSUME NEW i \in 1..n PROVE FiguresOf(src)[i] \in Nat /\ f[k + i] = FiguresOf(src)[i]
        <4>1. PICK x \in 0..9 : x = FiguresOf(src)[i] /\ x = f[(1 + z) + i]
          BY <1>6
        <4>2. QED BY <2>2, <4>1
      <3>3. QED BY <3>1, <3>2 DEF SplitAt
    <2>4. Prefix(ten, f, k + n) = Prefix(ten, f, k) * Power(ten, n) + Prefix(ten, FiguresOf(src), n)
      BY <1>2, <2>3, PrefixSplit
    <2>5. Prefix(ten, f, k) = 0
      BY <1>7, <2>2, PrefixZeros
    <2>6. PICK p \in Nat : p = Power(ten, n)
      BY <1>2, PowerType
    <2>7. PICK v \in Nat : v = Prefix(ten, FiguresOf(src), n)
      <3>1. \A i \in 1..n : FiguresOf(src)[i] \in Nat
        BY <1>6
      <3>2. QED BY <1>2, <3>1, PrefixType
    <2>8. 0 * p + v = v
      OBVIOUS
    <2>9. k + n = 1 + d
      BY <1>2, <1>3, <2>2
    <2>10. Prefix(ten, f, 1 + d) = v
      BY <2>4, <2>5, <2>6, <2>7, <2>8, <2>9
    <2>11. v = a
      BY <2>1, <2>7 DEF IsNumeral
    <2>12. QED BY <2>1, <2>10, <2>11
  <1>10. Figures(f, 1, a)
    <2>1. f[1] = 0 => 1 = 1
      OBVIOUS
    <2>2. QED BY <1>1, <1>8, <1>9, <2>1 DEF Figures
  <1>11. PICK zs : zs = Zeros(Decimals - n)
    OBVIOUS
  <1>12. zs \in Seq(Nat) /\ Len(zs) = z /\ \A i \in 1..z : zs[i] = 48
    <2>1. zs = [i \in 1..z |-> 48]
      BY <1>1, <1>3, <1>11 DEF Zeros, Zero
    <2>2. zs \in [1..z -> Nat]
      BY <2>1
    <2>3. QED BY <2>1, <2>2
  <1>13. PICK y : y = <<Zero, Point>> \o zs
    OBVIOUS
  <1>14. y \in Seq(Nat) /\ Len(y) = 2 + z /\ y[1] = 48 /\ y[2] = 46 /\ \A i \in 1..z : y[2 + i] = 48
    <2>1. PICK h : h = <<Zero, Point>>
      OBVIOUS
    <2>2. h \in Seq(Nat) /\ Len(h) = 2 /\ h[1] = 48 /\ h[2] = 46
      BY <2>1 DEF Zero, Point
    <2>3. PICK two \in Nat : two = 2
      OBVIOUS
    <2>4. h \in Seq(Nat) /\ zs \in Seq(Nat) /\ Len(h) = two /\ Len(zs) = z
      BY <1>12, <2>2, <2>3
    <2>5. Concatenated(Nat, h \o zs, h, zs, two, z)
      BY <2>4, JoinFacts, Zenon
    <2>6. Concatenated(Nat, y, h, zs, two, z)
      BY <1>13, <2>1, <2>5
    <2>7. 1 \in 1..two /\ 2 \in 1..two
      BY <2>3
    <2>8. y \in Seq(Nat) /\ Len(y) = two + z
      BY <2>6 DEF Concatenated
    <2>9. y[1] = h[1] /\ y[2] = h[2]
      BY <2>6, <2>7 DEF Concatenated
    <2>10. ASSUME NEW i \in 1..z PROVE y[2 + i] = 48
      <3>1. y[two + i] = zs[i]
        BY <2>6 DEF Concatenated
      <3>2. QED BY <1>12, <2>3, <3>1
    <2>11. QED BY <2>2, <2>3, <2>8, <2>9, <2>10
  <1>15. src \in Seq(Nat)
    BY <1>2 DEF Character
  <1>16. t \in Seq(Nat) /\ Len(t) = 2 + d /\ (\A i \in 1..(2 + z) : t[i] = y[i])
         /\ \A i \in 1..n : t[2 + z + i] = src[i]
    <2>1. t = y \o src
      BY <1>4, <1>11, <1>13
    <2>2. PICK k \in Nat : k = 2 + z
      OBVIOUS
    <2>3. y \in Seq(Nat) /\ src \in Seq(Nat) /\ Len(y) = k /\ Len(src) = n /\ n \in Nat
      BY <1>2, <1>14, <1>15, <2>2
    <2>4. Concatenated(Nat, y \o src, y, src, k, n)
      BY <2>3, JoinFacts, Zenon
    <2>5. Concatenated(Nat, t, y, src, k, n) /\ k + n = 2 + d
      BY <1>2, <1>3, <2>1, <2>2, <2>4
    <2>6. QED BY <2>2, <2>5 DEF Concatenated
  <1>17. Pointed(t, f, 1)
    <2>1. t[1] = 48 /\ t[2] = 46
      <3>1. 1 \in 1..(2 + z) /\ 2 \in 1..(2 + z)
        OBVIOUS
      <3>2. QED BY <1>14, <1>16, <3>1
    <2>2. f[1] = 0
      BY <1>7
    <2>3. ASSUME NEW i \in 1..d PROVE t[1 + 1 + i] = 48 + f[1 + i]
      <3>1. CASE i <= z
        <4>1. 1 + 1 + i = 2 + i /\ 2 + i \in 1..(2 + z) /\ i \in 1..z /\ 1 + i \in 1..(1 + z)
          BY <3>1
        <4>2. t[2 + i] = 48
          BY <1>14, <1>16, <4>1
        <4>3. f[1 + i] = 0
          BY <1>7, <4>1
        <4>4. QED BY <4>1, <4>2, <4>3
      <3>2. CASE i > z
        <4>1. PICK j \in 1..n : j = i - z
          <5>1. i - z \in 1..n
            BY <1>2, <1>3, <3>2
          <5>2. QED BY <5>1
        <4>2. 1 + 1 + i = 2 + z + j /\ 1 + i = (1 + z) + j
          BY <4>1
        <4>3. t[2 + z + j] = src[j]
          BY <1>16
        <4>4. PICK x \in 0..9 : x = FiguresOf(src)[j] /\ src[j] = 48 + x /\ x = f[(1 + z) + j]
          BY <1>6
        <4>5. QED BY <4>2, <4>3, <4>4
      <3>3. QED BY <3>1, <3>2
    <2>4. Len(t) = 1 + 1 + d
      BY <1>16
    <2>5. QED BY <1>1, <1>16, <2>1, <2>2, <2>3, <2>4 DEF Pointed
  <1>18. PICK s \in Nat : s = 2 + Decimals - n /\ s = 2 + z
    BY <1>1, <1>2, <1>3
  <1>19. src[1] # 48
    <2>1. CASE n > 1
      BY <2>1 DEF IsNumeral
    <2>2. CASE n = 1
      <3>1. SUFFICES ASSUME src[1] = 48 PROVE src = <<Zero>>
        OBVIOUS
      <3>2. QED BY <1>2, <2>2, <3>1 DEF Zero
    <2>3. QED BY <1>2, <2>1, <2>2
  <1>20. PICK text : text = TrimZeros(t, s)
    OBVIOUS
  <1>21. \E m \in 0..Decimals : ReadsAs(text, f, 1, m)
    <2>1. s + 1 \in (s + 1)..Len(t) /\ t[s + 1] # 48
      <3>1. 1 \in 1..n
        BY <1>2
      <3>2. t[2 + z + 1] = src[1]
        BY <1>16, <3>1
      <3>3. QED BY SMTT(30), <1>2, <1>3, <1>16, <1>18, <1>19, <3>2
    <2>2. s >= 1 + 1 /\ s <= Len(t) /\ Decimals > 0
      BY <1>1, <1>2, <1>3, <1>16, <1>18
    <2>3. QED BY <1>10, <1>17, <1>20, <2>1, <2>2, TrimPointed
  <1>22. adjustDecimals(src, AmountSize) = Written(text)
    <2>1. ~(AmountSize < n + 1 + 2 + (Decimals - n))
      BY <1>1, <1>2, AmountAssumption
    <2>2. adjustDecimals(src, AmountSize)
            = Written(TrimZeros(<<Zero, Point>> \o Zeros(Decimals - n) \o src, 2 + Decimals - n))
      BY <1>2, <2>1 DEF adjustDecimals
    <2>3. QED BY <1>4, <1>18, <1>20, <2>2
  <1>23. 1 + Decimals + 8 <= AmountSize
    BY <1>1, AmountAssumption
  <1>24. QED BY <1>10, <1>21, <1>22, <1>23 DEF Says

\* Whole figures, and the decimals if there are any.
LEMMA GreatFigures ==
  ASSUME NEW src, NEW n, NEW a, IsNumeral(src, n, a), NEW w \in Nat, n = w + Decimals, w >= 1
  PROVE  Figures(FiguresOf(src), w, a) /\ w + Decimals + 8 <= AmountSize
  <1>1. PICK d \in Nat : d = Decimals
    BY DecimalsFact
  <1>2. n \in Nat /\ n <= AmountSize - 8 /\ Prefix(10, FiguresOf(src), n) = a
        /\ (n > 1 => src[1] # 48)
    BY DEF IsNumeral
  <1>3. \A i \in 1..n : FiguresOf(src)[i] \in 0..9
    BY FiguresOfIs
  <1>4. FiguresOf(src)[1] = 0 => w = 1
    <2>1. SUFFICES ASSUME FiguresOf(src)[1] = 0 PROVE w = 1
      OBVIOUS
    <2>2. 1 \in 1..n
      BY <1>1
    <2>3. src[1] = 48 + FiguresOf(src)[1]
      BY <2>2, FiguresOfIs
    <2>4. ~(n > 1)
      BY <1>2, <2>1, <2>3
    <2>5. QED BY <1>1, <1>2, <2>4
  <1>5. w + Decimals + 8 <= AmountSize
    BY <1>1, <1>2, AmountAssumption
  <1>6. QED BY <1>1, <1>2, <1>3, <1>4, <1>5 DEF Figures

\* A text that is cut before its last characters.
LEMMA BackFacts ==
  ASSUME NEW D, NEW s \in Seq(D), NEW m \in Nat, NEW n \in Nat, m + n = Len(s)
  PROVE  /\ SubSeq(s, m + 1, Len(s)) \in Seq(D) /\ Len(SubSeq(s, m + 1, Len(s))) = n
         /\ \A i \in 1..n : SubSeq(s, m + 1, Len(s))[i] = s[m + i]
  OBVIOUS

\* With no decimals at all there is no point either.
LEMMA WholeSays ==
  ASSUME NEW src, NEW n, NEW a, IsNumeral(src, n, a), src # <<Zero>>, Decimals = 0
  PROVE  adjustDecimals(src, AmountSize) = Written(src) /\ Says(src, a)
  <1>1. src \in Seq(Character) /\ Len(src) = n /\ n \in Nat /\ n >= 1 /\ n <= AmountSize - 8
    BY DEF IsNumeral
  <1>2. src \in Seq(Nat)
    BY <1>1 DEF Character
  <1>3. PICK t : t = SubSeq(src, 1, n - Decimals) \o <<>> \o SubSeq(src, n - Decimals + 1, n)
    OBVIOUS
  <1>4. t = src
    <2>1. n - Decimals = n /\ n - Decimals + 1 = n + 1
      BY <1>1
    <2>2. SubSeq(src, 1, n) = src
      BY <1>2, <1>1
    <2>3. SubSeq(src, n + 1, n) = <<>>
      BY <1>2, <1>1
    <2>4. src \o <<>> \o <<>> = src
      BY <1>2
    <2>5. QED BY <1>3, <2>1, <2>2, <2>3, <2>4
  <1>5. TrimZeros(src, n) = src
    <2> DEFINE S == {n} \union {i \in (n + 1)..Len(src) : src[i] # Zero}
    <2>1. S = {n}
      BY <1>1
    <2>2. n \in Nat /\ S \in SUBSET (0..n) /\ S # {}
      BY <1>1, <2>1
    <2>3. PICK last : last = Max(S)
      OBVIOUS
    <2>4. last \in S
      <3> HIDE DEF S
      <3>1. QED BY <2>2, <2>3, MaxOfBounded
    <2>5. last = Len(src)
      BY <1>1, <2>1, <2>4
    <2>6. QED BY <2>3, <2>5, Zenon DEF TrimZeros
  <1>6. adjustDecimals(src, AmountSize) = Written(src)
    <2>1. ~(AmountSize < n + 1 + 1) /\ ~(n <= Decimals)
      BY <1>1, AmountAssumption
    <2>2. n - Decimals + Len(<<>>) = n
      BY <1>1
    <2>3. adjustDecimals(src, AmountSize)
            = Written(TrimZeros(SubSeq(src, 1, n - Decimals) \o <<>>
                                  \o SubSeq(src, n - Decimals + 1, n),
                                n - Decimals + Len(<<>>)))
      BY <1>1, <2>1 DEF adjustDecimals
    <2>4. QED BY <1>3, <1>4, <1>5, <2>2, <2>3
  <1>7. PICK w \in Nat : w = n /\ n = w + Decimals /\ w >= 1
    BY <1>1
  <1>8. Figures(FiguresOf(src), w, a) /\ w + Decimals + 8 <= AmountSize
    BY <1>7, GreatFigures
  <1>9. ReadsAs(src, FiguresOf(src), w, 0)
    <2>1. \A i \in 1..w : src[i] = 48 + FiguresOf(src)[i]
      BY <1>7, FiguresOfIs
    <2>2. Len(src) = w
      BY <1>1, <1>7
    <2>3. QED BY <1>2, <1>7, <2>1, <2>2 DEF ReadsAs
  <1>10. QED BY <1>6, <1>8, <1>9 DEF Says

\* More figures than there are decimals.
LEMMA GreatSays ==
  ASSUME NEW src, NEW n, NEW a, IsNumeral(src, n, a), src # <<Zero>>, Decimals # 0, n > Decimals
  PROVE  \E text : adjustDecimals(src, AmountSize) = Written(text) /\ Says(text, a)
  <1>1. PICK d \in Nat : d = Decimals /\ d > 0
    BY DecimalsFact
  <1>2. src \in Seq(Character) /\ Len(src) = n /\ n \in Nat /\ n <= AmountSize - 8
    BY DEF IsNumeral
  <1>3. PICK w \in Nat : w = n - d /\ w >= 1 /\ n = w + Decimals
    <2>1. n - d \in Nat /\ n - d >= 1 /\ n = (n - d) + d
      BY <1>1, <1>2
    <2>2. QED BY <1>1, <2>1
  <1>4. PICK f : f = FiguresOf(src)
    OBVIOUS
  <1>5. Figures(f, w, a) /\ w + Decimals + 8 <= AmountSize
    BY <1>3, <1>4, GreatFigures
  <1>6. src \in Seq(Nat)
    BY <1>2 DEF Character
  <1>a. PICK x : x = SubSeq(src, 1, w)
    OBVIOUS
  <1>7. x \in Seq(Nat) /\ Len(x) = w /\ \A i \in 1..w : x[i] = src[i]
    <2>1. w <= Len(src)
      BY <1>1, <1>2, <1>3
    <2>2. /\ SubSeq(src, 1, w) \in Seq(Nat) /\ Len(SubSeq(src, 1, w)) = w
          /\ \A i \in 1..w : SubSeq(src, 1, w)[i] = src[i]
      BY <1>6, <2>1, FrontFacts
    <2>3. QED BY <1>a, <2>2
  <1>b. PICK y : y = SubSeq(src, w + 1, Len(src))
    OBVIOUS
  <1>8. y \in Seq(Nat) /\ Len(y) = d /\ \A i \in 1..d : y[i] = src[w + i]
    <2>1. w + d = Len(src)
      BY <1>1, <1>2, <1>3
    <2>2. /\ SubSeq(src, w + 1, Len(src)) \in Seq(Nat) /\ Len(SubSeq(src, w + 1, Len(src))) = d
          /\ \A i \in 1..d : SubSeq(src, w + 1, Len(src))[i] = src[w + i]
      BY <1>6, <2>1, BackFacts
    <2>3. QED BY <1>b, <2>2
  <1>c. PICK p : p = <<Point>>
    OBVIOUS
  <1>9. p \in Seq(Nat) /\ Len(p) = 1 /\ p[1] = 46
    BY <1>c DEF Point
  <1>10. PICK u \in Nat : u = 1
    OBVIOUS
  <1>11. PICK v : v = x \o p
    OBVIOUS
  <1>12. Concatenated(Nat, v, x, p, w, u)
    <2>1. x \in Seq(Nat) /\ p \in Seq(Nat) /\ Len(x) = w /\ Len(p) = u
      BY <1>7, <1>9, <1>10
    <2>2. Concatenated(Nat, x \o p, x, p, w, u)
      BY <2>1, JoinFacts, Zenon
    <2>3. QED BY <1>11, <2>2
  <1>13. PICK k \in Nat : k = w + 1
    OBVIOUS
  <1>14. v \in Seq(Nat) /\ Len(v) = k
    BY <1>10, <1>12, <1>13 DEF Concatenated
  <1>15. PICK t : t = v \o y
    OBVIOUS
  <1>16. Concatenated(Nat, t, v, y, k, d)
    <2>1. v \in Seq(Nat) /\ y \in Seq(Nat) /\ Len(v) = k /\ Len(y) = d
      BY <1>8, <1>14
    <2>2. Concatenated(Nat, v \o y, v, y, k, d)
      BY <2>1, JoinFacts, Zenon
    <2>3. QED BY <1>15, <2>2
  <1>17. t \in Seq(Nat) /\ Len(t) = w + 1 + d
    BY <1>13, <1>16 DEF Concatenated
  <1>18. Pointed(t, f, w)
    <2>1. ASSUME NEW i \in 1..w PROVE t[i] = 48 + f[i]
      <3>1. i \in 1..k /\ i \in 1..n
        BY <1>1, <1>3, <1>13
      <3>2. t[i] = v[i]
        BY <1>16, <3>1 DEF Concatenated
      <3>3. v[i] = x[i]
        BY <1>12 DEF Concatenated
      <3>4. src[i] = 48 + f[i]
        BY <1>4, <3>1, FiguresOfIs
      <3>5. QED BY <1>7, <3>2, <3>3, <3>4
    <2>2. t[w + 1] = 46
      <3>1. 1 \in 1..u /\ w + 1 \in 1..k
        BY <1>10, <1>13
      <3>2. t[w + 1] = v[w + 1]
        BY <1>16, <3>1 DEF Concatenated
      <3>3. v[w + 1] = p[1]
        BY <1>12, <3>1 DEF Concatenated
      <3>4. QED BY <1>9, <3>2, <3>3
    <2>3. ASSUME NEW i \in 1..d PROVE t[w + 1 + i] = 48 + f[w + i]
      <3>1. w + i \in 1..n /\ w + 1 + i = k + i
        BY <1>1, <1>3, <1>13
      <3>2. t[k + i] = y[i]
        BY <1>16 DEF Concatenated
      <3>3. src[w + i] = 48 + f[w + i]
        BY <1>4, <3>1, FiguresOfIs
      <3>4. QED BY <1>8, <3>1, <3>2, <3>3
    <2>4. QED BY <1>1, <1>17, <2>1, <2>2, <2>3 DEF Pointed
  <1>19. PICK text : text = TrimZeros(t, k)
    OBVIOUS
  <1>20. \E m \in 0..Decimals : ReadsAs(text, f, w, m)
    <2>1. k >= w + 1 /\ k <= Len(t) /\ Decimals > 0 /\ k = w + 1
      BY <1>1, <1>13, <1>17
    <2>2. QED BY <1>5, <1>18, <1>19, <2>1, TrimPointed
  <1>21. adjustDecimals(src, AmountSize) = Written(text)
    <2>1. ~(AmountSize < n + 1 + 1) /\ ~(n <= Decimals)
      BY <1>1, <1>2, AmountAssumption
    <2>2. n - Decimals = w /\ w + Len(<<Point>>) = k
      BY <1>1, <1>3, <1>9, <1>13, <1>c
    <2>3. adjustDecimals(src, AmountSize)
            = Written(TrimZeros(SubSeq(src, 1, n - Decimals) \o <<Point>>
                                  \o SubSeq(src, n - Decimals + 1, n),
                                n - Decimals + Len(<<Point>>)))
      BY <1>2, <2>1 DEF adjustDecimals
    <2>4. QED BY <1>2, <1>a, <1>b, <1>c, <1>11, <1>15, <1>19, <2>2, <2>3
  <1>22. QED BY <1>5, <1>20, <1>21 DEF Says

\* The point is placed so that the text says the amount.
LEMMA AdjustedSays ==
  ASSUME NEW src, NEW n, NEW a, IsNumeral(src, n, a)
  PROVE  \E text : adjustDecimals(src, AmountSize) = Written(text) /\ Says(text, a)
  <1>1. CASE src = <<Zero>>
    <2>1. n = 1
      BY <1>1 DEF IsNumeral
    <2>2. QED BY <1>1, <2>1, ZeroSays
  <1>2. CASE src # <<Zero>>
    <2>1. CASE n <= Decimals
      BY <1>2, <2>1, SmallSays
    <2>2. CASE ~(n <= Decimals)
      <3>1. n > Decimals
        BY <2>2, DecimalsFact DEF IsNumeral
      <3>2. CASE Decimals = 0
        BY <1>2, <3>2, WholeSays
      <3>3. CASE Decimals # 0
        BY <1>2, <3>1, <3>3, GreatSays
      <3>4. QED BY <3>2, <3>3
    <2>3. QED BY <2>1, <2>2
  <1>3. QED BY <1>1, <1>2

\* Sequences with the same members are the same.
LEMMA SequencesEqual ==
  ASSUME NEW D, NEW s \in Seq(D), NEW t \in Seq(D), NEW n \in Nat, Len(s) = n, Len(t) = n,
         \A i \in 1..n : s[i] = t[i]
  PROVE  s = t
  OBVIOUS

\* The unit has six characters.
LEMMA UnitFacts == Unit \in Seq(Nat) /\ Len(Unit) = 6
  BY DEF Unit

\* The amount without its unit, and the unit.
LEMMA NumberIs ==
  ASSUME NEW t \in Seq(Nat), NEW l \in Nat, Len(t) = l, amount_str = t \o Unit
  PROVE  /\ Number = t /\ Len(amount_str) = l + 6
         /\ SubSeq(amount_str, Len(t) + 1, Len(amount_str)) = Unit
  <1>1. PICK six \in Nat : six = 6
    OBVIOUS
  <1>2. PICK un : un = Unit
    OBVIOUS
  <1>3. un \in Seq(Nat) /\ Len(un) = six
    BY <1>1, <1>2, UnitFacts
  <1>4. PICK z : z = amount_str
    OBVIOUS
  <1>5. Concatenated(Nat, z, t, un, l, six)
    <2>1. t \in Seq(Nat) /\ un \in Seq(Nat) /\ Len(t) = l /\ Len(un) = six
      BY <1>3
    <2>2. Concatenated(Nat, t \o un, t, un, l, six)
      BY <2>1, JoinFacts, Zenon
    <2>3. QED BY <1>2, <1>4, <2>2
  <1>6. z \in Seq(Nat) /\ Len(z) = l + six
    BY <1>5 DEF Concatenated
  <1>7. SubSeq(z, 1, l) = t
    <2>1. l <= Len(z)
      BY <1>6
    <2>2. PICK x : x = SubSeq(z, 1, l)
      OBVIOUS
    <2>3. x \in Seq(Nat) /\ Len(x) = l /\ \A i \in 1..l : x[i] = z[i]
      <3>1. /\ SubSeq(z, 1, l) \in Seq(Nat) /\ Len(SubSeq(z, 1, l)) = l
            /\ \A i \in 1..l : SubSeq(z, 1, l)[i] = z[i]
        BY <1>6, <2>1, FrontFacts
      <3>2. QED BY <2>2, <3>1
    <2>4. \A i \in 1..l : x[i] = t[i]
      BY <1>5, <2>3 DEF Concatenated
    <2>5. x = t
      BY <2>3, <2>4, SequencesEqual
    <2>6. QED BY <2>2, <2>5
  <1>8. SubSeq(z, l + 1, Len(z)) = un
    <2>1. l + six = Len(z)
      BY <1>6
    <2>2. PICK x : x = SubSeq(z, l + 1, Len(z))
      OBVIOUS
    <2>3. x \in Seq(Nat) /\ Len(x) = six /\ \A i \in 1..six : x[i] = z[l + i]
      <3>1. /\ SubSeq(z, l + 1, Len(z)) \in Seq(Nat) /\ Len(SubSeq(z, l + 1, Len(z))) = six
            /\ \A i \in 1..six : SubSeq(z, l + 1, Len(z))[i] = z[l + i]
        BY <1>6, <2>1, BackFacts
      <3>2. QED BY <2>2, <3>1
    <2>4. \A i \in 1..six : x[i] = un[i]
      BY <1>5, <2>3 DEF Concatenated
    <2>5. x = un
      BY <1>3, <2>3, <2>4, SequencesEqual
    <2>6. QED BY <2>2, <2>5
  <1>9. Number = t
    <2>1. Len(amount_str) - Len(Unit) = l
      BY <1>1, <1>4, <1>6, UnitFacts
    <2>2. QED BY <1>4, <1>7, <2>1 DEF Number
  <1>10. QED BY <1>1, <1>2, <1>4, <1>6, <1>8, <1>9

\* The whole part ends at the point, or at the end.
LEMMA WholePartIs ==
  ASSUME NEW f, NEW w, NEW a, NEW t, NEW m, Figures(f, w, a), ReadsAs(t, f, w, m), Number = t
  PROVE  WholePart = w
  <1>1. PICK v \in Nat : v = w
    BY DEF Figures
  <1>2. PICK l \in Nat : l = Len(t)
    BY DEF ReadsAs
  <1>3. PICK p : p = <<Point>>
    OBVIOUS
  <1>4. PICK u : u = t \o p
    OBVIOUS
  <1>5. u \in Seq(Nat) /\ Len(u) = l + 1 /\ (\A i \in 1..l : u[i] = t[i]) /\ u[l + 1] = 46
    <2>1. p \in Seq(Nat) /\ Len(p) = 1 /\ p[1] = 46
      BY <1>3 DEF Point
    <2>2. PICK k \in Nat : k = 1
      OBVIOUS
    <2>3. t \in Seq(Nat) /\ p \in Seq(Nat) /\ Len(t) = l /\ Len(p) = k
      BY <1>2, <2>1, <2>2 DEF ReadsAs
    <2>4. Concatenated(Nat, t \o p, t, p, l, k)
      BY <2>3, JoinFacts, Zenon
    <2>5. Concatenated(Nat, u, t, p, l, k) /\ 1 \in 1..k
      BY <1>4, <2>2, <2>4
    <2>6. u \in Seq(Nat) /\ Len(u) = l + k /\ u[l + 1] = p[1]
      BY <2>5 DEF Concatenated
    <2>7. \A i \in 1..l : u[i] = t[i]
      BY <2>5 DEF Concatenated
    <2>8. QED BY <2>1, <2>2, <2>6, <2>7
  <1>6. v <= l
    BY <1>1, <1>2, DecimalsFact DEF ReadsAs
  <1> DEFINE S == {i \in 1..Len(u) : u[i] = Point}
  <1>a. v + 1 \in S
    <2>1. v + 1 \in 1..Len(u)
      BY <1>5, <1>6
    <2>2. CASE m = 0
      <3>1. v = l
        BY <1>1, <1>2, <2>2 DEF ReadsAs
      <3>2. QED BY <1>5, <2>1, <3>1 DEF Point
    <2>3. CASE m # 0
      <3>1. v + 1 \in 1..l
        <4>1. PICK d \in Nat : d = Decimals
          BY DecimalsFact
        <4>2. PICK e \in 0..d : e = m
          BY <4>1 DEF ReadsAs
        <4>3. l = w + 1 + e
          BY <1>2, <2>3, <4>2 DEF ReadsAs
        <4>4. QED BY <1>1, <4>3
      <3>2. t[v + 1] = 46
        BY <1>1, <2>3 DEF ReadsAs
      <3>3. QED BY <1>5, <2>1, <3>1, <3>2 DEF Point
    <2>4. QED BY <2>2, <2>3
  <1>7. WholePart = Min(S) - 1
    <2>2. S # {}
      BY <1>a
    <2>3. u = Number \o <<Point>>
      BY <1>3, <1>4
    <2> DEFINE T == {i \in 1..Len(Number \o <<Point>>) : (Number \o <<Point>>)[i] = Point}
    <2>4. T = S
      BY <2>3
    <2> HIDE DEF S
    <2>5. T # {}
      BY <2>2, <2>4
    <2>6. WholePart = Min(T) - 1
      BY <2>5, Zenon DEF WholePart, SelectInSeq
    <2>7. QED BY <2>4, <2>6
  <1>8. Min(S) = v + 1
    <2>1. S \in SUBSET Nat
      BY <1>5
    <2>3. ASSUME NEW i \in S PROVE v + 1 <= i
      <3>1. i \in Nat /\ u[i] = 46 /\ i >= 1
        BY <1>5 DEF Point
      <3>2. SUFFICES ASSUME i <= v PROVE FALSE
        BY <3>1
      <3>3. i \in 1..w /\ i \in 1..l
        BY <1>1, <1>6, <3>1, <3>2
      <3>4. u[i] = 48 + f[i]
        BY <1>5, <3>3 DEF ReadsAs
      <3>5. f[i] \in 0..9
        <4>1. i \in 1..(w + Decimals)
          BY <1>1, <3>3, DecimalsFact
        <4>2. QED BY <4>1 DEF Figures
      <3>6. QED BY <3>1, <3>4, <3>5
    <2> HIDE DEF S
    <2>4. S # {}
      BY <1>a
    <2>5. PICK x : x = Min(S)
      OBVIOUS
    <2>6. x \in S /\ \A y \in S : x <= y
      BY <2>1, <2>4, <2>5, MinOfNat
    <2>7. v + 1 <= x /\ x <= v + 1 /\ x \in Nat
      BY <1>a, <2>1, <2>3, <2>6
    <2>8. QED BY <2>5, <2>7
  <1> HIDE DEF S
  <1>9. QED BY <1>1, <1>7, <1>8

\* Behind the point.
LEMMA FractionIs ==
  ASSUME NEW f, NEW w, NEW a, NEW t, NEW m, Figures(f, w, a), ReadsAs(t, f, w, m), Number = t
  PROVE  /\ Fraction \in Seq(Nat) /\ Len(Fraction) = m
         /\ \A i \in 1..m : Fraction[i] = 48 + f[w + i]
  <1>1. PICK v \in Nat : v = w
    BY DEF Figures
  <1>2. PICK d \in Nat : d = Decimals
    BY DecimalsFact
  <1>3. PICK e \in 0..d : e = m
    BY <1>2 DEF ReadsAs
  <1>4. t \in Seq(Nat) /\ Len(t) = IF e = 0 THEN v ELSE v + 1 + e
    BY <1>1, <1>3 DEF ReadsAs
  <1>5. Fraction = SubSeq(t, v + 2, Len(t))
    BY <1>1, WholePartIs DEF Fraction
  <1>6. CASE e = 0
    <2>1. SubSeq(t, v + 2, v) = <<>>
      BY <1>4, <1>6
    <2>2. QED BY <1>3, <1>4, <1>5, <1>6, <2>1
  <1>7. CASE e # 0
    <2>1. PICK k \in Nat : k = v + 1
      OBVIOUS
    <2>2. k + e = Len(t) /\ k + 1 = v + 2 /\ e \in Nat
      BY <1>4, <1>7, <2>1
    <2>3. PICK x : x = SubSeq(t, k + 1, Len(t))
      OBVIOUS
    <2>4. x \in Seq(Nat) /\ Len(x) = e /\ \A i \in 1..e : x[i] = t[k + i]
      <3>1. /\ SubSeq(t, k + 1, Len(t)) \in Seq(Nat) /\ Len(SubSeq(t, k + 1, Len(t))) = e
            /\ \A i \in 1..e : SubSeq(t, k + 1, Len(t))[i] = t[k + i]
        BY <1>4, <2>2, BackFacts
      <3>2. QED BY <2>3, <3>1
    <2>5. Fraction = x
      BY <1>5, <2>2, <2>3
    <2>6. ASSUME NEW i \in 1..m PROVE x[i] = 48 + f[w + i]
      <3>1. x[i] = t[w + 1 + i]
        BY <1>1, <1>3, <2>1, <2>4
      <3>2. QED BY <3>1 DEF ReadsAs
    <2>7. QED BY <1>3, <2>4, <2>5, <2>6
  <1>8. QED BY <1>6, <1>7

\* The number that the text says is the amount.
LEMMA AmountReadIs ==
  ASSUME NEW f, NEW w, NEW a, NEW t, NEW m, Figures(f, w, a), ReadsAs(t, f, w, m), Number = t
  PROVE  AmountRead = a
  <1>1. PICK v \in Nat : v = w
    BY DEF Figures
  <1>2. PICK d \in Nat : d = Decimals
    BY DecimalsFact
  <1>3. PICK e \in 0..d : e = m
    BY <1>2 DEF ReadsAs
  <1>4. t \in Seq(Nat) /\ v <= Len(t)
    BY <1>1, <1>2, <1>3 DEF ReadsAs
  <1>5. PICK x : x = SubSeq(t, 1, v)
    OBVIOUS
  <1>6. x \in Seq(Nat) /\ Len(x) = v /\ \A i \in 1..v : x[i] = t[i]
    <2>1. /\ SubSeq(t, 1, v) \in Seq(Nat) /\ Len(SubSeq(t, 1, v)) = v
          /\ \A i \in 1..v : SubSeq(t, 1, v)[i] = t[i]
      BY <1>4, FrontFacts
    <2>2. QED BY <1>5, <2>1
  <1>7. PICK y : y = Fraction
    OBVIOUS
  <1>8. y \in Seq(Nat) /\ Len(y) = e /\ \A i \in 1..e : y[i] = 48 + f[v + i]
    <2>1. /\ Fraction \in Seq(Nat) /\ Len(Fraction) = m
          /\ \A i \in 1..m : Fraction[i] = 48 + f[w + i]
      BY FractionIs
    <2>2. QED BY <1>1, <1>3, <1>7, <2>1
  <1>9. PICK g : g = x \o y
    OBVIOUS
  <1>10. Concatenated(Nat, g, x, y, v, e)
    <2>1. x \in Seq(Nat) /\ y \in Seq(Nat) /\ Len(x) = v /\ Len(y) = e /\ e \in Nat
      BY <1>6, <1>8
    <2>2. Concatenated(Nat, x \o y, x, y, v, e)
      BY <2>1, JoinFacts, Zenon
    <2>3. QED BY <1>9, <2>2
  <1>11. PICK k \in Nat : k = v + e
    OBVIOUS
  <1>12. Len(g) = k
    BY <1>10, <1>11 DEF Concatenated
  <1>13. PICK h : h = [i \in 1..k |-> g[i] - 48]
    OBVIOUS
  <1>14. \A i \in 1..(v + d) : f[i] \in 0..9
    BY <1>1, <1>2 DEF Figures
  <1>15. ASSUME NEW i \in 1..k PROVE h[i] = f[i]
    <2>1. h[i] = g[i] - 48
      BY <1>13
    <2>2. g[i] = 48 + f[i]
      <3>1. CASE i <= v
        <4>1. i \in 1..v
          BY <3>1
        <4>2. g[i] = x[i]
          BY <1>10, <4>1 DEF Concatenated
        <4>3. t[i] = 48 + f[i]
          BY <1>1, <4>1 DEF ReadsAs
        <4>4. QED BY <1>6, <4>1, <4>2, <4>3
      <3>2. CASE i > v
        <4>1. PICK j \in 1..e : j = i - v
          <5>1. i - v \in 1..e
            BY <1>11, <3>2
          <5>2. QED BY <5>1
        <4>2. g[v + j] = y[j]
          BY <1>10 DEF Concatenated
        <4>3. v + j = i
          BY <4>1
        <4>4. QED BY <1>8, <4>2, <4>3
      <3>3. QED BY <3>1, <3>2
    <2>3. i \in 1..(v + d)
      BY <1>11
    <2>4. PICK c \in 0..9 : c = f[i]
      BY <1>14, <2>3
    <2>5. (48 + c) - 48 = c
      OBVIOUS
    <2>6. QED BY <2>1, <2>2, <2>4, <2>5
  <1>16. PICK ten \in Nat : ten = 10
    OBVIOUS
  <1>17. Digits(g) = Prefix(ten, f, k)
    <2>1. Digits(g) = Prefix(ten, h, k)
      <3>1. Digits(g) = Value(10, h)
        BY <1>12, <1>13 DEF Digits, Zero
      <3>2. Len(h) = k
        BY <1>13
      <3>3. QED BY <1>16, <3>1, <3>2 DEF Value
    <2>2. Prefix(ten, h, k) = Prefix(ten, f, k)
      BY <1>15, PrefixSame
    <2>3. QED BY <2>1, <2>2
  <1>18. PICK j \in Nat : j = d - e
    <2>1. d - e \in Nat
      OBVIOUS
    <2>2. QED BY <2>1
  <1>19. PICK z : z = [i \in 1..j |-> 0]
    OBVIOUS
  <1>20. SplitAt(f, k, z, j)
    <2>1. ASSUME NEW i \in 1..k PROVE f[i] \in Nat
      <3>1. i \in 1..(v + d)
        BY <1>11
      <3>2. QED BY <1>14, <3>1
    <2>2. ASSUME NEW i \in 1..j PROVE z[i] \in Nat /\ f[k + i] = z[i]
      <3>1. z[i] = 0
        BY <1>19
      <3>2. e + i \in (e + 1)..d /\ k + i = v + (e + i)
        BY <1>11, <1>18
      <3>3. f[v + (e + i)] = 0
        <4>1. \A q \in (m + 1)..Decimals : f[w + q] = 0
          BY DEF ReadsAs
        <4>2. QED BY <1>1, <1>2, <1>3, <3>2, <4>1
      <3>4. QED BY <3>1, <3>2, <3>3
    <2>3. QED BY <2>1, <2>2 DEF SplitAt
  <1>21. Prefix(ten, f, k + j) = Prefix(ten, f, k) * Power(ten, j) + Prefix(ten, z, j)
    BY <1>20, PrefixSplit
  <1>22. Prefix(ten, z, j) = 0
    <2>1. \A i \in 1..j : z[i] = 0
      BY <1>19
    <2>2. QED BY <2>1, PrefixZeros
  <1>23. k + j = w + Decimals
    BY <1>1, <1>2, <1>11, <1>18
  <1>24. Prefix(ten, f, k + j) = a
    BY <1>16, <1>23 DEF Figures
  <1>25. PICK p \in Nat : p = Power(ten, j)
    BY PowerType
  <1>26. PICK q \in Nat : q = Prefix(ten, f, k)
    <2>1. ASSUME NEW i \in 1..k PROVE f[i] \in Nat
      <3>1. i \in 1..(v + d)
        BY <1>11
      <3>2. QED BY <1>14, <3>1
    <2>2. QED BY <2>1, PrefixType
  <1>27. a = q * p
    <2>1. q * p + 0 = q * p
      OBVIOUS
    <2>2. QED BY <1>21, <1>22, <1>24, <1>25, <1>26, <2>1
  <1>28. WholePart = v /\ Decimals - Len(Fraction) = j
    BY <1>1, <1>2, <1>7, <1>8, <1>18, WholePartIs
  <1>29. AmountRead = Digits(g) * Power(10, j)
    BY <1>5, <1>7, <1>9, <1>28 DEF AmountRead
  <1>30. QED BY <1>16, <1>17, <1>25, <1>26, <1>27, <1>29

\* Everything that is asked of the text of the amount a.
AmountSaid(a) ==
  /\ Len(amount_str) < AmountSize
  /\ SubSeq(amount_str, Len(Number) + 1, Len(amount_str)) = Unit
  /\ AmountRead = a
  /\ WholePart >= 1 /\ (Number[1] = Zero => WholePart = 1)
  /\ WholePart < Len(Number) => Fraction # <<>> /\ Last(Fraction) # Zero

\* A text that says the amount, with the unit, is everything that is asked.
LEMMA SaidExactly ==
  ASSUME NEW t, NEW a, Says(t, a), amount_str = t \o Unit
  PROVE  AmountSaid(a)
  <1>1. PICK f, w, m : Figures(f, w, a) /\ ReadsAs(t, f, w, m) /\ w + Decimals + 8 <= AmountSize
    BY DEF Says
  <1>2. PICK v \in Nat : v = w /\ v >= 1
    BY <1>1 DEF Figures
  <1>3. PICK d \in Nat : d = Decimals
    BY DecimalsFact
  <1>4. PICK e \in 0..d : e = m
    BY <1>1, <1>3 DEF ReadsAs
  <1>5. t \in Seq(Nat) /\ Len(t) = IF e = 0 THEN v ELSE v + 1 + e
    BY <1>1, <1>2, <1>4 DEF ReadsAs
  <1>6. PICK l \in Nat : l = Len(t)
    BY <1>5
  <1>7. /\ Number = t /\ Len(amount_str) = l + 6
        /\ SubSeq(amount_str, Len(t) + 1, Len(amount_str)) = Unit
    BY <1>5, <1>6, NumberIs
  <1>8. WholePart = w /\ AmountRead = a
    BY <1>1, <1>7, WholePartIs, AmountReadIs
  <1>9. Len(amount_str) < AmountSize
    <2>1. l <= v + 1 + d
      BY <1>5, <1>6
    <2>2. v + d + 8 <= AmountSize
      BY <1>1, <1>2, <1>3
    <2>3. QED BY <1>7, <2>1, <2>2, AmountAssumption
  <1>10. Number[1] = Zero => WholePart = 1
    <2>1. 1 \in 1..w /\ 1 \in 1..(w + Decimals)
      BY <1>2, <1>3
    <2>2. t[1] = 48 + f[1] /\ f[1] \in 0..9 /\ (f[1] = 0 => w = 1)
      BY <1>1, <2>1 DEF Figures, ReadsAs
    <2>3. QED BY <1>7, <1>8, <2>2 DEF Zero
  <1>11. WholePart < Len(Number) => Fraction # <<>> /\ Last(Fraction) # Zero
    <2>1. SUFFICES ASSUME WholePart < Len(Number) PROVE Fraction # <<>> /\ Last(Fraction) # Zero
      OBVIOUS
    <2>2. e # 0
      BY <1>2, <1>5, <1>7, <1>8, <2>1
    <2>3. /\ Fraction \in Seq(Nat) /\ Len(Fraction) = m
          /\ \A i \in 1..m : Fraction[i] = 48 + f[w + i]
      BY <1>1, <1>7, FractionIs
    <2>4. m \in 1..m /\ v + e \in 1..(v + d)
      BY <1>4, <2>2
    <2>5. f[w + m] # 0
      BY <1>1, <1>4, <2>2 DEF ReadsAs
    <2>6. PICK x \in 0..9 : x = f[w + m]
      BY <1>1, <1>2, <1>3, <1>4, <2>4 DEF Figures
    <2>7. Fraction[m] = 48 + x
      BY <2>3, <2>4, <2>6
    <2>8. Last(Fraction) = 48 + x
      BY <2>3, <2>7 DEF Last
    <2>9. QED BY <1>4, <2>2, <2>3, <2>5, <2>6, <2>8 DEF Zero
  <1>12. QED BY <1>2, <1>7, <1>8, <1>9, <1>10, <1>11 DEF AmountSaid

\* The digits of a finished number, the other way round, are its numeral.
LEMMA FinishedNumeral ==
  ASSUME NEW s, NEW a, NEW r \in Nat, Left(s, a, r), Finished(s)
  PROVE  IsNumeral(Reverse(s.out), Len(s.out), a)
  <1>1. PICK out \in Seq(Character) : out = s.out
    BY DEF Left
  <1>2. PICK n \in Nat : n = Len(out) /\ n >= 1
    <2>1. out # <<>>
      BY <1>1 DEF Finished
    <2>2. QED BY <2>1
  <1>3. r = 0
    <2>1. PICK w \in Nat : w = Limb
      BY LimbFacts
    <2>2. r < w * w
      BY <2>1 DEF Left
    <2>3. zero256(Big(r)) <=> r = 0
      BY <2>1, <2>2, BigGreater
    <2>4. QED BY <2>3 DEF Left, Finished
  <1>4. PICK z : z = Reverse(out)
    OBVIOUS
  <1>5. z = [i \in 1..n |-> out[(n - i) + 1]]
    BY <1>2, <1>4 DEF Reverse
  <1>6. z \in Seq(Character) /\ Len(z) = n
    <2>1. \A i \in 1..n : out[(n - i) + 1] \in Character
      <3>1. ASSUME NEW i \in 1..n PROVE out[(n - i) + 1] \in Character
        <4>1. (n - i) + 1 \in 1..Len(out)
          BY <1>2
        <4>2. QED BY <4>1, SeqElement
      <3>2. QED BY <3>1
    <2>2. z \in [1..n -> Character]
      BY <1>5, <2>1
    <2>3. z \in Seq(Character)
      BY <2>2, SequenceOf
    <2>4. QED BY <1>5, <2>3
  <1>7. ASSUME NEW i \in 1..n PROVE FiguresOf(z)[i] = SoFar(out)[i]
    <2>1. FiguresOf(z)[i] = out[(n - i) + 1] - 48
      BY <1>5, <1>6 DEF FiguresOf
    <2>2. SoFar(out)[i] = out[n + 1 - i] - 48
      <3>1. \A q \in 1..n : SoFar(out)[q] = out[n + 1 - q] - 48
        BY SMTT(30), <1>2, SoFarFacts
      <3>2. QED BY <3>1
    <2>3. (n - i) + 1 = n + 1 - i
      OBVIOUS
    <2>4. QED BY <2>1, <2>2, <2>3
  <1>8. PICK ten \in Nat : ten = 10
    OBVIOUS
  <1>9. Prefix(ten, FiguresOf(z), n) = Prefix(ten, SoFar(out), n)
    BY <1>7, PrefixSame
  <1>10. PICK p \in Nat : p = Power(ten, n)
    BY PowerType
  <1>11. PICK v \in Nat : v = Prefix(ten, SoFar(out), n)
    BY <1>2, <1>8, SoFarFacts
  <1>12. a = v
    <2>1. a = r * p + v
      BY <1>1, <1>2, <1>8, <1>10, <1>11 DEF Left
    <2>2. 0 * p + v = v
      OBVIOUS
    <2>3. QED BY <1>3, <2>1, <2>2
  <1>13. n > 1 => z[1] # 48
    <2>1. SUFFICES ASSUME n > 1 PROVE z[1] # 48
      OBVIOUS
    <2>2. 1 \in 1..n /\ (n - 1) + 1 = n
      BY <1>2
    <2>3. z[1] = out[n]
      BY <1>5, <2>2
    <2>4. out[n] # 48
      BY <1>1, <1>2, <1>3, <2>1 DEF Left
    <2>5. QED BY <2>3, <2>4
  <1>14. n <= AmountSize - 8
    BY <1>1, <1>2 DEF Left
  <1>15. QED BY <1>1, <1>2, <1>4, <1>6, <1>8, <1>9, <1>11, <1>12, <1>13, <1>14 DEF IsNumeral

\* The text that is made of them.
LEMMA TextSays ==
  ASSUME NEW s, NEW a, NEW r \in Nat, Left(s, a, r), Finished(s), NEW old
  PROVE  \E t : AmountText(s, old) = t \o Unit /\ Says(t, a)
  <1>1. PICK src : src = Reverse(s.out)
    OBVIOUS
  <1>2. IsNumeral(src, Len(s.out), a)
    BY <1>1, FinishedNumeral
  <1>3. PICK t : adjustDecimals(src, AmountSize) = Written(t) /\ Says(t, a)
    BY <1>2, AdjustedSays
  <1>4. ~(Len(t) + 7 > AmountSize)
    <2>1. PICK f, w, m : Figures(f, w, a) /\ ReadsAs(t, f, w, m) /\ w + Decimals + 8 <= AmountSize
      BY <1>3 DEF Says
    <2>2. PICK v \in Nat : v = w
      BY <2>1 DEF Figures
    <2>3. PICK d \in Nat : d = Decimals
      BY DecimalsFact
    <2>4. PICK e \in 0..d : e = m
      BY <2>1, <2>3 DEF ReadsAs
    <2>5. Len(t) = IF e = 0 THEN v ELSE v + 1 + e
      BY <2>1, <2>2, <2>4 DEF ReadsAs
    <2>6. QED BY <2>1, <2>2, <2>3, <2>5, AmountAssumption
  <1>5. AmountText(s, old) = t \o Unit
    <2>1. Written(t).ok = TRUE /\ Written(t).text = t
      BY DEF Written
    <2>2. QED BY <1>1, <1>3, <1>4, <2>1, Zenon DEF AmountText
  <1>6. QED BY <1>3, <1>5

----------------------------------------------------------------------------
\* The conversion of an amount at work, and done.
AmountInv ==
  /\ field \in {"digits", "divide"} =>
       /\ bytes \in AmountBytes
       /\ \E r \in Nat : /\ Left(digits, AmountOf(bytes), r)
                         /\ field = "divide" => DivAt(division, r) /\ ~Finished(digits)
  /\ field = "amount" => \E t : amount_str = t \o Unit /\ Says(t, AmountOf(bytes))

\* Before the first conversion no amount is written.
LEMMA AmountInitially == Init => AmountInv
  BY DEF Init, AmountInv

\* The amount is read (currency.h:77).
LEMMA AmountBegins ==
  ASSUME EncodeAmount
  PROVE  AmountInv'
  <1>1. field' = "digits" /\ bytes' \in AmountBytes /\ digits' = AmountDigits(bytes')
    BY DEF EncodeAmount
  <1>2. PICK data \in AmountBytes : data = bytes'
    BY <1>1
  <1>3. PICK w \in Nat : w = Limb
    BY LimbFacts
  <1>4. PICK a \in Nat : a = AmountOf(data) /\ a < w * w /\ convertUint256BE(data) = Big(a)
    BY <1>3, AmountIsBig
  <1>5. Left(tostring256(Big(a)), a, a)
    BY <1>3, <1>4, FirstLeft
  <1>6. digits' = tostring256(Big(a))
    BY <1>1, <1>2, <1>4 DEF AmountDigits
  <1>7. QED BY <1>1, <1>2, <1>4, <1>5, <1>6 DEF AmountInv

\* An amount is below the power of ten for which there is room.
LEMMA AmountOfType ==
  ASSUME NEW data \in AmountBytes
  PROVE  AmountOf(data) \in Nat /\ AmountOf(data) < Power(10, AmountSize - 8)
  <1>1. PICK w \in Nat : w = Limb
    BY LimbFacts
  <1>2. QED BY <1>1, AmountIsBig

\* Another digit is divided off, or the text is written.
LEMMA AmountBeginDigit ==
  ASSUME AmountInv, BeginDigit
  PROVE  AmountInv'
  <1>1. field = "digits" /\ bytes' = bytes /\ digits' = digits /\ bytes \in AmountBytes
    BY DEF BeginDigit, AmountInv
  <1>2. PICK a \in Nat : a = AmountOf(bytes) /\ a < Power(10, AmountSize - 8)
    BY <1>1, AmountOfType
  <1>3. PICK r \in Nat : Left(digits, a, r)
    BY <1>1, <1>2 DEF AmountInv
  <1>4. CASE ~Finished(digits)
    <2>1. HasRoom(digits, TempSize)
      BY <1>2, <1>3, <1>4, DigitsFit
    <2>2. field' = "divide" /\ division' = divmod256(digits.rDiv, Ten)
      BY <1>4, <2>1 DEF BeginDigit
    <2>3. digits.rDiv = Big(r) /\ r < Limb * Limb
      BY <1>3 DEF Left
    <2>4. PICK w \in Nat : w = Limb
      BY LimbFacts
    <2>5. DivAt(divmod256(Big(r), Ten), r)
      BY <2>3, <2>4, DivideAt
    <2>6. DivAt(division', r)
      BY <2>2, <2>3, <2>5
    <2>7. QED BY <1>1, <1>2, <1>3, <1>4, <2>2, <2>6 DEF AmountInv
  <1>5. CASE Finished(digits)
    <2>1. field' = "amount" /\ amount_str' = AmountText(digits, amount_str)
      BY <1>5 DEF BeginDigit
    <2>2. \E t : AmountText(digits, amount_str) = t \o Unit /\ Says(t, a)
      BY <1>3, <1>5, TextSays
    <2>3. \E t : amount_str' = t \o Unit /\ Says(t, a)
      BY <2>1, <2>2
    <2>4. QED BY <1>1, <1>2, <2>1, <2>3 DEF AmountInv
  <1>6. QED BY <1>4, <1>5

\* A turn of the loop of the division (uint256.c:474).
LEMMA AmountDivide ==
  ASSUME AmountInv, Divide
  PROVE  AmountInv'
  <1>1. /\ field = "divide" /\ field' = field /\ bytes' = bytes /\ digits' = digits
        /\ gte256(division.mod, Ten) /\ division' = DivStep(division) /\ bytes \in AmountBytes
    BY DEF Divide, AmountInv
  <1>2. PICK r \in Nat : Left(digits, AmountOf(bytes), r) /\ DivAt(division, r) /\ ~Finished(digits)
    BY <1>1 DEF AmountInv
  <1>3. PICK w \in Nat : w = Limb
    BY LimbFacts
  <1>4. r < w * w
    BY <1>2, <1>3 DEF Left
  <1>5. DivAt(DivStep(division), r)
    BY <1>1, <1>2, <1>3, <1>4, DivStepAt
  <1>6. QED BY <1>1, <1>2, <1>5 DEF AmountInv

\* What remains is the next digit.
LEMMA AmountEndDigit ==
  ASSUME AmountInv, EndDigit
  PROVE  AmountInv'
  <1>1. /\ field = "divide" /\ field' = "digits" /\ bytes' = bytes
        /\ ~gte256(division.mod, Ten) /\ digits' = NextDigit(digits, division)
        /\ bytes \in AmountBytes
    BY DEF EndDigit, AmountInv
  <1>2. PICK a \in Nat : a = AmountOf(bytes) /\ a < Power(10, AmountSize - 8)
    BY <1>1, AmountOfType
  <1>3. PICK r \in Nat : Left(digits, a, r) /\ DivAt(division, r) /\ ~Finished(digits)
    BY <1>1, <1>2 DEF AmountInv
  <1>4. PICK w \in Nat : w = Limb
    BY LimbFacts
  <1>5. r < w * w
    BY <1>3, <1>4 DEF Left
  <1>6. PICK q \in Nat, m \in 0..9 : division.div = Big(q) /\ division.mod = Big(m) /\ r = q * 10 + m
    BY <1>1, <1>3, <1>4, <1>5, DividedBy
  <1>7. Len(digits.out) < AmountSize - 8 /\ (Len(digits.out) = 0 \/ r # 0)
    BY <1>2, <1>3, DigitsFit
  <1>8. Left(NextDigit(digits, division), a, q)
    BY <1>3, <1>6, <1>7, NextDigitLeft
  <1>9. QED BY <1>1, <1>2, <1>8 DEF AmountInv

\* Every step of the encodings keeps the invariant.
LEMMA AmountPreserved ==
  ASSUME AmountInv, [Next]_vars
  PROVE  AmountInv'
  <1>1. CASE EncodeAmount
    BY <1>1, AmountBegins
  <1>2. CASE BeginDigit
    BY <1>2, AmountBeginDigit
  <1>3. CASE Divide
    BY <1>3, AmountDivide
  <1>4. CASE EndDigit
    BY <1>4, AmountEndDigit
  <1>5. CASE UNCHANGED vars
    <2>1. /\ field' = field /\ bytes' = bytes /\ amount_str' = amount_str
          /\ digits' = digits /\ division' = division
      BY <1>5 DEF vars, amountVars
    <2>2. QED BY <2>1 DEF AmountInv
  <1>6. CASE field' \notin {"digits", "divide", "amount"}
    BY <1>6 DEF AmountInv
  <1>7. QED
    BY <1>1, <1>2, <1>3, <1>4, <1>5, <1>6
       DEF Next, EncodeRecipient, EncodeByte, Carry, EncodeDigits, BeginNumber, DecodeNumber, Done

\* The text of an amount is the amount to the last unit, in its shortest form, and
\* with its unit, whatever its bytes: amount_str and the digits have room for it
\* (currency.h:76, uint256.c:537).
THEOREM AmountExact == Spec => []AmountIsExact
  <1>1. AmountInv => AmountIsExact
    <2> SUFFICES ASSUME AmountInv, field = "amount" PROVE AmountSaid(AmountOf(bytes))
      BY DEF AmountIsExact, AmountSaid
    <2>1. PICK t : amount_str = t \o Unit /\ Says(t, AmountOf(bytes))
      BY DEF AmountInv
    <2>2. QED BY <2>1, SaidExactly
  <1>2. QED BY AmountInitially, AmountPreserved, <1>1, PTL DEF Spec

\* The loop of the division never goes on with a weight that is used up
\* (uint256.c:474).
THEOREM DivisionEnded == Spec => []DivisionEnds
  <1>1. AmountInv => DivisionEnds
    <2> SUFFICES ASSUME AmountInv, field = "divide", gte256(division.mod, Ten)
                 PROVE  ~zero256(division.adder)
      BY DEF DivisionEnds
    <2>1. PICK r \in Nat : Left(digits, AmountOf(bytes), r) /\ DivAt(division, r)
      BY DEF AmountInv
    <2>2. PICK w \in Nat : w = Limb
      BY LimbFacts
    <2>3. r < w * w
      BY <2>1, <2>2 DEF Left
    <2>4. QED BY <2>1, <2>2, <2>3, DivStepAt
  <1>2. QED BY AmountInitially, AmountPreserved, <1>1, PTL DEF Spec
=============================================================================
