-------------------------- MODULE TxnParser_proofs --------------------------
(***************************************************************************)
(* Proofs about the streaming parser, for every set of transactions, every *)
(* layout of their fields and every limit on the size of a part.           *)
(***************************************************************************)
EXTENDS TxnParserImplements, SequenceTheorems, TLAPS

\* The bytes on the wire, and what the hash may absorb.
Wire == Txns \X Nat
Byte == (Txns \cup {NoTxn}) \X Nat

----------------------------------------------------------------------------
(* Spans of bytes.                                                         *)

\* The bytes between two offsets are a sequence of as many bytes.
LEMMA SpanSeq ==
  ASSUME NEW t \in Txns, NEW a \in Nat, NEW b \in Nat, a <= b
  PROVE  /\ Span(t, a, b) \in Seq(Wire)
         /\ Len(Span(t, a, b)) = b - a
         /\ \A i \in 1..(b - a) : Span(t, a, b)[i] = <<t, a + i>>
<1>1. b - a \in Nat
  OBVIOUS
<1>2. Span(t, a, b) \in [1..(b - a) -> Wire]
  BY DEF Span, Wire
<1>3. Span(t, a, b) \in Seq(Wire)
  BY <1>1, <1>2
<1>4. DOMAIN Span(t, a, b) = 1..(b - a)
  BY DEF Span
<1>5. Len(Span(t, a, b)) = b - a
  BY <1>1, <1>3, <1>4, LenProperties
<1> QED
  BY <1>3, <1>5 DEF Span

\* A span cut at an offset is the two spans on its sides.
LEMMA SpanCut ==
  ASSUME NEW t \in Txns, NEW a \in Nat, NEW b \in Nat, NEW c \in Nat, a <= b, b <= c
  PROVE  /\ SubSeq(Span(t, a, c), 1, b - a) = Span(t, a, b)
         /\ Drop(Span(t, a, c), b - a) = Span(t, b, c)
<1>1. /\ Span(t, a, c) \in Seq(Wire) /\ Len(Span(t, a, c)) = c - a
      /\ \A i \in 1..(c - a) : Span(t, a, c)[i] = <<t, a + i>>
  <2>1. a <= c
    OBVIOUS
  <2> QED
    BY <2>1, SpanSeq
<1>2. SubSeq(Span(t, a, c), 1, b - a) = Span(t, a, b)
  <2>1. SubSeq(Span(t, a, c), 1, b - a) = [i \in 1..(b - a) |-> Span(t, a, c)[i]]
    BY <1>1
  <2>2. \A i \in 1..(b - a) : Span(t, a, c)[i] = <<t, a + i>>
    BY <1>1
  <2> QED
    BY <2>1, <2>2 DEF Span
<1>3. Drop(Span(t, a, c), b - a) = Span(t, b, c)
  <2> DEFINE d == SubSeq(Span(t, a, c), b - a + 1, c - a)
  <2>1. d = [i \in 1..(c - b) |-> Span(t, a, c)[b - a + i]]
    BY <1>1
  <2>2. \A i \in 1..(c - b) : Span(t, a, c)[b - a + i] = <<t, b + i>>
    BY <1>1
  <2> QED
    BY <2>1, <2>2, <1>1 DEF Span, Drop
<1> QED
  BY <1>2, <1>3

\* Adjacent spans make one.
LEMMA SpanJoin ==
  ASSUME NEW t \in Txns, NEW a \in Nat, NEW b \in Nat, NEW c \in Nat, a <= b, b <= c
  PROVE  Span(t, a, b) \o Span(t, b, c) = Span(t, a, c)
<1> DEFINE u == Span(t, a, b)
           v == Span(t, b, c)
           w == Span(t, a, c)
<1>1. /\ u \in Seq(Wire) /\ Len(u) = b - a
      /\ \A i \in 1..(b - a) : u[i] = <<t, a + i>>
  BY SpanSeq
<1>2. /\ v \in Seq(Wire) /\ Len(v) = c - b
      /\ \A i \in 1..(c - b) : v[i] = <<t, b + i>>
  BY SpanSeq
<1>3. /\ w \in Seq(Wire) /\ Len(w) = c - a
      /\ \A i \in 1..(c - a) : w[i] = <<t, a + i>>
  <2>1. a <= c
    OBVIOUS
  <2> QED
    BY <2>1, SpanSeq
<1> HIDE DEF u, v, w
<1>4. /\ u \o v \in Seq(Wire)
      /\ Len(u \o v) = c - a
      /\ \A i \in 1..(c - a) :
           (u \o v)[i] = IF i <= b - a THEN u[i] ELSE v[i - (b - a)]
  <2>1. /\ u \o v \in Seq(Wire)
        /\ Len(u \o v) = Len(u) + Len(v)
        /\ \A i \in 1..(Len(u) + Len(v)) :
             (u \o v)[i] = IF i <= Len(u) THEN u[i] ELSE v[i - Len(u)]
    BY <1>1, <1>2, ConcatProperties
  <2>2. Len(u) + Len(v) = c - a
    BY <1>1, <1>2
  <2> QED
    BY <2>1, <2>2, <1>1
<1>5. \A i \in 1..(c - a) : (u \o v)[i] = w[i]
  <2> SUFFICES ASSUME NEW i \in 1..(c - a) PROVE (u \o v)[i] = <<t, a + i>>
    BY <1>3
  <2>1. CASE i <= b - a
    <3>1. (u \o v)[i] = u[i] /\ i \in 1..(b - a)
      BY <2>1, <1>4
    <3> QED
      BY <3>1, <1>1
  <2>2. CASE i > b - a
    <3>1. (u \o v)[i] = v[i - (b - a)] /\ i - (b - a) \in 1..(c - b)
      BY <2>2, <1>4
    <3>2. v[i - (b - a)] = <<t, b + (i - (b - a))>>
      BY <3>1, <1>2
    <3>3. b + (i - (b - a)) = a + i
      BY SMT
    <3> QED
      BY <3>1, <3>2, <3>3
  <2>3. i <= b - a \/ i > b - a
    BY SMT
  <2> QED
    BY <2>1, <2>2, <2>3
<1>6. u \o v = w
  BY <1>3, <1>4, <1>5, SeqEqual
<1> QED
  BY <1>6 DEF u, v, w

----------------------------------------------------------------------------
(* The digest of a transaction.                                            *)

\* The offsets of a transaction's fields are numbers in order.
LEMMA Offsets ==
  ASSUME NEW t \in Txns
  PROVE  /\ \A k \in 0..9 : End[t][k] \in Nat
         /\ \A k \in Field : End[t][k-1] <= End[t][k]
         /\ End[t][0] = 1
         /\ PayloadAt[t] \in Nat /\ Size[t] \in Nat
         /\ End[t][4] <= PayloadAt[t] /\ PayloadAt[t] <= End[t][5]
         /\ PayloadAt[t] = End[t][4] <=> ~Present(t, 5)
         /\ \A i, j \in 0..9 : i <= j => End[t][i] <= End[t][j]
<1>1. /\ \A k \in 0..9 : End[t][k] \in Nat
      /\ \A k \in Field : End[t][k-1] <= End[t][k]
  BY TxnAssumption
<1>2. /\ End[t][0] <= End[t][1] /\ End[t][1] <= End[t][2] /\ End[t][2] <= End[t][3]
      /\ End[t][3] <= End[t][4] /\ End[t][4] <= End[t][5] /\ End[t][5] <= End[t][6]
      /\ End[t][6] <= End[t][7] /\ End[t][7] <= End[t][8] /\ End[t][8] <= End[t][9]
  <2>1. /\ End[t][1-1] <= End[t][1] /\ End[t][2-1] <= End[t][2] /\ End[t][3-1] <= End[t][3]
        /\ End[t][4-1] <= End[t][4] /\ End[t][5-1] <= End[t][5] /\ End[t][6-1] <= End[t][6]
        /\ End[t][7-1] <= End[t][7] /\ End[t][8-1] <= End[t][8] /\ End[t][9-1] <= End[t][9]
    BY <1>1 DEF Field
  <2> QED
    BY <2>1
<1>3. \A i, j \in 0..9 : i <= j => End[t][i] <= End[t][j]
  BY <1>1, <1>2
<1> QED
  BY <1>1, <1>3, TxnAssumption

\* What is on the wire can be hashed.
LEMMA WireIsByte == \A u \in Seq(Wire) : u \in Seq(Byte)
<1>1. Wire \subseteq Byte
  BY DEF Wire, Byte
<1> QED
  BY <1>1, SeqMonotonic

\* Concatenation of digests, regrouped.
LEMMA AppendAssociative ==
  \A u, v, w \in Seq(Byte) : (u \o v) \o w = u \o (v \o w)
BY ConcatAssociative

\* What a field contributes is a sequence of bytes.
LEMMA ChunkSeq ==
  ASSUME NEW t \in Txns, NEW k \in Field
  PROVE  Chunk(t, k) \in Seq(Byte)
<1>1. /\ End[t][k-1] \in Nat /\ End[t][k] \in Nat /\ End[t][k-1] <= End[t][k]
      /\ PayloadAt[t] \in Nat /\ End[t][5] \in Nat /\ PayloadAt[t] <= End[t][5]
  BY Offsets DEF Field
<1>2. Span(t, End[t][k-1], End[t][k]) \in Seq(Wire)
  BY <1>1, SpanSeq
<1>3. Span(t, PayloadAt[t], End[t][5]) \in Seq(Wire)
  BY <1>1, SpanSeq
<1>5. Default(k) \in Seq(Byte)
  <2>1. <<NoTxn, k>> \in Byte
    BY DEF Byte, Field
  <2> QED
    BY <2>1 DEF Default
<1> QED
  BY <1>2, <1>3, <1>5, WireIsByte DEF Chunk

\* The digest up to a field is extended by what that field contributes.
LEMMA DigestStep ==
  ASSUME NEW t \in Txns
  PROVE  /\ Digest(t, 1) = <<>>
         /\ \A k \in Field : Digest(t, k + 1) = Digest(t, k) \o Chunk(t, k)
         /\ \A k \in 1..10 : Digest(t, k) \in Seq(Byte)
<1> DEFINE c(j) == Chunk(t, j)
           B == Seq(Byte)
<1>1. /\ c(1) \in B /\ c(2) \in B /\ c(3) \in B /\ c(4) \in B /\ c(5) \in B
      /\ c(6) \in B /\ c(7) \in B /\ c(8) \in B /\ c(9) \in B
  BY ChunkSeq DEF Field
<1>2. \A u \in B : u \o <<>> = u
  BY ConcatEmptySeq
<1>3. \A u, v \in B : u \o v \in B
  BY ConcatProperties
<1>4. <<>> \in B
  OBVIOUS
<1> DEFINE d2 == c(1)
           d3 == d2 \o c(2)
           d4 == d3 \o c(3)
           d5 == d4 \o c(4)
           d6 == d5 \o c(5)
           d7 == d6 \o c(6)
           d8 == d7 \o c(7)
           d9 == d8 \o c(8)
           d10 == d9 \o c(9)
<1> HIDE DEF c, B
<1>5. d2 \in B /\ d3 \in B /\ d4 \in B /\ d5 \in B /\ d6 \in B
      /\ d7 \in B /\ d8 \in B /\ d9 \in B /\ d10 \in B
  BY <1>1, <1>3
<1> HIDE DEF d2, d3, d4, d5, d6, d7, d8, d9, d10
<1>6. \A j \in Field : \A k \in 1..10 : Upto(t, k, j) = IF j < k THEN c(j) ELSE <<>>
  BY DEF Upto, c
<1>7. Digest(t, 1) = <<>>
  <2>1. /\ Upto(t, 1, 1) = <<>> /\ Upto(t, 1, 2) = <<>> /\ Upto(t, 1, 3) = <<>>
        /\ Upto(t, 1, 4) = <<>> /\ Upto(t, 1, 5) = <<>> /\ Upto(t, 1, 6) = <<>>
        /\ Upto(t, 1, 7) = <<>> /\ Upto(t, 1, 8) = <<>> /\ Upto(t, 1, 9) = <<>>
    BY <1>6 DEF Field
  <2> QED
    BY <2>1, <1>1, <1>2, <1>4, <1>5 DEF Digest
<1>8. Digest(t, 2) = d2
  <2>1. /\ Upto(t, 2, 1) = c(1) /\ Upto(t, 2, 2) = <<>> /\ Upto(t, 2, 3) = <<>>
        /\ Upto(t, 2, 4) = <<>> /\ Upto(t, 2, 5) = <<>> /\ Upto(t, 2, 6) = <<>>
        /\ Upto(t, 2, 7) = <<>> /\ Upto(t, 2, 8) = <<>> /\ Upto(t, 2, 9) = <<>>
    BY <1>6 DEF Field
  <2>2. d2 \o <<>> = d2
    BY <1>2, <1>5
  <2> QED
    BY <2>1, <2>2 DEF Digest, d2
<1>9. Digest(t, 3) = d3
  <2>1. /\ Upto(t, 3, 1) = c(1) /\ Upto(t, 3, 2) = c(2) /\ Upto(t, 3, 3) = <<>>
        /\ Upto(t, 3, 4) = <<>> /\ Upto(t, 3, 5) = <<>> /\ Upto(t, 3, 6) = <<>>
        /\ Upto(t, 3, 7) = <<>> /\ Upto(t, 3, 8) = <<>> /\ Upto(t, 3, 9) = <<>>
    BY <1>6 DEF Field
  <2>2. d3 \o <<>> = d3
    BY <1>2, <1>5
  <2> QED
    BY <2>1, <2>2 DEF Digest, d2, d3
<1>10. Digest(t, 4) = d4
  <2>1. /\ Upto(t, 4, 1) = c(1) /\ Upto(t, 4, 2) = c(2) /\ Upto(t, 4, 3) = c(3)
        /\ Upto(t, 4, 4) = <<>> /\ Upto(t, 4, 5) = <<>> /\ Upto(t, 4, 6) = <<>>
        /\ Upto(t, 4, 7) = <<>> /\ Upto(t, 4, 8) = <<>> /\ Upto(t, 4, 9) = <<>>
    BY <1>6 DEF Field
  <2>2. d4 \o <<>> = d4
    BY <1>2, <1>5
  <2> QED
    BY <2>1, <2>2 DEF Digest, d2, d3, d4
<1>11. Digest(t, 5) = d5
  <2>1. /\ Upto(t, 5, 1) = c(1) /\ Upto(t, 5, 2) = c(2) /\ Upto(t, 5, 3) = c(3)
        /\ Upto(t, 5, 4) = c(4) /\ Upto(t, 5, 5) = <<>> /\ Upto(t, 5, 6) = <<>>
        /\ Upto(t, 5, 7) = <<>> /\ Upto(t, 5, 8) = <<>> /\ Upto(t, 5, 9) = <<>>
    BY <1>6 DEF Field
  <2>2. d5 \o <<>> = d5
    BY <1>2, <1>5
  <2> QED
    BY <2>1, <2>2 DEF Digest, d2, d3, d4, d5
<1>12. Digest(t, 6) = d6
  <2>1. /\ Upto(t, 6, 1) = c(1) /\ Upto(t, 6, 2) = c(2) /\ Upto(t, 6, 3) = c(3)
        /\ Upto(t, 6, 4) = c(4) /\ Upto(t, 6, 5) = c(5) /\ Upto(t, 6, 6) = <<>>
        /\ Upto(t, 6, 7) = <<>> /\ Upto(t, 6, 8) = <<>> /\ Upto(t, 6, 9) = <<>>
    BY <1>6 DEF Field
  <2>2. d6 \o <<>> = d6
    BY <1>2, <1>5
  <2> QED
    BY <2>1, <2>2 DEF Digest, d2, d3, d4, d5, d6
<1>13. Digest(t, 7) = d7
  <2>1. /\ Upto(t, 7, 1) = c(1) /\ Upto(t, 7, 2) = c(2) /\ Upto(t, 7, 3) = c(3)
        /\ Upto(t, 7, 4) = c(4) /\ Upto(t, 7, 5) = c(5) /\ Upto(t, 7, 6) = c(6)
        /\ Upto(t, 7, 7) = <<>> /\ Upto(t, 7, 8) = <<>> /\ Upto(t, 7, 9) = <<>>
    BY <1>6 DEF Field
  <2>2. d7 \o <<>> = d7
    BY <1>2, <1>5
  <2> QED
    BY <2>1, <2>2 DEF Digest, d2, d3, d4, d5, d6, d7
<1>14. Digest(t, 8) = d8
  <2>1. /\ Upto(t, 8, 1) = c(1) /\ Upto(t, 8, 2) = c(2) /\ Upto(t, 8, 3) = c(3)
        /\ Upto(t, 8, 4) = c(4) /\ Upto(t, 8, 5) = c(5) /\ Upto(t, 8, 6) = c(6)
        /\ Upto(t, 8, 7) = c(7) /\ Upto(t, 8, 8) = <<>> /\ Upto(t, 8, 9) = <<>>
    BY <1>6 DEF Field
  <2>2. d8 \o <<>> = d8
    BY <1>2, <1>5
  <2> QED
    BY <2>1, <2>2 DEF Digest, d2, d3, d4, d5, d6, d7, d8
<1>15. Digest(t, 9) = d9
  <2>1. /\ Upto(t, 9, 1) = c(1) /\ Upto(t, 9, 2) = c(2) /\ Upto(t, 9, 3) = c(3)
        /\ Upto(t, 9, 4) = c(4) /\ Upto(t, 9, 5) = c(5) /\ Upto(t, 9, 6) = c(6)
        /\ Upto(t, 9, 7) = c(7) /\ Upto(t, 9, 8) = c(8) /\ Upto(t, 9, 9) = <<>>
    BY <1>6 DEF Field
  <2>2. d9 \o <<>> = d9
    BY <1>2, <1>5
  <2> QED
    BY <2>1, <2>2 DEF Digest, d2, d3, d4, d5, d6, d7, d8, d9
<1>16. Digest(t, 10) = d10
  <2>1. /\ Upto(t, 10, 1) = c(1) /\ Upto(t, 10, 2) = c(2) /\ Upto(t, 10, 3) = c(3)
        /\ Upto(t, 10, 4) = c(4) /\ Upto(t, 10, 5) = c(5) /\ Upto(t, 10, 6) = c(6)
        /\ Upto(t, 10, 7) = c(7) /\ Upto(t, 10, 8) = c(8) /\ Upto(t, 10, 9) = c(9)
    BY <1>6 DEF Field
  <2> QED
    BY <2>1 DEF Digest, d2, d3, d4, d5, d6, d7, d8, d9, d10
<1>17. ASSUME NEW k \in Field PROVE Digest(t, k + 1) = Digest(t, k) \o c(k)
  <2>1. Digest(t, 2) = Digest(t, 1) \o c(1)
    <3>1. <<>> \o c(1) = c(1)
      BY <1>1, ConcatEmptySeq DEF B
    <3> QED
      BY <3>1, <1>7, <1>8 DEF d2
  <2>2. /\ d3 = d2 \o c(2) /\ d4 = d3 \o c(3) /\ d5 = d4 \o c(4) /\ d6 = d5 \o c(5)
        /\ d7 = d6 \o c(6) /\ d8 = d7 \o c(7) /\ d9 = d8 \o c(8) /\ d10 = d9 \o c(9)
    BY DEF d3, d4, d5, d6, d7, d8, d9, d10
  <2>3. k = 1 \/ k = 2 \/ k = 3 \/ k = 4 \/ k = 5 \/ k = 6 \/ k = 7 \/ k = 8 \/ k = 9
    BY DEF Field
  <2>4. /\ 1 + 1 = 2 /\ 2 + 1 = 3 /\ 3 + 1 = 4 /\ 4 + 1 = 5 /\ 5 + 1 = 6
        /\ 6 + 1 = 7 /\ 7 + 1 = 8 /\ 8 + 1 = 9 /\ 9 + 1 = 10
    OBVIOUS
  <2> QED
    BY <2>1, <2>2, <2>3, <2>4, <1>8, <1>9, <1>10, <1>11, <1>12, <1>13, <1>14, <1>15, <1>16
<1>18. ASSUME NEW k \in 1..10 PROVE Digest(t, k) \in B
  BY <1>4, <1>5, <1>7, <1>8, <1>9, <1>10, <1>11, <1>12, <1>13, <1>14, <1>15, <1>16
<1>19. \A k \in Field : Digest(t, k + 1) = Digest(t, k) \o Chunk(t, k)
  BY <1>17 DEF c
<1>20. \A k \in 1..10 : Digest(t, k) \in Seq(Byte)
  BY <1>18 DEF B
<1> QED
  BY <1>7, <1>19, <1>20

\* What begins with u and goes on begins with u.
LEMMA BeginsConcat ==
  ASSUME NEW u \in Seq(Byte), NEW v \in Seq(Byte), NEW w \in Seq(Byte),
         NEW x, x = u \o v, Begins(x, w)
  PROVE  Begins(u, w)
<1>1. /\ Len(u \o v) = Len(u) + Len(v)
      /\ Len(u) \in Nat /\ Len(v) \in Nat /\ Len(w) \in Nat
      /\ \A i \in 1..Len(u) : (u \o v)[i] = u[i]
  OBVIOUS
<1>2. Len(u) <= Len(w) /\ Len(u) + Len(v) <= Len(w)
  BY <1>1 DEF Begins
<1>3. \A i \in 1..(Len(u) + Len(v)) : (u \o v)[i] = w[i]
  <2>1. SubSeq(w, 1, Len(u) + Len(v)) = u \o v
    BY <1>1 DEF Begins
  <2>2. \A i \in 1..(Len(u) + Len(v)) : SubSeq(w, 1, Len(u) + Len(v))[i] = w[i]
    BY <1>1, <1>2
  <2> QED
    BY <2>1, <2>2
<1>4. /\ SubSeq(w, 1, Len(u)) \in Seq(Byte) /\ Len(SubSeq(w, 1, Len(u))) = Len(u)
      /\ \A i \in 1..Len(u) : SubSeq(w, 1, Len(u))[i] = w[i]
  BY <1>1, <1>2
<1>5. \A i \in 1..Len(u) : SubSeq(w, 1, Len(u))[i] = u[i]
  BY <1>1, <1>3, <1>4
<1>6. SubSeq(w, 1, Len(u)) = u
  BY <1>4, <1>5, SeqEqual
<1> QED
  BY <1>2, <1>6 DEF Begins

\* The digest up to a field is a beginning of the whole one.
LEMMA DigestBegins ==
  ASSUME NEW t \in Txns
  PROVE  \A k \in 1..10 : Begins(Digest(t, k), Canon(t))
<1> DEFINE B(k) == Begins(Digest(t, k), Canon(t))
<1>1. B(10)
  <2>1. Digest(t, 10) \in Seq(Byte)
    BY DigestStep
  <2> QED
    BY <2>1 DEF Begins, Canon
<1>2. ASSUME NEW k \in Field, NEW j, j = k + 1, B(j) PROVE B(k)
  <2>1. k \in 1..10 /\ 10 \in 1..10
    BY DEF Field
  <2>2. Digest(t, k) \in Seq(Byte) /\ Chunk(t, k) \in Seq(Byte) /\ Canon(t) \in Seq(Byte)
    BY <2>1, DigestStep, ChunkSeq DEF Canon
  <2>3. Digest(t, k + 1) = Digest(t, k) \o Chunk(t, k)
    BY DigestStep
  <2> QED
    BY <1>2, <2>2, <2>3, BeginsConcat
<1> HIDE DEF B
<1>3. /\ 2 = 1 + 1 /\ 3 = 2 + 1 /\ 4 = 3 + 1 /\ 5 = 4 + 1 /\ 6 = 5 + 1
      /\ 7 = 6 + 1 /\ 8 = 7 + 1 /\ 9 = 8 + 1 /\ 10 = 9 + 1
      /\ 1 \in Field /\ 2 \in Field /\ 3 \in Field /\ 4 \in Field /\ 5 \in Field
      /\ 6 \in Field /\ 7 \in Field /\ 8 \in Field /\ 9 \in Field
  BY DEF Field
<1>b9. B(9)
  BY <1>1, <1>2, <1>3
<1>b8. B(8)
  BY <1>b9, <1>2, <1>3
<1>b7. B(7)
  BY <1>b8, <1>2, <1>3
<1>b6. B(6)
  BY <1>b7, <1>2, <1>3
<1>b5. B(5)
  BY <1>b6, <1>2, <1>3
<1>b4. B(4)
  BY <1>b5, <1>2, <1>3
<1>b3. B(3)
  BY <1>b4, <1>2, <1>3
<1>b2. B(2)
  BY <1>b3, <1>2, <1>3
<1>b1. B(1)
  BY <1>b2, <1>2, <1>3
<1>6. \A k \in 1..10 : B(k)
  BY <1>1, <1>b9, <1>b8, <1>b7, <1>b6, <1>b5, <1>b4, <1>b3, <1>b2, <1>b1
<1> QED
  BY <1>6 DEF B

----------------------------------------------------------------------------
(* The reader.                                                             *)

ReaderState == [buf : Seq(Wire), hash : Seq(Byte), pos : 0..9, why : Why]

\* The fields before p were read and accepted; the bytes up to m remain.
ReaderAt(t, p, m, s) ==
  /\ End[t][p-1] <= m
  /\ AcceptedUpto(t, p)
  /\ s.buf = Span(t, End[t][p-1], m)
  /\ s.hash = Digest(t, p)

\* What the reader may have come to when fields lo..(p-1) were tried.
Outcome(t, lo, p, m, s) ==
  /\ s \in ReaderState
  /\ Begins(s.hash, Canon(t))
  /\ s.why = "run" => ReaderAt(t, p, m, s)
  /\ s.why = "incomplete" =>
       /\ s.pos \in lo..(p-1)
       /\ Stuck(t, s.pos, m)
       /\ ReaderAt(t, s.pos, m, s)
  /\ s.why = "invalid" => ~WellFormed(t)

\* What the parser sees of a field at the start of the unread bytes.
LEMMA FieldAtHead ==
  ASSUME NEW t \in Txns, NEW k \in Field, NEW m \in Nat, End[t][k-1] < m,
         m <= Size[t] + MaxPart
  PROVE  /\ Span(t, End[t][k-1], m) # <<>>
         /\ Span(t, End[t][k-1], m)[1] = <<t, End[t][k-1] + 1>>
         /\ IsTag(k, Span(t, End[t][k-1], m)[1]) <=> Present(t, k)
         /\ Incomplete(k, Span(t, End[t][k-1], m)) <=> m < End[t][k]
         /\ End[t][k] <= m =>
              /\ FieldSize(k, Span(t, End[t][k-1], m)) = End[t][k] - End[t][k-1]
              /\ Refuses(k, Span(t, End[t][k-1], m)) <=> k \in Bad[t]
<1> DEFINE u == Span(t, End[t][k-1], m)
<1>1. End[t][k-1] \in Nat /\ End[t][k] \in Nat /\ End[t][k-1] <= End[t][k]
  BY Offsets DEF Field
<1>2. /\ u \in Seq(Wire) /\ Len(u) = m - End[t][k-1]
      /\ \A i \in 1..(m - End[t][k-1]) : u[i] = <<t, End[t][k-1] + i>>
  <2>1. End[t][k-1] <= m
    BY <1>1
  <2> QED
    BY <2>1, <1>1, SpanSeq
<1>3. 1 \in 1..(m - End[t][k-1])
  BY <1>1
<1>4. u[1] = <<t, End[t][k-1] + 1>>
  BY <1>2, <1>3
<1>5. u # <<>>
  BY <1>1, <1>2
<1>6. u[1][1] = t /\ u[1][2] = End[t][k-1] + 1
  BY <1>4
<1>7. IsTag(k, u[1]) <=> Present(t, k)
  BY <1>6 DEF IsTag
<1>8. m \in (End[t][k-1] + 1)..(Size[t] + MaxPart)
  BY <1>1, Offsets, SizeAssumption
<1>9. IF m < End[t][k]
      THEN FieldSize(k, u) \notin 0..Len(u)
      ELSE /\ FieldSize(k, u) = End[t][k] - End[t][k-1]
           /\ Refuses(k, u) <=> k \in Bad[t]
  BY <1>8, ReadingAssumption
<1>10. Incomplete(k, u) <=> m < End[t][k]
  <2>1. CASE m < End[t][k]
    BY <2>1, <1>9 DEF Incomplete
  <2>2. CASE ~(m < End[t][k])
    <3>1. End[t][k] - End[t][k-1] \in 0..(m - End[t][k-1])
      BY <2>2, <1>1
    <3> QED
      BY <3>1, <2>2, <1>2, <1>5, <1>9 DEF Incomplete
  <2> QED
    BY <2>1, <2>2
<1>11. End[t][k] <= m => ~(m < End[t][k])
  BY <1>1
<1> QED
  BY <1>4, <1>5, <1>7, <1>9, <1>10, <1>11

\* A reader that stops is still a reader.
LEMMA ReaderStopped ==
  ASSUME NEW s \in ReaderState, NEW k \in 1..9, NEW w \in Why,
         NEW r, r = [s EXCEPT !.why = w, !.pos = k]
  PROVE  r \in ReaderState
<1>1. k \in 0..9
  OBVIOUS
<1> QED
  BY <1>1 DEF ReaderState

\* A reader that stops at the payload is a reader and says why.
LEMMA ReaderStoppedAt5 ==
  ASSUME NEW s \in ReaderState, NEW w \in {"incomplete", "invalid"},
         NEW r, r = [s EXCEPT !.why = w, !.pos = 5]
  PROVE  r \in ReaderState /\ r.why = w /\ r.hash = s.hash
<1>1. w \in Why /\ 5 \in 1..9
  BY DEF Why
<1>2. r \in ReaderState
  BY <1>1, ReaderStopped
<1>3. r.why = w /\ r.hash = s.hash
  BY DEF ReaderState
<1> QED
  BY <1>2, <1>3

\* Reading one field: it is read whole and hashed, or nothing is consumed.
LEMMA ReadFieldOutcome ==
  ASSUME NEW t \in Txns, NEW lo \in Field, NEW k \in Field \ {5}, lo <= k,
         NEW m \in Nat, m <= Size[t] + MaxPart, NEW s, Outcome(t, lo, k, m, s)
  PROVE  Outcome(t, lo, k + 1, m, ReadField(k, s))
<1> DEFINE a == End[t][k-1]
           b == End[t][k]
           u == Span(t, a, m)
           r == ReadField(k, s)
<1>1. a \in Nat /\ b \in Nat /\ a <= b
  BY Offsets DEF Field
<1>2. s \in ReaderState /\ k \in 1..9 /\ lo \in 1..9 /\ Begins(s.hash, Canon(t))
  BY DEF Outcome, Field
<1>3. CASE s.why # "run"
  <2>1. r = s
    BY <1>3 DEF ReadField
  <2>2. s.pos \in lo..(k-1) => s.pos \in lo..((k+1)-1)
    BY <1>2 DEF ReaderState
  <2> QED
    BY <2>1, <2>2, <1>3 DEF Outcome
<1>4. CASE s.why = "run"
  <2>1. a <= m /\ AcceptedUpto(t, k) /\ s.buf = u /\ s.hash = Digest(t, k)
    BY <1>4 DEF Outcome, ReaderAt
  <2>2. u \in Seq(Wire) /\ Len(u) = m - a
    BY <2>1, <1>1, SpanSeq
  <2>3. CASE Incomplete(k, u)
    <3>1. r = [s EXCEPT !.why = "incomplete", !.pos = k]
      BY <2>1, <2>3, <1>4 DEF ReadField
    <3>2. /\ r \in ReaderState /\ r.why = "incomplete" /\ r.pos = k
          /\ r.buf = s.buf /\ r.hash = s.hash
      <4>1. "incomplete" \in Why
        BY DEF Why
      <4> HIDE DEF r
      <4>2. r \in ReaderState
        BY <4>1, <3>1, <1>2, ReaderStopped
      <4>3. /\ r.why = "incomplete" /\ r.pos = k
            /\ r.buf = s.buf /\ r.hash = s.hash
        BY <3>1, <1>2 DEF ReaderState
      <4> QED
        BY <4>2, <4>3
    <3>3. m = a \/ m < b
      <4>1. CASE u = <<>>
        BY <4>1, <2>2, <1>1, <2>1
      <4>2. CASE u # <<>>
        <5>1. a < m
          BY <4>2, <2>1, <2>2, <1>1
        <5> QED
          BY <5>1, <2>3, FieldAtHead
      <4> QED
        BY <4>1, <4>2
    <3>4. Stuck(t, k, m)
      BY <3>3, <2>1 DEF Stuck
    <3>5. k \in lo..((k+1)-1)
      BY <1>2
    <3> QED
      BY <3>2, <3>4, <3>5, <2>1, <1>2 DEF Outcome, ReaderAt
  <2>4. CASE ~Incomplete(k, u)
    <3>1. a < m
      BY <2>4, <2>1, <2>2, <1>1 DEF Incomplete
    <3>3. b <= m
      BY <3>1, <2>4, <1>1, FieldAtHead
    <3>2. FieldSize(k, u) = b - a /\ (Refuses(k, u) <=> k \in Bad[t])
      BY <3>1, <3>3, FieldAtHead
    <3>4. CASE Invalid(k, u)
      <4>1. r = [s EXCEPT !.why = "invalid", !.pos = k]
        BY <2>1, <2>4, <3>4, <1>4 DEF ReadField
      <4>2. r \in ReaderState /\ r.why = "invalid" /\ r.hash = s.hash
        <5>1. "invalid" \in Why
          BY DEF Why
        <5> HIDE DEF r
        <5>2. r \in ReaderState
          BY <5>1, <4>1, <1>2, ReaderStopped
        <5>3. r.why = "invalid" /\ r.hash = s.hash
          BY <4>1, <1>2 DEF ReaderState
        <5> QED
          BY <5>2, <5>3
      <4>3. ~WellFormed(t)
        BY <3>4, <3>2, <1>1 DEF Invalid, WellFormed, Present
      <4> QED
        BY <4>2, <4>3, <1>2 DEF Outcome
    <3>5. CASE ~Invalid(k, u)
      <4>1. r = [s EXCEPT !.buf = Drop(u, FieldSize(k, u)),
                          !.hash = Digest(t, k) \o FieldHash(k, u)]
        BY <2>1, <2>4, <3>5, <1>4 DEF ReadField
      <4>2. Drop(u, FieldSize(k, u)) = Span(t, b, m)
        <5>1. Drop(u, b - a) = Span(t, b, m)
          BY <3>3, <1>1, SpanCut
        <5> QED
          BY <5>1, <3>2
      <4>3. FieldHash(k, u) = Chunk(t, k)
        <5>1. CASE Present(t, k)
          <6>1. FieldSize(k, u) # 0
            BY <5>1, <3>2, <1>1 DEF Present
          <6>2. SubSeq(u, 1, b - a) = Span(t, a, b)
            BY <3>3, <1>1, SpanCut
          <6> QED
            BY <6>1, <6>2, <5>1, <3>2 DEF FieldHash, Chunk
        <5>2. CASE ~Present(t, k)
          <6>1. FieldSize(k, u) = 0
            BY <5>2, <3>2, <1>1 DEF Present
          <6> QED
            BY <6>1, <5>2 DEF FieldHash, Chunk
        <5> QED
          BY <5>1, <5>2
      <4>4. Digest(t, k) \o FieldHash(k, u) = Digest(t, k + 1)
        BY <4>3, DigestStep
      <4>5. Digest(t, k + 1) \in Seq(Byte) /\ Begins(Digest(t, k + 1), Canon(t))
        <5>1. k + 1 \in 1..10
          BY <1>2
        <5> QED
          BY <5>1, DigestStep, DigestBegins
      <4>6. Span(t, b, m) \in Seq(Wire)
        BY <3>3, <1>1, SpanSeq
      <4>7. /\ r \in ReaderState /\ r.why = "run"
            /\ r.buf = Span(t, b, m) /\ r.hash = Digest(t, k + 1)
        BY ZenonT(60), <4>1, <4>2, <4>4, <4>5, <4>6, <1>2, <1>4 DEF ReaderState
      <4>8. Accepted(t, k)
        BY <3>5, <3>2, <1>1 DEF Invalid, Accepted, Present
      <4>9. AcceptedUpto(t, k + 1)
        BY <4>8, <2>1, <1>2 DEF AcceptedUpto, Field
      <4>10. (k + 1) - 1 = k
        BY <1>2
      <4> QED
        BY <4>5, <4>7, <4>9, <4>10, <3>3 DEF Outcome, ReaderAt
    <3> QED
      BY <3>4, <3>5
  <2> QED
    BY <2>3, <2>4
<1> QED
  BY <1>3, <1>4

\* The four fields before the payload, read from the first m bytes.
LEMMA HeadOutcome ==
  ASSUME NEW t \in Txns, NEW m \in Nat, 1 <= m, m <= Size[t] + MaxPart
  PROVE  Outcome(t, 1, 5, m, ReadHead(Tail(Span(t, 0, m))))
<1> DEFINE u  == Tail(Span(t, 0, m))
           s1 == Start(u, <<>>)
           s2 == ReadField(1, s1)
           s3 == ReadField(2, s2)
           s4 == ReadField(3, s3)
           s5 == ReadField(4, s4)
<1>1. u = Span(t, 1, m)
  <2>1. Span(t, 0, m) \in Seq(Wire) /\ Len(Span(t, 0, m)) = m
    <3>1. 0 \in Nat /\ 0 <= m /\ m - 0 = m
      OBVIOUS
    <3> QED
      BY <3>1, SpanSeq
  <2>2. Drop(Span(t, 0, m), 1) = Span(t, 1, m)
    <3>1. Drop(Span(t, 0, m), 1 - 0) = Span(t, 1, m)
      BY SpanCut
    <3> QED
      BY <3>1
  <2>3. Span(t, 0, m) # <<>>
    BY <2>1
  <2>4. Tail(Span(t, 0, m)) = SubSeq(Span(t, 0, m), 2, m)
    BY <2>1, <2>3, TailIsSubSeq
  <2> QED
    BY <2>1, <2>2, <2>4 DEF Drop
<1>2. Outcome(t, 1, 1, m, s1)
  <2>1. u \in Seq(Wire)
    BY <1>1, SpanSeq
  <2>2. s1 \in ReaderState /\ s1.why = "run" /\ s1.buf = u /\ s1.hash = <<>>
    BY <2>1 DEF Start, ReaderState, Why
  <2>3. End[t][1-1] = 1 /\ Digest(t, 1) = <<>>
    BY Offsets, DigestStep
  <2>4. AcceptedUpto(t, 1)
    BY DEF AcceptedUpto, Field
  <2>5. Begins(Digest(t, 1), Canon(t))
    <3>1. 1 \in 1..10
      OBVIOUS
    <3> QED
      BY <3>1, DigestBegins
  <2> QED
    BY <2>2, <2>3, <2>4, <2>5, <1>1 DEF Outcome, ReaderAt
<1> HIDE DEF u, s1, s2, s3, s4, s5
<1>3. 1 \in Field /\ {1, 2, 3, 4} \subseteq Field \ {5}
  BY DEF Field
<1>4. /\ 1 + 1 = 2 /\ 2 + 1 = 3 /\ 3 + 1 = 4 /\ 4 + 1 = 5
      /\ 1 <= 1 /\ 1 <= 2 /\ 1 <= 3 /\ 1 <= 4
  OBVIOUS
<1>5. Outcome(t, 1, 1 + 1, m, s2)
  BY <1>2, <1>3, <1>4, ReadFieldOutcome DEF s2
<1>6. Outcome(t, 1, 2 + 1, m, s3)
  BY <1>5, <1>3, <1>4, ReadFieldOutcome DEF s3
<1>7. Outcome(t, 1, 3 + 1, m, s4)
  BY <1>6, <1>3, <1>4, ReadFieldOutcome DEF s4
<1>8. Outcome(t, 1, 4 + 1, m, s5)
  BY <1>7, <1>3, <1>4, ReadFieldOutcome DEF s5
<1> QED
  BY <1>8, <1>4 DEF ReadHead, u, s1, s2, s3, s4, s5

\* The four fields after it, from field p on.
LEMMA TailOutcome ==
  ASSUME NEW t \in Txns, NEW m \in Nat, m <= Size[t] + MaxPart,
         NEW p \in 6..9, NEW u, NEW h, u \in Seq(Wire), ReaderAt(t, p, m, Start(u, h))
  PROVE  Outcome(t, p, 10, m, ReadTail(p, u, h))
<1> DEFINE Step(k) == IF k < p THEN p ELSE k
           s6 == Start(u, h)
           s7 == ReadFrom(p, 6, s6)
           s8 == ReadFrom(p, 7, s7)
           s9 == ReadFrom(p, 8, s8)
           sa == ReadFrom(p, 9, s9)
<1>1. Outcome(t, p, p, m, s6)
  <2>1. h = Digest(t, p)
    BY DEF ReaderAt, Start
  <2>2. h \in Seq(Byte)
    <3>1. p \in 1..10
      OBVIOUS
    <3> QED
      BY <3>1, <2>1, DigestStep
  <2>3. s6 \in ReaderState /\ s6.why = "run" /\ s6.hash = h
    BY <2>2 DEF Start, ReaderState, Why
  <2>4. Begins(h, Canon(t))
    <3>1. p \in 1..10
      OBVIOUS
    <3> QED
      BY <3>1, <2>1, DigestBegins
  <2> QED
    BY <2>3, <2>4 DEF Outcome
<1>2. ASSUME NEW k \in 6..9, NEW s, Outcome(t, p, Step(k), m, s)
      PROVE  Outcome(t, p, Step(k + 1), m, ReadFrom(p, k, s))
  <2>1. CASE k < p
    <3>1. Step(k) = p /\ Step(k + 1) = p
      BY <2>1
    <3> QED
      BY <3>1, <2>1, <1>2 DEF ReadFrom
  <2>2. CASE ~(k < p)
    <3>1. Step(k) = k /\ Step(k + 1) = k + 1
      BY <2>2
    <3>2. p \in Field /\ k \in Field \ {5} /\ p <= k
      BY <2>2 DEF Field
    <3>3. Outcome(t, p, k + 1, m, ReadField(k, s))
      BY <3>1, <3>2, <1>2, ReadFieldOutcome
    <3> QED
      BY <3>1, <3>3, <2>2 DEF ReadFrom
  <2> QED
    BY <2>1, <2>2
<1>3. /\ Step(6) = p /\ Step(10) = 10
      /\ 6 + 1 = 7 /\ 7 + 1 = 8 /\ 8 + 1 = 9 /\ 9 + 1 = 10
      /\ 6 \in 6..9 /\ 7 \in 6..9 /\ 8 \in 6..9 /\ 9 \in 6..9
  OBVIOUS
<1> HIDE DEF Step, s6, s7, s8, s9, sa
<1>4. Outcome(t, p, Step(6), m, s6)
  BY <1>1, <1>3
<1>5. Outcome(t, p, Step(6 + 1), m, s7)
  BY <1>4, <1>3, <1>2 DEF s7
<1>6. Outcome(t, p, Step(7 + 1), m, s8)
  BY <1>5, <1>3, <1>2 DEF s8
<1>7. Outcome(t, p, Step(8 + 1), m, s9)
  BY <1>6, <1>3, <1>2 DEF s9
<1>8. Outcome(t, p, Step(9 + 1), m, sa)
  BY <1>7, <1>3, <1>2 DEF sa
<1> QED
  BY <1>8, <1>3 DEF ReadTail, s6, s7, s8, s9, sa

\* The payload's header, after the head fields: an incomplete one means that
\* the part was too short.
HeaderRead(t, m, s, r) ==
  /\ r \in ReaderState
  /\ Begins(r.hash, Canon(t))
  /\ r.why = "run" =>
       /\ AcceptedUpto(t, 6)
       /\ PayloadAt[t] <= m
       /\ r.buf = Span(t, PayloadAt[t], m)
       /\ r.hash = Digest(t, 5)
       /\ AnnouncedLen(s.buf) = End[t][5] - PayloadAt[t]
  /\ r.why = "incomplete" => ~HeadFits(t, m)
  /\ r.why = "invalid" => ~WellFormed(t)

\* The whole header: what parse_first_part hands to the payload, or that it stopped.
LEMMA HeaderOutcome ==
  ASSUME NEW t \in Txns, NEW m \in Nat, m <= Size[t] + MaxPart,
         NEW s, Outcome(t, 1, 5, m, s)
  PROVE  HeaderRead(t, m, s, ReadHeader(s))
<1> DEFINE a == End[t][4]
           b == End[t][5]
           q == PayloadAt[t]
           u == Span(t, a, m)
           r == ReadHeader(s)
<1>1. /\ a \in Nat /\ b \in Nat /\ q \in Nat
      /\ a <= b /\ a <= q /\ q <= b /\ (q = a <=> ~Present(t, 5))
      /\ Present(t, 5) <=> a < b
  <2>1. a <= b
    BY Offsets
  <2> QED
    BY <2>1, Offsets DEF Present
<1>2. s \in ReaderState /\ Begins(s.hash, Canon(t))
  BY DEF Outcome
<1>3. CASE s.why # "run"
  <2>1. r = s
    BY <1>3 DEF ReadHeader
  <2>2. ASSUME s.why = "incomplete" PROVE ~HeadFits(t, m)
    <3>1. s.pos \in 1..4 /\ Stuck(t, s.pos, m)
      BY <2>2 DEF Outcome
    <3>2. /\ End[t][s.pos - 1] \in Nat /\ End[t][s.pos] \in Nat
          /\ End[t][s.pos - 1] <= a /\ End[t][s.pos] <= a
      <4>1. s.pos - 1 \in 0..9 /\ s.pos \in 0..9 /\ s.pos - 1 <= 4 /\ s.pos <= 4 /\ 4 \in 0..9
        BY <3>1
      <4> QED
        BY <4>1, Offsets
    <3>3. m <= a
      BY <3>1, <3>2, <1>1 DEF Stuck
    <3> QED
      BY <3>3, <1>1 DEF HeadFits
  <2> QED
    BY <2>1, <2>2, <1>2, <1>3 DEF HeaderRead, Outcome
<1>4. CASE s.why = "run"
  <2>1. a <= m /\ AcceptedUpto(t, 5) /\ s.buf = u /\ s.hash = Digest(t, 5)
    <3>1. 5 - 1 = 4
      OBVIOUS
    <3> QED
      BY <3>1, <1>4 DEF Outcome, ReaderAt
  <2>2. u \in Seq(Wire) /\ Len(u) = m - a
    BY <2>1, <1>1, SpanSeq
  <2>3. CASE m = a
    <3>1. u = <<>>
      BY <2>2, <2>3, <1>1
    <3>2. r = [s EXCEPT !.why = "incomplete", !.pos = 5]
      BY <3>1, <2>1, <1>4 DEF ReadHeader
    <3>3. r \in ReaderState /\ r.why = "incomplete" /\ r.hash = s.hash
      BY <3>2, <1>2, ReaderStoppedAt5
    <3>4. ~HeadFits(t, m)
      BY <2>3, <1>1 DEF HeadFits
    <3> QED
      BY <3>3, <3>4, <1>2 DEF HeaderRead
  <2>4. CASE a < m
    <3>1. /\ u # <<>> /\ u[1] = <<t, a + 1>> /\ (IsTag(5, u[1]) <=> Present(t, 5))
      <4>1. 5 - 1 = 4 /\ 5 \in Field
        BY DEF Field
      <4> QED
        BY <4>1, <2>4, FieldAtHead
    <3>2. HeaderSize(u) = q - a /\ AnnouncedLen(u) = b - q
      BY <3>1, <1>1 DEF HeaderSize, AnnouncedLen
    <3>3. CASE Len(u) < HeaderSize(u)
      <4>1. r = [s EXCEPT !.why = "incomplete", !.pos = 5]
        BY <3>3, <2>1, <1>4 DEF ReadHeader
      <4>2. r \in ReaderState /\ r.why = "incomplete" /\ r.hash = s.hash
        BY <4>1, <1>2, ReaderStoppedAt5
      <4>3. ~HeadFits(t, m)
        BY <3>2, <3>3, <2>2, <2>4, <1>1 DEF HeadFits
      <4> QED
        BY <4>2, <4>3, <1>2 DEF HeaderRead
    <3>4. CASE ~(Len(u) < HeaderSize(u))
      <4>1. q <= m
        BY <3>2, <3>4, <2>2, <1>1
      <4>2. CASE IsTag(5, u[1]) /\ 5 \in Bad[t]
        <5>1. r = [s EXCEPT !.why = "invalid", !.pos = 5]
          BY <4>2, <3>1, <3>4, <2>1, <1>4 DEF ReadHeader
        <5>2. r \in ReaderState /\ r.why = "invalid" /\ r.hash = s.hash
          BY <5>1, <1>2, ReaderStoppedAt5
        <5>3. ~WellFormed(t)
          BY <4>2 DEF WellFormed
        <5> QED
          BY <5>2, <5>3, <1>2 DEF HeaderRead
      <4>3. CASE ~(IsTag(5, u[1]) /\ 5 \in Bad[t])
        <5>1. r = [s EXCEPT !.buf = Drop(u, HeaderSize(u))]
          BY <4>3, <3>1, <3>4, <2>1, <1>4 DEF ReadHeader
        <5>2. Drop(u, HeaderSize(u)) = Span(t, q, m)
          <6>1. Drop(u, q - a) = Span(t, q, m)
            BY ZenonT(60), <4>1, <1>1, SpanCut
          <6> QED
            BY <6>1, <3>2
        <5>3. Span(t, q, m) \in Seq(Wire)
          BY <4>1, <1>1, SpanSeq
        <5>4. /\ r \in ReaderState /\ r.why = "run"
              /\ r.buf = Span(t, q, m) /\ r.hash = Digest(t, 5)
          BY ZenonT(60), <5>1, <5>2, <5>3, <2>1, <1>2, <1>4 DEF ReaderState
        <5>5. Accepted(t, 5)
          <6>1. 5 \in Bad[t] => Present(t, 5)
            BY TxnAssumption
          <6> QED
            BY <6>1, <4>3, <3>1 DEF Accepted, Required
        <5>6. AcceptedUpto(t, 6)
          BY <5>5, <2>1 DEF AcceptedUpto, Field
        <5> QED
          BY <5>4, <5>6, <4>1, <3>2, <2>1, <1>2 DEF HeaderRead
      <4> QED
        BY <4>2, <4>3
    <3> QED
      BY <3>3, <3>4
  <2> QED
    BY <2>1, <2>3, <2>4, <1>1
<1> QED
  BY <1>3, <1>4

----------------------------------------------------------------------------
(* The steps of the parser.                                                *)

Replies == {"OK", "LACKS_FIELD", "INVALID_DATA", "OVERLONG", "TXN_INCOMPLETE",
            "WRONG_LENGTH", "INVALID_STATE"}

\* The types of what parse_last_part writes.
TailType ==
  /\ txn_is_complete \in BOOLEAN
  /\ last_part \in Seq(Wire)
  /\ last_part_pos \in {0} \cup 6..9
  /\ hash \in Seq(Byte)
  /\ txn_hash \in Seq(Byte)
  /\ sw \in Replies

\* What the inductive invariant says besides types.
Core ==
  /\ LastPartFits
  /\ thrown = "none" => Absorbed /\ (InPayload \/ InTail \/ Whole)
  /\ thrown # "none" => ~has_partial_payload
  /\ NoFalseRefusal

\* What the host did with a part that ends at offset m of t, before any refusal.
Brought(t, m, kept) ==
  /\ cur' = t
  /\ TakenIn(t, m, kept)
  /\ thrown' = Refusal(sw')
  /\ upto' = m

\* The tail of t was read up to field p and b is the offset of the next part.
TailAt(t, p, b, lp, h) ==
  /\ AcceptedUpto(t, p)
  /\ Stuck(t, p, b)
  /\ lp = Span(t, End[t][p-1], b)
  /\ h = Digest(t, p)

\* A good transaction all of whose bytes were read is not stuck in any field.
LEMMA NotStuckAtEnd ==
  ASSUME NEW t \in Txns, NEW p \in 1..9, Stuck(t, p, Size[t])
  PROVE  ~WellFormed(t)
<1>1. SUFFICES ASSUME WellFormed(t) PROVE FALSE
  OBVIOUS
<1>2. Size[t] = End[t][9] /\ End[t][8] < End[t][9]
  <2>1. 9 \in Required /\ 9 - 1 = 8
    BY DEF Required
  <2> QED
    BY <2>1, <1>1 DEF WellFormed, Present
<1>3. /\ End[t][p-1] \in Nat /\ End[t][p] \in Nat /\ End[t][8] \in Nat /\ End[t][9] \in Nat
      /\ End[t][p-1] <= End[t][8] /\ End[t][p] <= End[t][9]
  <2>1. p - 1 \in 0..9 /\ p \in 0..9 /\ 8 \in 0..9 /\ 9 \in 0..9 /\ p - 1 <= 8 /\ p <= 9
    OBVIOUS
  <2> QED
    BY <2>1, Offsets
<1> QED
  BY <1>2, <1>3 DEF Stuck

\* The bytes after the payload.
LEMMA LastPartStep ==
  ASSUME NEW t \in Txns, NEW b \in Nat, NEW m \in Nat, b <= m, m <= Size[t] + MaxPart,
         NEW h, NEW lp, NEW lpos \in {0} \cup 6..9, NEW last,
         Len(lp) <= LastPartSize, lpos = 0 => b = End[t][5],
         TailAt(t, ResumeAt(lpos), b, lp, h),
         Brought(t, m, b), ~has_partial_payload', hash2' = Payload(t),
         parse_last_part(Span(t, b, m), h, lp, lpos, last)
  PROVE  TailType' /\ Core'
<1> DEFINE p == ResumeAt(lpos)
           a == End[t][p-1]
           part == Span(t, b, m)
           u == Unread(part, lp, lpos)
           s == ReadTail(p, u, h)
<1>1. p \in 6..9 /\ p \in 1..9 /\ p \in 1..10
  BY DEF ResumeAt
<1>2. /\ \A k \in 0..9 : End[t][k] \in Nat
      /\ \A i, j \in 0..9 : i <= j => End[t][i] <= End[t][j]
      /\ Size[t] \in Nat
      /\ LastPartSize \in Nat
  BY Offsets, SizeAssumption
<1>3. a \in Nat /\ End[t][5] \in Nat /\ End[t][9] \in Nat /\ End[t][5] <= a
  <2>1. p - 1 \in 0..9 /\ 5 \in 0..9 /\ 9 \in 0..9 /\ 5 <= p - 1
    BY <1>1
  <2> QED
    BY <2>1, <1>2
<1>4. /\ AcceptedUpto(t, p) /\ Stuck(t, p, b) /\ a <= b
      /\ lp = Span(t, a, b) /\ h = Digest(t, p)
  BY DEF TailAt, Stuck
<1>5. lpos = 0 => a = b
  <2> SUFFICES ASSUME lpos = 0 PROVE a = b
    OBVIOUS
  <2>1. p - 1 = 5
    BY DEF ResumeAt
  <2> QED
    BY <2>1
<1>m. b \in Nat /\ m \in Nat /\ b <= m /\ m <= Size[t] + MaxPart
  OBVIOUS
<1>h. cur' = t /\ TakenIn(t, m, b) /\ thrown' = Refusal(sw') /\ upto' = m
  BY DEF Brought
<1>p. parse_last_part(part, h, lp, lpos, last)
  OBVIOUS
<1>q. ~has_partial_payload' /\ hash2' = Payload(t)
  OBVIOUS
<1>r. InTail' <=>
        /\ ~has_partial_payload' /\ ~txn_is_complete'
        /\ last_part_pos' = 0 => sent' = End[t][5]
        /\ TailAt(t, ResumeAt(last_part_pos'), sent', last_part', hash')
        /\ hash2' = Payload(t)
  BY <1>h DEF InTail, TailAt
<1>s. \A k \in 6..9 : ResumeAt(k) = k /\ k # 0
  BY DEF ResumeAt
<1>6. /\ lp \in Seq(Wire) /\ Len(lp) = b - a
      /\ part \in Seq(Wire) /\ Len(part) = m - b
  BY <1>3, <1>4, <1>m, SpanSeq
<1>7. u = Span(t, a, m)
  <2>1. CASE lpos = 0
    BY <2>1, <1>5 DEF Unread
  <2>2. CASE lpos # 0
    <3>1. lp \o part = Span(t, a, m)
      BY <1>3, <1>4, <1>m, SpanJoin
    <3> QED
      BY <2>2, <3>1 DEF Unread
  <2> QED
    BY <2>1, <2>2
<1>8. u \in Seq(Wire) /\ Len(u) = m - a /\ a <= m
  <2>1. a <= m
    BY <1>3, <1>4, <1>m
  <2>2. Span(t, a, m) \in Seq(Wire) /\ Len(Span(t, a, m)) = m - a
    BY <2>1, <1>3, <1>m, SpanSeq
  <2> QED
    BY <2>1, <2>2, <1>7
<1>9. h \in Seq(Byte) /\ Begins(h, Canon(t))
  BY <1>1, <1>4, DigestStep, DigestBegins
<1>10. Outcome(t, p, 10, m, s)
  <2>1. ReaderAt(t, p, m, Start(u, h))
    BY <1>4, <1>7, <1>8 DEF ReaderAt, Start
  <2> QED
    BY <2>1, <1>1, <1>8, TailOutcome
<1>e. <<>> \in Seq(Byte)
  OBVIOUS
<1>f. Len(lp) <= LastPartSize /\ lpos \in {0} \cup 6..9 /\ (lpos = 0 => b = End[t][5])
      /\ TailAt(t, p, b, lp, h)
  OBVIOUS
<1> HIDE DEF p, a, part, u, s
<1>11. s \in ReaderState /\ Begins(s.hash, Canon(t))
  BY <1>10 DEF Outcome
<1>12. s.hash \in Seq(Byte) /\ s.buf \in Seq(Wire) /\ s.pos \in 0..9
  BY <1>11 DEF ReaderState
<1>13. CASE /\ Overflows(part, lp)
            /\ sw' = "OVERLONG"
            /\ last_part' = lp /\ last_part_pos' = lpos
            /\ hash' = h
            /\ txn_is_complete' = FALSE /\ txn_hash' = <<>>
  <2>1. sent' = b /\ thrown' = "none"
    BY <1>13, <1>h DEF TakenIn, Refusal
  <2>2. TailType'
    BY <1>13, <1>6, <1>9, <1>e, <1>f DEF TailType, Replies
  <2>3. InTail'
    <3>1. TailAt(t, ResumeAt(last_part_pos'), sent', last_part', hash')
      BY <2>1, <1>13, <1>f DEF p
    <3> QED
      BY <3>1, <2>1, <1>13, <1>f, <1>q, <1>r
  <2>4. WellFormed(t) => m > Size[t]
    <3> SUFFICES ASSUME WellFormed(t) PROVE m > Size[t]
      OBVIOUS
    <3>1. End[t][9] - End[t][5] <= LastPartSize /\ Size[t] = End[t][9]
      BY TailAssumption DEF WellFormed
    <3>2. (b - a) + (m - b) > LastPartSize
      BY <1>13, <1>6 DEF Overflows
    <3>3. LastPartSize \in Nat /\ Size[t] \in Nat
      BY <1>2
    <3>4. m - a > LastPartSize
      BY <3>2, <3>3, <1>3, <1>m
    <3>5. m - a > End[t][9] - End[t][5]
      BY <3>1, <3>3, <3>4, <1>3, <1>m
    <3>6. m > End[t][9]
      BY <3>5, <1>3, <1>m
    <3> QED
      BY <3>1, <3>6
  <2>5. NoFalseRefusal'
    BY <2>1, <2>4, <1>13, <1>h DEF NoFalseRefusal
  <2>6. LastPartFits' /\ Absorbed'
    BY <1>13, <1>9, <1>f, <1>h DEF LastPartFits, Absorbed
  <2> QED
    BY <2>1, <2>2, <2>3, <2>5, <2>6 DEF Core
<1>14. CASE /\ ~Overflows(part, lp) /\ s.why = "invalid"
            /\ sw' = "INVALID_DATA"
            /\ last_part' = lp /\ last_part_pos' = p
            /\ hash' = s.hash
            /\ txn_is_complete' = FALSE /\ txn_hash' = <<>>
  <2>1. ~WellFormed(t)
    BY <1>14, <1>10 DEF Outcome
  <2>2. TailType'
    BY <1>1, <1>6, <1>12, <1>14, <1>e DEF TailType, Replies
  <2>3. thrown' # "none"
    BY <1>14, <1>h DEF Refusal
  <2>4. NoFalseRefusal' /\ LastPartFits'
    BY <2>1, <1>14, <1>f, <1>h DEF NoFalseRefusal, LastPartFits
  <2> QED
    BY <2>2, <2>3, <2>4, <1>q DEF Core
<1>15. CASE /\ ~Overflows(part, lp) /\ s.why = "incomplete"
            /\ CheckLast(last)
            /\ last_part' = s.buf /\ last_part_pos' = s.pos
            /\ hash' = s.hash
            /\ txn_is_complete' = FALSE /\ txn_hash' = <<>>
  <2>s. sw' \in {"OK", "TXN_INCOMPLETE"}
    BY <1>15 DEF CheckLast
  <2>h. sent' = m /\ m <= Size[t] /\ thrown' = "none"
    BY <2>s, <1>h DEF TakenIn, Refusal
  <2>1. s.pos \in 6..9 /\ s.pos >= p /\ Stuck(t, s.pos, m) /\ ReaderAt(t, s.pos, m, s)
    <3>1. s.pos \in p..(10-1) /\ Stuck(t, s.pos, m) /\ ReaderAt(t, s.pos, m, s)
      BY <1>15, <1>10 DEF Outcome
    <3> QED
      BY <3>1, <1>1
  <2>2. End[t][s.pos - 1] \in Nat /\ a <= End[t][s.pos - 1] /\ End[t][s.pos - 1] <= m
    <3>1. s.pos - 1 \in 0..9 /\ p - 1 \in 0..9 /\ p - 1 <= s.pos - 1
      BY <2>1, <1>1
    <3> QED
      BY <3>1, <2>1, <1>2 DEF ReaderAt, a
  <2>3. s.buf = Span(t, End[t][s.pos - 1], m) /\ Len(s.buf) = m - End[t][s.pos - 1]
    <3>1. Len(Span(t, End[t][s.pos - 1], m)) = m - End[t][s.pos - 1]
      BY <2>2, <1>m, SpanSeq
    <3> QED
      BY <3>1, <2>1 DEF ReaderAt
  <2>4. LastPartFits'
    <3>1. (b - a) + (m - b) <= LastPartSize
      BY <1>15, <1>2, <1>3, <1>6, <1>m DEF Overflows
    <3>3. LastPartSize \in Nat
      BY <1>2
    <3>4. m - a <= LastPartSize
      BY <3>1, <3>3, <1>3, <1>m
    <3>2. Len(s.buf) <= LastPartSize
      BY <3>3, <3>4, <2>2, <2>3, <1>3, <1>m
    <3> QED
      BY <3>2, <1>15 DEF LastPartFits
  <2>5. TailType'
    BY <2>1, <2>s, <1>12, <1>15, <1>e DEF TailType, Replies
  <2>6. InTail'
    <3>1. TailAt(t, s.pos, m, s.buf, s.hash)
      BY <2>1 DEF TailAt, ReaderAt
    <3>2. ResumeAt(s.pos) = s.pos /\ s.pos # 0
      BY <2>1, <1>s
    <3> QED
      BY <3>1, <3>2, <2>h, <1>15, <1>q, <1>r
  <2>7. m = Size[t] => ~WellFormed(t)
    <3>1. s.pos \in 1..9
      BY <2>1
    <3> QED
      BY <3>1, <2>1, NotStuckAtEnd
  <2>8. WellFormed(t) => m < Size[t]
    BY <2>7, <2>h, <1>2, <1>m
  <2>9. NoFalseRefusal'
    BY <2>8, <2>h, <2>s, <1>h DEF NoFalseRefusal
  <2>10. Absorbed'
    BY <1>11, <1>15, <1>h DEF Absorbed
  <2> QED
    BY <2>4, <2>5, <2>6, <2>9, <2>10, <2>h DEF Core
<1>16. CASE /\ ~Overflows(part, lp) /\ s.why = "run"
            /\ sw' = "OK"
            /\ last_part' = lp /\ last_part_pos' = p
            /\ hash' = s.hash
            /\ txn_is_complete' = TRUE /\ txn_hash' = s.hash
  <2>h. sent' = m /\ thrown' = "none"
    BY <1>16, <1>h DEF TakenIn, Refusal
  <2>1. End[t][9] <= m /\ AcceptedUpto(t, 10) /\ s.hash = Digest(t, 10)
    <3>1. 10 - 1 = 9
      OBVIOUS
    <3> QED
      BY <3>1, <1>16, <1>10 DEF Outcome, ReaderAt
  <2>2. TailType'
    BY <1>1, <1>6, <1>12, <1>16 DEF TailType, Replies
  <2>3. Whole'
    BY <2>1, <2>h, <1>16, <1>h, <1>q DEF Whole, Canon
  <2>4. NoFalseRefusal'
    BY <2>h, <1>16 DEF NoFalseRefusal
  <2>5. LastPartFits' /\ Absorbed'
    BY <2>1, <1>11, <1>16, <1>f, <1>h DEF LastPartFits, Absorbed, Canon
  <2> QED
    BY <2>2, <2>3, <2>4, <2>5, <2>h DEF Core
<1> QED
  BY <1>p, <1>13, <1>14, <1>15, <1>16 DEF parse_last_part, p, u, s

PayloadType ==
  /\ has_partial_payload \in BOOLEAN
  /\ payload_len \in Nat
  /\ payload_part_offset \in Nat
  /\ payload_part_len \in Nat
  /\ hash2 \in Seq(Wire)

\* The bytes from offset m0 on, which start inside the payload or at its end.
LEMMA PayloadStep ==
  ASSUME NEW t \in Txns, NEW m0 \in Nat, NEW m \in Nat, m <= Size[t] + MaxPart,
         PayloadAt[t] <= m0, m0 <= m, m0 <= End[t][5], AcceptedUpto(t, 6),
         NEW h, h = Digest(t, 5) \o Span(t, PayloadAt[t], m0), NEW last,
         Brought(t, m, End[t][5]),
         parse_payload_body(Span(t, m0, m), h, Span(t, PayloadAt[t], m0),
                       m0 - PayloadAt[t], End[t][5] - PayloadAt[t],
                       <<>>, 0, last)
  PROVE  TailType' /\ PayloadType' /\ Core'
<1> DEFINE q == PayloadAt[t]
           e == End[t][5]
           c == Least(m, e)
           part == Span(t, m0, m)
           n == BodyLen(part, m0 - q, e - q)
           body == SubSeq(part, 1, n)
<1>1. /\ q \in Nat /\ e \in Nat /\ q <= m0 /\ m0 <= m /\ m0 <= e
      /\ m \in Nat /\ m0 \in Nat
  BY Offsets
<1>b. Brought(t, m, e)
  OBVIOUS
<1>x. cur' = t /\ TakenIn(t, m, e) /\ thrown' = Refusal(sw') /\ upto' = m
  BY DEF Brought
<1>h. h = Digest(t, 5) \o Span(t, q, m0)
  OBVIOUS
<1>p. parse_payload_body(part, h, Span(t, q, m0), m0 - q, e - q, <<>>, 0, last)
  OBVIOUS
<1>c. Chunk(t, 5) = Span(t, q, e)
  BY DEF Chunk
<1>a. AcceptedUpto(t, 6)
  OBVIOUS
<1>w. WellFormed(t) => e <= Size[t]
  BY Offsets DEF WellFormed
<1>z. sent' = m =>
        (InPayload' <=>
          /\ has_partial_payload' /\ ~txn_is_complete'
          /\ AcceptedUpto(t, 6)
          /\ q <= m /\ m < e
          /\ payload_len' = e - q
          /\ payload_part_offset' + payload_part_len' = m - q
          /\ last_part' = <<>> /\ last_part_pos' = 0
          /\ hash' = Digest(t, 5) \o Span(t, q, m)
          /\ hash2' = Span(t, q, m))
  BY <1>x DEF InPayload
<1>e. \A g : g = Digest(t, 6) => TailAt(t, 6, e, <<>>, g)
  <2>1. 6 - 1 = 5 /\ e <= e
    BY <1>1
  <2>2. Span(t, e, e) = <<>>
    <3>1. Span(t, e, e) \in Seq(Wire) /\ Len(Span(t, e, e)) = e - e
      BY <2>1, <1>1, SpanSeq
    <3>2. e - e = 0
      BY <1>1
    <3> QED
      BY <3>1, <3>2, EmptySeq
  <2> QED
    BY <2>1, <2>2 DEF TailAt, Stuck
<1>m. m <= Size[t] + MaxPart
  OBVIOUS
<1> HIDE DEF q, e, c, part, n, body
<1>2. c \in Nat /\ m0 <= c /\ c <= m /\ c <= e /\ (m < e => c = m) /\ (m >= e => c = e)
  BY <1>1 DEF Least, c
<1>3. part \in Seq(Wire) /\ Len(part) = m - m0
  BY <1>1, SpanSeq DEF part
<1>4. n = c - m0
  <2>1. (e - q) - (m0 - q) = e - m0
    BY <1>1
  <2>2. n = Least(m - m0, e - m0)
    BY <2>1, <1>3 DEF n, BodyLen
  <2> QED
    BY <2>2, <1>1 DEF Least, c
<1>5. body = Span(t, m0, c)
  <2>1. SubSeq(part, 1, c - m0) = Span(t, m0, c)
    <3>1. SubSeq(Span(t, m0, m), 1, c - m0) = Span(t, m0, c)
      <4>1. m0 <= c /\ c <= m /\ c \in Nat
        BY <1>2
      <4> QED
        BY <4>1, SpanCut
    <3> QED
      BY <3>1 DEF part
  <2> QED
    BY <2>1, <1>4 DEF body
<1>6. Span(t, q, m0) \o body = Span(t, q, c)
  <2>1. Span(t, q, m0) \o Span(t, m0, c) = Span(t, q, c)
    BY <1>1, <1>2, SpanJoin
  <2> QED
    BY <2>1, <1>5
<1>7. h \o body = Digest(t, 5) \o Span(t, q, c)
  <2>1. Digest(t, 5) \in Seq(Byte)
    BY DigestStep
  <2>2. Span(t, q, m0) \in Seq(Wire) /\ Span(t, m0, c) \in Seq(Wire)
    BY <1>1, <1>2, SpanSeq
  <2>3. Span(t, q, m0) \in Seq(Byte) /\ Span(t, m0, c) \in Seq(Byte)
    BY <2>2, WireIsByte
  <2>4. (Digest(t, 5) \o Span(t, q, m0)) \o Span(t, m0, c)
          = Digest(t, 5) \o (Span(t, q, m0) \o Span(t, m0, c))
    BY <2>1, <2>3, AppendAssociative, Zenon
  <2> QED
    BY <2>4, <1>5, <1>6, <1>h
<1>8. Span(t, q, c) \in Seq(Wire)
  <2>1. q <= c
    BY <1>1, <1>2
  <2> QED
    BY <2>1, <1>1, <1>2, SpanSeq
<1>9. (m0 - q) + Len(part) < e - q <=> m < e
  BY <1>1, <1>3
<1>10. /\ payload_len' = e - q
       /\ payload_part_offset' = m0 - q
       /\ payload_part_len' = n
       /\ hash2' = Span(t, q, m0) \o body
  BY <1>p DEF parse_payload_body, n, body
<1>o. \/ has_partial_payload' = TRUE
      \/ has_partial_payload' = FALSE
  BY <1>p DEF parse_payload_body
<1>11. PayloadType'
  <2>1. /\ payload_len' \in Nat /\ payload_part_offset' \in Nat /\ payload_part_len' \in Nat
    <3>1. e - q \in Nat /\ m0 - q \in Nat /\ c - m0 \in Nat
      BY <1>1, <1>2
    <3> QED
      BY <3>1, <1>4, <1>10
  <2>2. hash2' \in Seq(Wire)
    BY <1>6, <1>8, <1>10
  <2> QED
    BY <2>1, <2>2, <1>o DEF PayloadType
<1>12. CASE /\ (m0 - q) + Len(part) < e - q
            /\ has_partial_payload' = TRUE
            /\ CheckLast(last)
            /\ hash' = h \o body
            /\ last_part' = <<>> /\ last_part_pos' = 0
            /\ txn_is_complete' = FALSE /\ txn_hash' = <<>>
  <2>1. m < e /\ c = m
    BY <1>2, <1>9, <1>12
  <2>s. sw' \in {"OK", "TXN_INCOMPLETE"}
    BY <1>12 DEF CheckLast
  <2>h. sent' = m /\ thrown' = "none"
    BY <2>s, <1>x DEF TakenIn, Refusal
  <2>2. hash' \in Seq(Byte) /\ <<>> \in Seq(Wire) /\ <<>> \in Seq(Byte)
    <3>1. Digest(t, 5) \in Seq(Byte) /\ Span(t, q, c) \in Seq(Byte)
      BY <1>8, WireIsByte, DigestStep
    <3>2. Digest(t, 5) \o Span(t, q, c) \in Seq(Byte)
      BY <3>1, ConcatProperties
    <3> QED
      BY <3>2, <1>7, <1>12
  <2>3. TailType'
    BY <2>2, <2>s, <1>12 DEF TailType, Replies
  <2>4. LastPartFits'
    BY <1>12, SizeAssumption DEF LastPartFits
  <2>5. InPayload'
    <3>1. payload_part_offset' + payload_part_len' = m - q
      <4>1. (m0 - q) + (m - m0) = m - q
        BY <1>1
      <4> QED
        BY <4>1, <1>4, <1>10, <2>1
    <3>2. hash' = Digest(t, 5) \o Span(t, q, m) /\ hash2' = Span(t, q, m)
      BY <2>1, <1>6, <1>7, <1>10, <1>12
    <3>3. has_partial_payload' /\ ~txn_is_complete' /\ q <= m
      BY <2>1, <1>1, <1>12
    <3> QED
      BY <3>1, <3>2, <3>3, <2>1, <2>h, <1>10, <1>12, <1>a, <1>z
  <2>6. WellFormed(t) => m < Size[t]
    <3>1. Size[t] \in Nat
      BY Offsets
    <3> QED
      BY <3>1, <2>1, <1>1, <1>w
  <2>7. NoFalseRefusal'
    BY <2>6, <2>s, <2>h, <1>x DEF NoFalseRefusal
  <2>8. Absorbed'
    <3>1. Span(t, q, e) = Span(t, q, m) \o Span(t, m, e)
      <4>1. q <= m /\ m <= e
        BY <2>1, <1>1
      <4> QED
        BY <4>1, <1>1, SpanJoin
    <3>2. /\ Digest(t, 5) \in Seq(Byte) /\ Canon(t) \in Seq(Byte)
          /\ Digest(t, 6) = Digest(t, 5) \o Chunk(t, 5) /\ Begins(Digest(t, 6), Canon(t))
      <4>1. 5 \in Field /\ 5 + 1 = 6 /\ 5 \in 1..10 /\ 6 \in 1..10 /\ 10 \in 1..10
        BY DEF Field
      <4>2. Digest(t, 5 + 1) = Digest(t, 5) \o Chunk(t, 5)
        BY <4>1, DigestStep
      <4> QED
        BY <4>1, <4>2, DigestStep, DigestBegins DEF Canon
    <3>3. Span(t, q, m) \in Seq(Byte) /\ Span(t, m, e) \in Seq(Byte)
      <4>1. q <= m /\ m <= e
        BY <2>1, <1>1
      <4>2. Span(t, q, m) \in Seq(Wire) /\ Span(t, m, e) \in Seq(Wire)
        BY <4>1, <1>1, SpanSeq
      <4> QED
        BY <4>2, WireIsByte
    <3>4. Digest(t, 6) = (Digest(t, 5) \o Span(t, q, m)) \o Span(t, m, e)
      <4>1. (Digest(t, 5) \o Span(t, q, m)) \o Span(t, m, e)
              = Digest(t, 5) \o (Span(t, q, m) \o Span(t, m, e))
        BY <3>2, <3>3, AppendAssociative, Zenon
      <4> QED
        BY <4>1, <3>1, <3>2, <1>c
    <3>5. Begins(Digest(t, 5) \o Span(t, q, m), Canon(t))
      <4>1. Digest(t, 5) \o Span(t, q, m) \in Seq(Byte)
        BY <3>2, <3>3, ConcatProperties
      <4> QED
        BY <4>1, <3>2, <3>3, <3>4, BeginsConcat
    <3>6. hash' = Digest(t, 5) \o Span(t, q, m)
      BY <2>1, <1>7, <1>12
    <3> QED
      BY <3>5, <3>6, <1>12, <1>x DEF Absorbed
  <2> QED
    BY <2>3, <2>4, <2>5, <2>7, <2>8, <2>h, <1>11 DEF Core
<1>13. CASE /\ (m0 - q) + Len(part) >= e - q
            /\ has_partial_payload' = FALSE
            /\ parse_last_part(Drop(part, n), h \o body, <<>>, 0, last)
  <2>1. c = e /\ e <= m /\ ~has_partial_payload'
    <3>1. ~(m < e)
      <4>1. (m0 - q) + Len(part) \in Int /\ e - q \in Int
        BY <1>1, <1>3
      <4> QED
        BY <4>1, <1>9, <1>13
    <3> QED
      BY <3>1, <1>1, <1>2, <1>13
  <2>2. Drop(part, n) = Span(t, e, m)
    <3>1. Drop(Span(t, m0, m), e - m0) = Span(t, e, m)
      BY <2>1, <1>1, SpanCut
    <3> QED
      BY <3>1, <2>1, <1>4 DEF part
  <2>4. hash2' = Payload(t)
    BY <2>1, <1>6, <1>10, <1>c DEF Payload
  <2>5. h \o body = Digest(t, 6)
    <3>1. 5 \in Field
      BY DEF Field
    <3>2. Digest(t, 5 + 1) = Digest(t, 5) \o Chunk(t, 5)
      BY <3>1, DigestStep
    <3>3. 5 + 1 = 6
      OBVIOUS
    <3> QED
      BY <3>2, <3>3, <2>1, <1>7, <1>c
  <2>6. /\ ResumeAt(0) = 6 /\ 0 \in {0} \cup 6..9
        /\ Len(<<>>) <= LastPartSize /\ e = End[t][5]
    BY SizeAssumption DEF ResumeAt, e
  <2>7. TailAt(t, ResumeAt(0), e, <<>>, h \o body)
    BY <2>5, <2>6, <1>e
  <2>8. TailType' /\ Core'
    <3> DEFINE g == h \o body
    <3> HIDE DEF g
    <3>1. parse_last_part(Span(t, e, m), g, <<>>, 0, last)
      BY <2>2, <1>13 DEF g
    <3>2. TailAt(t, ResumeAt(0), e, <<>>, g)
      BY <2>7 DEF g
    <3> QED
      BY <3>1, <3>2, <2>1, <2>4, <2>6, <1>1, <1>b, <1>m, LastPartStep
  <2> QED
    BY <2>8, <1>11
<1> QED
  BY <1>p, <1>12, <1>13 DEF parse_payload_body, n, body

\* What the steps above establish is the whole inductive invariant.
LEMMA IInvParts ==
  ASSUME NEW t \in Txns, NEW m \in Nat, NEW kept \in Nat, Brought(t, m, kept),
         TailType', PayloadType', Core'
  PROVE  IInv'
<1>1. /\ cur' = t /\ cur' # NoTxn /\ sent' \in Nat /\ sent' <= Size[t] /\ upto' \in Nat
      /\ thrown' = Refusal(sw')
  BY TxnAssumption DEF Brought, TakenIn
<1>2. TypeOK'
  BY <1>1 DEF TypeOK, TailType, PayloadType, Wire, Byte, Replies, Refusal
<1> QED
  BY <1>1, <1>2 DEF IInv, Core

\* A first part, after any state, makes the invariant true again.
LEMMA FirstPartStep ==
  ASSUME NEW t \in Txns, NEW n \in 1..(MaxPart + 1), NEW last, FirstPart(t, n, last)
  PROVE  IInv'
<1> DEFINE q == PayloadAt[t]
           s == ReadHead(Tail(Span(t, 0, n)))
           r == ReadHeader(s)
<1>1. /\ q \in Nat /\ q <= End[t][5] /\ Size[t] \in Nat /\ n \in Nat
      /\ n <= MaxPart /\ 1 <= n /\ End[t][5] \in Nat /\ MaxPart \in Nat
  BY Offsets, SizeAssumption DEF FirstPart, GoodLength
<1>2. Brought(t, n, End[t][5]) /\ parse_first_part(Span(t, 0, n), last)
  BY DEF FirstPart, Brought
<1>m. n <= Size[t] + MaxPart
  BY <1>1
<1>3. Outcome(t, 1, 5, n, s)
  BY <1>1, <1>m, HeadOutcome
<1> HIDE DEF s
<1>4. HeaderRead(t, n, s, r)
  BY <1>1, <1>m, <1>3, HeaderOutcome
<1> HIDE DEF r
<1>5. TailType' /\ PayloadType' /\ Core'
  <2>1. CASE /\ r.why # "run"
             /\ sw' = IF r.why = "invalid" THEN "INVALID_DATA" ELSE "LACKS_FIELD"
             /\ payload_len' = 0 /\ payload_part_offset' = 0 /\ payload_part_len' = 0
             /\ has_partial_payload' = FALSE
             /\ hash' = r.hash /\ hash2' = <<>>
             /\ last_part' = <<>> /\ last_part_pos' = 0
             /\ txn_is_complete' = FALSE /\ txn_hash' = <<>>
    <3>1. r \in ReaderState
      BY <1>4 DEF HeaderRead
    <3>2. r.hash \in Seq(Byte) /\ <<>> \in Seq(Byte) /\ <<>> \in Seq(Wire)
      BY <3>1 DEF ReaderState
    <3>3. r.why = "invalid" \/ r.why = "incomplete"
      BY <3>1, <2>1 DEF ReaderState, Why
    <3>4. TailType' /\ PayloadType'
      BY <3>2, <2>1 DEF TailType, PayloadType, Replies
    <3>5. LastPartFits'
      BY <2>1, SizeAssumption DEF LastPartFits
    <3>6. thrown' = sw' /\ thrown' # "none" /\ cur' = t /\ upto' = n
      BY <2>1, <1>2 DEF Brought, Refusal
    <3>7. NoFalseRefusal'
      <4>1. CASE r.why = "invalid"
        BY <4>1, <3>6, <1>4 DEF HeaderRead, NoFalseRefusal
      <4>2. CASE r.why = "incomplete"
        <5>1. ~HeadFits(t, n) /\ thrown' = "LACKS_FIELD"
          BY <4>2, <3>6, <2>1, <1>4 DEF HeaderRead
        <5>2. HeadFits(cur, upto)' = HeadFits(t, n)
          BY <3>6 DEF HeadFits, Present
        <5> QED
          BY <5>1, <5>2 DEF NoFalseRefusal
      <4> QED
        BY <4>1, <4>2, <3>3
    <3> QED
      BY <3>4, <3>5, <3>6, <3>7, <2>1 DEF Core
  <2>2. CASE /\ r.why = "run"
             /\ parse_payload_body(r.buf, r.hash, <<>>, 0, AnnouncedLen(s.buf), <<>>, 0, last)
    <3>1. /\ AcceptedUpto(t, 6) /\ q <= n /\ r.buf = Span(t, q, n) /\ r.hash = Digest(t, 5)
          /\ AnnouncedLen(s.buf) = End[t][5] - q
      BY <2>2, <1>4 DEF HeaderRead
    <3>2. Span(t, q, q) = <<>> /\ q - q = 0
      <4>1. Span(t, q, q) \in Seq(Wire) /\ Len(Span(t, q, q)) = q - q
        <5>1. q <= q
          BY <1>1
        <5> QED
          BY <5>1, <1>1, SpanSeq
      <4>2. q - q = 0
        BY <1>1
      <4> QED
        BY <4>1, <4>2, EmptySeq
    <3>3. r.hash = Digest(t, 5) \o Span(t, q, q)
      <4>1. Digest(t, 5) \in Seq(Byte)
        BY DigestStep
      <4>2. Digest(t, 5) \o <<>> = Digest(t, 5)
        BY <4>1, ConcatEmptySeq
      <4> QED
        BY <4>2, <3>1, <3>2
    <3>4. parse_payload_body(Span(t, q, n), r.hash, Span(t, q, q), q - q, End[t][5] - q,
                        <<>>, 0, last)
      BY <2>2, <3>1, <3>2
    <3>5. q <= q
      BY <1>1
    <3> QED
      BY <3>1, <3>3, <3>4, <3>5, <1>1, <1>2, <1>m, PayloadStep
  <2> QED
    BY <2>1, <2>2, <1>2 DEF parse_first_part, r, s
<1> QED
  BY <1>1, <1>2, <1>5, IInvParts

\* parse_payload_part keeps the invariant.
LEMMA PayloadPartStep ==
  ASSUME IInv, NEW n \in 1..(MaxPart + 1), NEW last, PayloadPart(n, last)
  PROVE  IInv'
<1> DEFINE m == sent + n
<1>0. thrown = "none" /\ cur # NoTxn /\ n \in Nat /\ n <= MaxPart
  BY SizeAssumption DEF IInv, PayloadPart, LaterPart, GoodLength
<1>1. /\ cur \in Txns /\ sent \in Nat /\ m \in Nat /\ sent <= m /\ has_partial_payload
      /\ m <= Size[cur] + MaxPart /\ End[cur][5] \in Nat
  <2>1. cur \in Txns /\ sent \in Nat /\ sent <= Size[cur] /\ has_partial_payload
    BY <1>0 DEF IInv, TypeOK, PayloadPart
  <2>2. Size[cur] \in Nat /\ End[cur][5] \in Nat /\ MaxPart \in Nat
    BY <2>1, Offsets, SizeAssumption
  <2> QED
    BY <2>1, <2>2, <1>0
<1>b. Brought(cur, m, End[cur][5])
  BY <1>0 DEF PayloadPart, Noted, Brought
<1>2. InPayload
  BY <1>0, <1>1 DEF IInv, InTail, Whole
<1>3. /\ AcceptedUpto(cur, 6)
      /\ PayloadAt[cur] <= sent /\ sent <= End[cur][5]
      /\ payload_len = End[cur][5] - PayloadAt[cur]
      /\ payload_part_offset + payload_part_len = sent - PayloadAt[cur]
      /\ last_part = <<>> /\ last_part_pos = 0
      /\ hash = Digest(cur, 5) \o Span(cur, PayloadAt[cur], sent)
      /\ hash2 = Span(cur, PayloadAt[cur], sent)
  BY <1>1, <1>2 DEF InPayload
<1> HIDE DEF m
<1>4. parse_payload_body(Span(cur, sent, m), hash, Span(cur, PayloadAt[cur], sent),
                    sent - PayloadAt[cur], End[cur][5] - PayloadAt[cur],
                    <<>>, 0, last)
  BY <1>3 DEF PayloadPart, m
<1>5. TailType' /\ PayloadType' /\ Core'
  BY <1>1, <1>3, <1>4, <1>b, PayloadStep
<1> QED
  BY <1>1, <1>5, <1>b, IInvParts

\* parse_last_part, with what was kept of the part before, keeps the invariant while
\* no part was refused for what it says.
LEMMA LastPartActionStep ==
  ASSUME IInv, thrown = "none", NEW n \in 1..(MaxPart + 1), NEW last, LastPart(n, last)
  PROVE  IInv'
<1> DEFINE m == sent + n
           p == last_part_pos
<1>0. cur # NoTxn /\ n \in Nat /\ n <= MaxPart /\ ~txn_is_complete /\ ~has_partial_payload
  BY SizeAssumption DEF IInv, LastPart, LaterPart, GoodLength
<1>1. /\ cur \in Txns /\ sent \in Nat /\ m \in Nat /\ sent <= m /\ m <= Size[cur] + MaxPart
  <2>1. cur \in Txns /\ sent \in Nat /\ sent <= Size[cur]
    BY <1>0 DEF IInv, TypeOK
  <2>2. Size[cur] \in Nat /\ MaxPart \in Nat
    BY <2>1, Offsets, SizeAssumption
  <2> QED
    BY <2>1, <2>2, <1>0
<1>b. Brought(cur, m, sent)
  BY DEF LastPart, Noted, Brought
<1>2. InTail
  BY <1>0 DEF IInv, InPayload, Whole
<1>3. /\ TailAt(cur, ResumeAt(p), sent, last_part, hash)
      /\ p = 0 => sent = End[cur][5]
      /\ hash2 = Payload(cur)
  BY <1>2 DEF InTail, TailAt
<1>7. last_part \in Seq(Wire) /\ Len(last_part) <= LastPartSize /\ PayloadType
      /\ p \in {0} \cup 6..9
  BY DEF IInv, TypeOK, LastPartFits, Wire, PayloadType
<1>9. ~has_partial_payload' /\ hash2' = Payload(cur) /\ PayloadType'
  BY <1>0, <1>3, <1>7 DEF LastPart, payloadVars, PayloadType
<1>10. parse_last_part(Span(cur, sent, m), hash, last_part, p, last)
  BY DEF LastPart
<1> HIDE DEF m, p
<1>11. TailType' /\ Core'
  BY <1>1, <1>3, <1>7, <1>9, <1>10, <1>b, LastPartStep
<1> QED
  BY <1>1, <1>9, <1>11, <1>b, IInvParts

\* Reading one field of whatever bytes: what remains is not more than there was.
LEMMA ReadFieldType ==
  ASSUME NEW k \in 6..9, NEW s \in ReaderState, s.why # "run" => s.pos \in 6..9,
         NEW r, r = ReadField(k, s)
  PROVE  /\ r \in ReaderState
         /\ r.why # "run" => r.pos \in 6..9
         /\ Len(r.buf) <= Len(s.buf)
<1>1. s.buf \in Seq(Wire) /\ s.hash \in Seq(Byte) /\ Len(s.buf) \in Nat /\ k \in 0..9
  BY DEF ReaderState
<1>2. CASE s.why # "run"
  <2>1. r = s
    BY <1>2 DEF ReadField
  <2> QED
    BY <2>1, <1>1, <1>2
<1>3. CASE s.why = "run" /\ (Incomplete(k, s.buf) \/ Invalid(k, s.buf))
  <2>1. PICK w \in {"incomplete", "invalid"} : r = [s EXCEPT !.why = w, !.pos = k]
    BY <1>3 DEF ReadField
  <2>2. w \in Why /\ k \in 1..9
    BY DEF Why
  <2>3. r \in ReaderState
    BY <2>1, <2>2, ReaderStopped
  <2>4. r.pos = k /\ r.buf = s.buf
    BY <2>1 DEF ReaderState
  <2> QED
    BY <2>3, <2>4, <1>1
<1>4. CASE s.why = "run" /\ ~Incomplete(k, s.buf) /\ ~Invalid(k, s.buf)
  <2> DEFINE z == FieldSize(k, s.buf)
  <2>1. r = [s EXCEPT !.buf = Drop(s.buf, z), !.hash = s.hash \o FieldHash(k, s.buf)]
    BY <1>4 DEF ReadField
  <2>2. z \in 0..Len(s.buf)
    BY <1>4 DEF Incomplete
  <2>f. FieldHash(k, s.buf) = IF z = 0 THEN Default(k) ELSE SubSeq(s.buf, 1, z)
    BY DEF FieldHash
  <2> HIDE DEF z
  <2>3. /\ Drop(s.buf, z) \in Seq(Wire) /\ Len(Drop(s.buf, z)) <= Len(s.buf)
    <3>1. /\ z + 1 \in 1..(Len(s.buf) + 1) /\ Len(s.buf) - (z + 1) + 1 <= Len(s.buf)
      BY <2>2, <1>1
    <3> QED
      BY <3>1, <2>2, <1>1 DEF Drop
  <2>4. SubSeq(s.buf, 1, z) \in Seq(Wire)
    BY <2>2, <1>1
  <2>5. Default(k) \in Seq(Byte)
    <3>1. <<NoTxn, k>> \in Byte
      BY DEF Byte
    <3> QED
      BY <3>1 DEF Default
  <2>6. FieldHash(k, s.buf) \in Seq(Byte)
    BY <2>4, <2>5, <2>f, WireIsByte
  <2>7. s.hash \o FieldHash(k, s.buf) \in Seq(Byte)
    BY <2>6, <1>1, ConcatProperties
  <2>8. r \in ReaderState /\ r.why = s.why /\ r.buf = Drop(s.buf, z)
    BY <2>1, <2>3, <2>7 DEF ReaderState
  <2> QED
    BY <2>3, <2>8, <1>4
<1> QED
  BY <1>2, <1>3, <1>4

\* The fields after the payload, read from whatever bytes.
LEMMA ReadTailType ==
  ASSUME NEW p, NEW u \in Seq(Wire), NEW h \in Seq(Byte),
         NEW s, s = ReadTail(p, u, h)
  PROVE  /\ s \in ReaderState
         /\ s.why # "run" => s.pos \in 6..9
         /\ Len(s.buf) <= Len(u)
<1> DEFINE Good(r) == /\ r \in ReaderState
                      /\ r.why # "run" => r.pos \in 6..9
                      /\ Len(r.buf) <= Len(u)
           s6 == Start(u, h)
           s7 == ReadFrom(p, 6, s6)
           s8 == ReadFrom(p, 7, s7)
           s9 == ReadFrom(p, 8, s8)
           sa == ReadFrom(p, 9, s9)
<1>1. Good(s6)
  BY DEF Start, ReaderState, Why
<1>2. ASSUME NEW k \in 6..9, NEW r, Good(r)
      PROVE  Good(ReadFrom(p, k, r))
  <2>1. CASE k < p
    BY <2>1, <1>2 DEF ReadFrom
  <2>2. CASE ~(k < p)
    <3> DEFINE q == ReadField(k, r)
    <3>1. q \in ReaderState /\ (q.why # "run" => q.pos \in 6..9) /\ Len(q.buf) <= Len(r.buf)
      BY <1>2, ReadFieldType
    <3> HIDE DEF q
    <3>2. Len(q.buf) \in Nat /\ Len(r.buf) \in Nat /\ Len(u) \in Nat /\ Len(r.buf) <= Len(u)
      BY <3>1, <1>2 DEF ReaderState
    <3>3. Good(q)
      BY <3>1, <3>2
    <3> QED
      BY <3>3, <2>2 DEF ReadFrom, q
  <2> QED
    BY <2>1, <2>2
<1>3. 6 \in 6..9 /\ 7 \in 6..9 /\ 8 \in 6..9 /\ 9 \in 6..9
  OBVIOUS
<1> HIDE DEF Good, s6, s7, s8, s9, sa
<1>4. Good(s7)
  BY <1>1, <1>2, <1>3 DEF s7
<1>5. Good(s8)
  BY <1>4, <1>2, <1>3 DEF s8
<1>6. Good(s9)
  BY <1>5, <1>2, <1>3 DEF s9
<1>7. Good(sa)
  BY <1>6, <1>2, <1>3 DEF sa
<1>8. s = sa
  BY DEF ReadTail, s6, s7, s8, s9, sa
<1> QED
  BY <1>7, <1>8 DEF Good

\* What is left of the invariant once a part was refused for what it says: the
\* parts after it are read from the wrong place, but within the buffer.
LEMMA RefusedStep ==
  ASSUME IInv, thrown # "none", NEW n \in 1..(MaxPart + 1), NEW last, LastPart(n, last)
  PROVE  IInv'
<1> DEFINE part == Span(cur, sent, sent + n)
           p == ResumeAt(last_part_pos)
           u == Unread(part, last_part, last_part_pos)
           s == ReadTail(p, u, hash)
<1>0. cur # NoTxn /\ cur \in Txns /\ sent \in Nat /\ n \in Nat /\ ~has_partial_payload
  BY SizeAssumption DEF IInv, TypeOK, LastPart
<1>1. /\ cur' = cur /\ thrown' = thrown /\ upto' = upto /\ UNCHANGED payloadVars
      /\ sent' \in {sent, sent + n} /\ sent' <= Size[cur]
  BY DEF LastPart, Noted, TakenIn
<1>2. part \in Seq(Wire) /\ Len(part) = n
  <2>1. sent + n \in Nat /\ sent <= sent + n /\ (sent + n) - sent = n
    BY <1>0
  <2> QED
    BY <2>1, <1>0, SpanSeq
<1>3. /\ last_part \in Seq(Wire) /\ hash \in Seq(Byte) /\ last_part_pos \in {0} \cup 6..9
      /\ Len(last_part) \in Nat /\ Len(last_part) <= LastPartSize /\ LastPartSize \in Nat
  BY SizeAssumption DEF IInv, TypeOK, LastPartFits, Wire, Byte
<1>4. u \in Seq(Wire) /\ Len(u) <= Len(last_part) + Len(part)
  BY <1>0, <1>2, <1>3, ConcatProperties DEF Unread
<1>5. /\ s \in ReaderState
      /\ s.why # "run" => s.pos \in 6..9
      /\ Len(s.buf) <= Len(u)
  BY <1>3, <1>4, ReadTailType
<1>6. p \in 6..9
  BY <1>3 DEF ResumeAt
<1>7. parse_last_part(part, hash, last_part, last_part_pos, last)
  BY DEF LastPart
<1>e. <<>> \in Seq(Byte)
  OBVIOUS
<1> HIDE DEF part, p, u, s
<1>8. s.buf \in Seq(Wire) /\ s.hash \in Seq(Byte) /\ Len(s.buf) \in Nat /\ Len(u) \in Nat
  BY <1>4, <1>5 DEF ReaderState
<1>9. ~Overflows(part, last_part) => Len(s.buf) <= LastPartSize
  BY <1>2, <1>3, <1>4, <1>5, <1>8, <1>0 DEF Overflows
<1>10. TailType' /\ LastPartFits'
  <2>1. CASE /\ Overflows(part, last_part)
             /\ sw' = "OVERLONG"
             /\ last_part' = last_part /\ last_part_pos' = last_part_pos
             /\ hash' = hash
             /\ txn_is_complete' = FALSE /\ txn_hash' = <<>>
    BY <2>1, <1>3, <1>e DEF TailType, LastPartFits, Replies
  <2>2. CASE /\ ~Overflows(part, last_part) /\ s.why = "invalid"
             /\ sw' = "INVALID_DATA"
             /\ last_part' = last_part /\ last_part_pos' = p
             /\ hash' = s.hash
             /\ txn_is_complete' = FALSE /\ txn_hash' = <<>>
    BY <2>2, <1>3, <1>6, <1>8, <1>e DEF TailType, LastPartFits, Replies
  <2>3. CASE /\ ~Overflows(part, last_part) /\ s.why = "incomplete"
             /\ CheckLast(last)
             /\ last_part' = s.buf /\ last_part_pos' = s.pos
             /\ hash' = s.hash
             /\ txn_is_complete' = FALSE /\ txn_hash' = <<>>
    BY <2>3, <1>5, <1>8, <1>9, <1>e DEF TailType, LastPartFits, Replies, CheckLast
  <2>4. CASE /\ ~Overflows(part, last_part) /\ s.why = "run"
             /\ sw' = "OK"
             /\ last_part' = last_part /\ last_part_pos' = p
             /\ hash' = s.hash
             /\ txn_is_complete' = TRUE /\ txn_hash' = s.hash
    BY <2>4, <1>3, <1>6, <1>8 DEF TailType, LastPartFits, Replies
  <2> QED
    BY <1>7, <2>1, <2>2, <2>3, <2>4 DEF parse_last_part, p, u, s
<1>11. TypeOK'
  <2>1. PayloadType'
    BY <1>1 DEF IInv, TypeOK, payloadVars, PayloadType, Wire
  <2>2. sent' \in Nat /\ cur' \in Txns
    BY <1>0, <1>1
  <2>3. upto' \in Nat /\ thrown' \in {"none", "LACKS_FIELD", "INVALID_DATA"}
    BY <1>1 DEF IInv, TypeOK
  <2> QED
    BY <2>1, <2>2, <2>3, <1>10 DEF TypeOK, TailType, PayloadType, Wire, Byte, Replies
<1>12. NoFalseRefusal'
  <2>1. NoFalseRefusal
    BY DEF IInv
  <2>2. HeadFits(cur, upto)' = HeadFits(cur, upto)
    BY <1>1 DEF HeadFits, Present
  <2> QED
    BY <2>1, <2>2, <1>0, <1>1 DEF NoFalseRefusal
<1> QED
  BY <1>0, <1>1, <1>10, <1>11, <1>12 DEF IInv, payloadVars

----------------------------------------------------------------------------
(* The theorems.                                                           *)

\* The device starts with nothing parsed, which satisfies the invariant.
LEMMA InitIInv == Init => IInv
<1>1. <<>> \in Seq(Wire) /\ <<>> \in Seq(Byte)
  OBVIOUS
<1>2. Init => TypeOK
  <2> SUFFICES ASSUME Init PROVE TypeOK
    OBVIOUS
  <2>1. last_part \in Seq(Wire) /\ hash \in Seq(Byte) /\ hash2 \in Seq(Wire) /\ txn_hash \in Seq(Byte)
    BY <1>1 DEF Init
  <2>2. cur \in Txns \cup {NoTxn} /\ last_part_pos \in {0} \cup 6..9
    BY DEF Init
  <2> QED
    BY <2>1, <2>2 DEF Init, TypeOK, Wire, Byte
<1>3. Init => LastPartFits
  BY SizeAssumption DEF Init, LastPartFits
<1> QED
  BY <1>2, <1>3 DEF Init, IInv, NoFalseRefusal

\* Every part, whichever function it is given to, keeps the invariant.
LEMMA NextIInv == IInv /\ [Next]_vars => IInv'
<1> SUFFICES ASSUME IInv, [Next]_vars PROVE IInv'
  OBVIOUS
<1>1. ASSUME NEW t \in Txns, NEW n \in 1..(MaxPart + 1), NEW last \in BOOLEAN,
             FirstPart(t, n, last)
      PROVE  IInv'
  BY <1>1, FirstPartStep
<1>2. ASSUME NEW n \in 1..(MaxPart + 1), NEW last \in BOOLEAN, PayloadPart(n, last)
      PROVE  IInv'
  BY <1>2, PayloadPartStep
<1>3. ASSUME NEW n \in 1..(MaxPart + 1), NEW last \in BOOLEAN, LastPart(n, last)
      PROVE  IInv'
  BY <1>3, LastPartActionStep, RefusedStep
<1>4. ASSUME UNCHANGED <<hostVars, parserVars>>,
             sw' \in {"WRONG_LENGTH", "INVALID_STATE"} \/ sw' = sw
      PROVE  IInv'
  <2>1. /\ cur' = cur /\ sent' = sent /\ thrown' = thrown /\ upto' = upto
        /\ txn_is_complete' = txn_is_complete /\ has_partial_payload' = has_partial_payload
        /\ payload_len' = payload_len /\ payload_part_offset' = payload_part_offset
        /\ payload_part_len' = payload_part_len /\ hash2' = hash2
        /\ last_part' = last_part /\ last_part_pos' = last_part_pos
        /\ hash' = hash /\ txn_hash' = txn_hash
    BY <1>4 DEF hostVars, parserVars, payloadVars
  <2>2. TypeOK' /\ LastPartFits'
    BY <2>1, <1>4 DEF IInv, TypeOK, LastPartFits
  <2>3. /\ InPayload' = InPayload /\ InTail' = InTail /\ Whole' = Whole /\ Absorbed' = Absorbed
    BY <2>1 DEF InPayload, InTail, Whole, Absorbed
  <2>4. NoFalseRefusal'
    BY <2>1, <1>4 DEF IInv, NoFalseRefusal
  <2> QED
    BY <2>1, <2>2, <2>3, <2>4 DEF IInv
<1>5. ASSUME NEW n \in 1..(MaxPart + 1), NEW last \in BOOLEAN,
             RefuseFirst(n, last) \/ RefuseLater(n, last)
      PROVE  IInv'
  BY <1>4, <1>5 DEF RefuseFirst, RefuseLater
<1>6. CASE UNCHANGED vars
  BY <1>4, <1>6 DEF vars
<1> QED
  BY <1>1, <1>2, <1>3, <1>5, <1>6 DEF Next

\* The invariant holds throughout.
LEMMA Inductive == Spec => []IInv
BY InitIInv, NextIInv, PTL DEF Spec

\* The parser's variables keep their types, whatever the parts are.
THEOREM TypeCorrect == Spec => []TypeOK
<1>1. IInv => TypeOK
  BY DEF IInv
<1> QED
  BY <1>1, Inductive, PTL

\* However a transaction is cut, and whatever parts are refused for their length or
\* their mark, the hash offered for signing is the hash of its fields, each absorbed
\* once and in order, unless a part was refused for what it says.
THEOREM DigestCorrect == Spec => []DigestIsCanonical
<1>1. IInv => DigestIsCanonical
  BY DEF IInv, DigestIsCanonical, InPayload, InTail, Whole
<1> QED
  BY <1>1, Inductive, PTL

\* A transaction that is cut short, lacks a field or has a bad one is not complete
\* before one of its parts was refused.
THEOREM InvalidIsRefusedTheorem == Spec => []InvalidIsRefused
<1>1. IInv => InvalidIsRefused
  <2> SUFFICES ASSUME IInv, txn_is_complete, cur # NoTxn, thrown = "none" PROVE
                 /\ Bad[cur] = {}
                 /\ \A k \in Required : Present(cur, k)
                 /\ sent >= End[cur][9]
    BY DEF InvalidIsRefused
  <2>1. Whole /\ cur \in Txns /\ sent \in Nat
    BY DEF IInv, TypeOK, InPayload, InTail
  <2>2. \A k \in Field : Accepted(cur, k)
    BY <2>1 DEF Whole, AcceptedUpto, Field
  <2>3. Bad[cur] \subseteq Field
    BY <2>1, TxnAssumption
  <2>4. Required \subseteq Field
    BY DEF Required, Field
  <2>5. End[cur][9] <= sent /\ End[cur][9] \in Nat
    BY <2>1, Offsets DEF Whole
  <2> QED
    BY <2>1, <2>2, <2>3, <2>4, <2>5 DEF Accepted
<1> QED
  BY <1>1, Inductive, PTL

\* A good transaction is refused for what it says only when its first part does not
\* reach the payload.
THEOREM NoFalseRefusalTheorem == Spec => []NoFalseRefusal
<1>1. IInv => NoFalseRefusal
  BY DEF IInv
<1> QED
  BY <1>1, Inductive, PTL

\* A good transaction is complete exactly when all its bytes have arrived.
THEOREM CompleteTheorem == Spec => []CompleteWhenWhole
<1>1. IInv => CompleteWhenWhole
  <2> SUFFICES ASSUME IInv, cur # NoTxn, WellFormed(cur), thrown = "none"
               PROVE  txn_is_complete <=> sent = Size[cur]
    BY DEF CompleteWhenWhole
  <2>1. /\ cur \in Txns /\ sent \in Nat /\ sent <= Size[cur]
        /\ last_part_pos \in {0} \cup 6..9
        /\ InPayload \/ InTail \/ Whole
    BY DEF IInv, TypeOK
  <2>2. Size[cur] = End[cur][9] /\ Size[cur] \in Nat /\ End[cur][5] <= End[cur][9]
        /\ End[cur][5] \in Nat
    BY <2>1, Offsets DEF WellFormed
  <2>3. CASE InPayload
    <3>1. ~txn_is_complete /\ sent < End[cur][5]
      BY <2>3 DEF InPayload
    <3> QED
      BY <3>1, <2>1, <2>2
  <2>4. CASE InTail
    <3>1. ~txn_is_complete /\ Stuck(cur, ResumeAt(last_part_pos), sent)
      BY <2>4 DEF InTail
    <3>2. ResumeAt(last_part_pos) \in 1..9
      BY <2>1 DEF ResumeAt
    <3>3. sent # Size[cur]
      BY <3>1, <3>2, <2>1, NotStuckAtEnd
    <3> QED
      BY <3>1, <3>3
  <2>5. CASE Whole
    BY <2>5, <2>1, <2>2 DEF Whole
  <2> QED
    BY <2>1, <2>3, <2>4, <2>5
<1> QED
  BY <1>1, Inductive, PTL

\* What is kept for the next part never exceeds last_part, also after refusals.
THEOREM LastPartTheorem == Spec => []LastPartFits
<1>1. IInv => LastPartFits
  BY DEF IInv
<1> QED
  BY <1>1, Inductive, PTL

\* The parser is an implementation of TxnDigest: every part absorbs a beginning of its
\* transaction's canonical bytes or gives the transaction up, and until then a hash is
\* only offered of all of them.
THEOREM ImplementsDigestTheorem == Spec => ImplementsDigest
<1>1. Init => Abstract!DigestInit
  BY DEF Init, Abstract!DigestInit
<1>2. ASSUME IInv, IInv', [Next]_vars
      PROVE  [Abstract!DigestNext]_(Abstract!digestVars)
  <2>1. CASE thrown' # "none"
    BY <2>1 DEF Abstract!GiveUp, Abstract!DigestNext
  <2>2. CASE thrown' = "none" /\ cur' = NoTxn
    <3>1. NoTxn \notin Txns
      BY TxnAssumption
    <3>2. cur = NoTxn
      <4>1. ASSUME NEW t \in Txns, NEW n, NEW last, FirstPart(t, n, last) PROVE FALSE
        BY <4>1, <3>1, <2>2 DEF FirstPart
      <4> QED
        BY <4>1, <1>2, <2>2 DEF Next, vars, hostVars, RefuseFirst, RefuseLater,
           PayloadPart, LastPart, Noted
    <3>3. txn_is_complete /\ thrown = "none"
      BY <3>2, <1>2 DEF IInv
    <3>4. UNCHANGED <<cur, thrown, hash, txn_hash>>
      <4>1. ASSUME NEW t \in Txns, NEW n, NEW last, FirstPart(t, n, last) PROVE FALSE
        BY <4>1, <3>1, <2>2 DEF FirstPart
      <4> QED
        BY <4>1, <1>2, <3>3 DEF Next, vars, hostVars, parserVars, RefuseFirst, RefuseLater,
           PayloadPart, LastPart, LaterPart
    <3> QED
      BY <3>4 DEF Abstract!digestVars
  <2>3. CASE thrown' = "none" /\ cur' # NoTxn
    <3>1. cur' \in Txns /\ hash' \in Seq(Byte) /\ Absorbed'
      BY <1>2, <2>3 DEF IInv, TypeOK, Byte
    <3>2. [t \in Txns |-> Canon(t)][cur'] = Canon(cur')
      BY <3>1
    <3>3. Canon(cur)' = Canon(cur')
      BY DEF Canon, Digest, Upto, Chunk, Span, Default, Present
    <3>4. Begins(hash', Canon(cur')) /\ (txn_hash' # <<>> => txn_hash' = hash' /\ hash' = Canon(cur'))
      BY <3>1, <3>3 DEF Absorbed, Begins
    <3>5. SubSeq(hash', 1, Len(hash')) = hash'
      BY <3>1
    <3>6. Abstract!IsPrefix(hash', Canon(cur'))
      BY <3>4, <3>5 DEF Begins, Abstract!IsPrefix
    <3> QED
      BY <3>1, <3>2, <3>4, <3>6, <2>3 DEF Abstract!Absorb, Abstract!DigestNext
  <2> QED
    BY <2>1, <2>2, <2>3
<1> QED
  BY <1>1, <1>2, Inductive, PTL DEF Spec, ImplementsDigest, Abstract!DigestSpec

============================================================================
