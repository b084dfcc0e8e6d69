-------------------------- MODULE DisplayFields_proofs --------------------------
(***************************************************************************)
(* A user who has gone through a review has read the amount and the        *)
(* address, whatever the transaction, its cuts and the width of the        *)
(* display.  What display_transaction writes on the screens says the       *)
(* fields (TransactionWritten); while the pages go by, what has been read  *)
(* of the screens is on the pages or about to be (ReadInv).                *)
(* And the pages of a text are those of the whole of it, however it was    *)
(* cut (TextInv, TextIsWhole).                                             *)
(***************************************************************************)
EXTENDS Display_proofs, Lemmas_proofs

\* Pages, or lines, that under the titles T have characters that are displayed
\* as they are.
Typed(T, ps) == IsSeq(ps) /\ \A i \in 1..Len(ps) : ps[i][1] \in T => ps[i][2] \in Seq(Printable)

\* What a page says under these titles.
Said(T, p) == IF p[1] \in T THEN p[2] ELSE <<>>

----------------------------------------------------------------------------
\* What the pages under some titles say.

LEMMA SaidType ==
  ASSUME NEW T, NEW p, p[1] \in T => p[2] \in Seq(Printable)
  PROVE  Said(T, p) \in Seq(Printable)
  <1>1. <<>> \in Seq(Printable)
    OBVIOUS
  <1>2. QED BY <1>1 DEF Said

LEMMA UnderSaid ==
  ASSUME NEW T, NEW ps, Typed(T, ps)
  PROVE  LET cs == [i \in 1..Len(ps) |-> Said(T, ps[i])]
         IN  /\ Under(T, ps) = FlattenSeq(cs)
             /\ cs \in Seq(Seq(Printable)) /\ Len(cs) = Len(ps)
  <1> DEFINE cs == [i \in 1..Len(ps) |-> Said(T, ps[i])]
  <1>1. Len(ps) \in Nat
    BY LenIsNat DEF Typed
  <1>2. ASSUME NEW i \in 1..Len(ps) PROVE Said(T, ps[i]) \in Seq(Printable)
    BY <1>2, SaidType DEF Typed
  <1>3. Under(T, ps) = FlattenSeq(cs)
    BY DEF Under, Said
  <1>4. cs \in Seq(Seq(Printable)) /\ Len(cs) = Len(ps)
    BY <1>1, <1>2
  <1>5. QED BY <1>3, <1>4

LEMMA UnderEmpty == \A T : Under(T, <<>>) = <<>> /\ Typed(T, <<>>)
  <1> SUFFICES ASSUME NEW T PROVE Under(T, <<>>) = <<>> /\ Typed(T, <<>>)
    OBVIOUS
  <1>1. Typed(T, <<>>)
    BY TuplesAreSeqs DEF Typed
  <1> DEFINE cs == [i \in 1..Len(<<>>) |-> Said(T, <<>>[i])]
  <1>2. Under(T, <<>>) = FlattenSeq(cs) /\ cs \in Seq(Seq(Printable)) /\ Len(cs) = Len(<<>>)
    BY <1>1, UnderSaid
  <1> HIDE DEF cs
  <1>3. cs = <<>>
    BY <1>2, TuplesAreSeqs
  <1>4. QED BY <1>1, <1>2, <1>3, FlattenEmpty

LEMMA UnderType ==
  ASSUME NEW T, NEW ps, Typed(T, ps)
  PROVE  Under(T, ps) \in Seq(Printable)
  <1> DEFINE cs == [i \in 1..Len(ps) |-> Said(T, ps[i])]
  <1>1. Under(T, ps) = FlattenSeq(cs) /\ cs \in Seq(Seq(Printable))
    BY UnderSaid
  <1> HIDE DEF cs
  <1>2. QED BY <1>1, FlattenType

\* A page more says what it says.
LEMMA UnderAppend ==
  ASSUME NEW T, NEW ps, Typed(T, ps), NEW p, p[1] \in T => p[2] \in Seq(Printable)
  PROVE  /\ Typed(T, Append(ps, p))
         /\ Under(T, Append(ps, p)) = Under(T, ps) \o Said(T, p)
  <1>1. PICK S : ps \in Seq(S)
    BY DEF Typed, IsSeq
  <1>2. ps \in Seq(S \cup {p}) /\ p \in S \cup {p}
    BY <1>1
  <1> DEFINE n == Len(ps)
             qs == Append(ps, p)
  <1>3. /\ n \in Nat /\ qs \in Seq(S \cup {p}) /\ Len(qs) = n + 1
        /\ qs[n + 1] = p /\ \A i \in 1..n : qs[i] = ps[i]
    BY <1>2
  <1>4. Typed(T, qs)
    <2>1. ASSUME NEW i \in 1..(n + 1), qs[i][1] \in T PROVE qs[i][2] \in Seq(Printable)
      <3>1. CASE i = n + 1
        BY <1>3, <2>1, <3>1
      <3>2. CASE i \in 1..n
        BY <1>3, <2>1, <3>2 DEF Typed
      <3>3. QED BY <1>3, <3>1, <3>2
    <2>2. QED BY <1>3, <2>1 DEF Typed, IsSeq
  <1> DEFINE cs == [i \in 1..n |-> Said(T, ps[i])]
             ds == [i \in 1..(n + 1) |-> Said(T, qs[i])]
  <1>5. Under(T, ps) = FlattenSeq(cs) /\ cs \in Seq(Seq(Printable)) /\ Len(cs) = n
    BY UnderSaid
  <1>6. Under(T, qs) = FlattenSeq(ds) /\ ds \in Seq(Seq(Printable)) /\ Len(ds) = n + 1
    <2> DEFINE us == [i \in 1..Len(qs) |-> Said(T, qs[i])]
    <2>1. us = ds
      BY <1>3
    <2>2. Under(T, qs) = FlattenSeq(us) /\ us \in Seq(Seq(Printable)) /\ Len(us) = Len(qs)
      BY <1>4, UnderSaid
    <2> HIDE DEF us, ds, qs
    <2>3. QED BY <1>3, <2>1, <2>2
  <1>7. Said(T, p) \in Seq(Printable)
    BY SaidType
  <1>8. (\A i \in 1..n : ds[i] = cs[i]) /\ ds[n + 1] = Said(T, p)
    BY <1>3
  <1> HIDE DEF cs, ds, n, qs
  <1>9. ds = Append(cs, Said(T, p))
    BY <1>3, <1>5, <1>6, <1>7, <1>8
  <1>10. FlattenSeq(Append(cs, Said(T, p))) = FlattenSeq(cs) \o Said(T, p)
    BY <1>5, <1>7, FlattenAppend
  <1>11. Under(T, qs) = Under(T, ps) \o Said(T, p)
    BY <1>5, <1>6, <1>9, <1>10
  <1>12. QED BY <1>4, <1>11 DEF qs

\* The first of the pages.
LEMMA UnderFirst ==
  ASSUME NEW T, NEW ps, Typed(T, ps), NEW k \in Nat, k <= Len(ps)
  PROVE  /\ Typed(T, SubSeq(ps, 1, k)) /\ Len(SubSeq(ps, 1, k)) = k
         /\ k < Len(ps) => SubSeq(ps, 1, k + 1) = Append(SubSeq(ps, 1, k), ps[k + 1])
         /\ SubSeq(ps, 1, 0) = <<>> /\ SubSeq(ps, 1, Len(ps)) = ps
  <1>1. PICK S : ps \in Seq(S)
    BY DEF Typed, IsSeq
  <1>2. /\ SubSeq(ps, 1, k) \in Seq(S) /\ Len(SubSeq(ps, 1, k)) = k
        /\ \A i \in 1..k : SubSeq(ps, 1, k)[i] = ps[i]
    BY <1>1
  <1>3. \A i \in 1..k : i \in 1..Len(ps)
    BY <1>1
  <1>4. Typed(T, SubSeq(ps, 1, k))
    BY <1>2, <1>3 DEF Typed, IsSeq
  <1>5. k < Len(ps) => SubSeq(ps, 1, k + 1) = Append(SubSeq(ps, 1, k), ps[k + 1])
    BY <1>1
  <1>6. SubSeq(ps, 1, 0) = <<>> /\ SubSeq(ps, 1, Len(ps)) = ps
    BY <1>1
  <1>7. QED BY <1>2, <1>4, <1>5, <1>6

\* Pages under other titles say nothing.
LEMMA UnderTail ==
  ASSUME NEW T, NEW ps, Typed(T, ps), NEW k \in Nat, k <= Len(ps),
         \A i \in (k + 1)..Len(ps) : ps[i][1] \notin T
  PROVE  Under(T, ps) = Under(T, SubSeq(ps, 1, k))
  <1> DEFINE n == Len(ps)
             S == {j \in Nat : k + j <= n => Under(T, SubSeq(ps, 1, k + j)) = Under(T, SubSeq(ps, 1, k))}
  <1>1. 0 \in S
    OBVIOUS
  <1>2. ASSUME NEW j \in Nat, j \in S PROVE j + 1 \in S
    <2>1. SUFFICES ASSUME k + (j + 1) <= n
                   PROVE  Under(T, SubSeq(ps, 1, k + (j + 1))) = Under(T, SubSeq(ps, 1, k))
      OBVIOUS
    <2>2. PICK m \in Nat : m = k + j
      OBVIOUS
    <2>3. n \in Nat
      BY LenIsNat DEF Typed
    <2>4. m < n /\ m <= n /\ k + (j + 1) = m + 1 /\ m + 1 \in (k + 1)..n
      BY <2>1, <2>2, <2>3
    <2> DEFINE qs == SubSeq(ps, 1, m)
               p == ps[m + 1]
    <2>5. Typed(T, qs) /\ SubSeq(ps, 1, m + 1) = Append(qs, p)
      BY <2>4, UnderFirst
    <2>6. p[1] \notin T
      BY <2>4
    <2>7. Under(T, qs) = Under(T, SubSeq(ps, 1, k))
      BY <1>2, <2>2, <2>4
    <2> HIDE DEF qs, p
    <2>8. Under(T, Append(qs, p)) = Under(T, qs) \o <<>>
      BY <2>5, <2>6, UnderAppend DEF Said
    <2>9. Under(T, qs) \o <<>> = Under(T, qs)
      BY <2>5, UnderType
    <2>10. QED BY <2>4, <2>5, <2>7, <2>8, <2>9
  <1> HIDE DEF S
  <1>3. Nat \subseteq S
    BY <1>1, <1>2, SetInduction
  <1>4. n \in Nat
    BY LenIsNat DEF Typed
  <1>5. n - k \in Nat /\ k + (n - k) = n
    BY <1>4
  <1>6. Under(T, SubSeq(ps, 1, k + (n - k))) = Under(T, SubSeq(ps, 1, k))
    <2>1. n - k \in S
      BY <1>3, <1>5
    <2>2. n <= n
      BY <1>4
    <2>3. QED BY <1>5, <2>1, <2>2 DEF S
  <1>7. SubSeq(ps, 1, n) = ps
    BY UnderFirst
  <1>8. QED BY <1>5, <1>6, <1>7

\* A sequence of the elements of one and then of another.
LEMMA SequencesJoined ==
  ASSUME NEW S, NEW a \in Seq(S), NEW b \in Seq(S), NEW c \in Seq(S),
         Len(c) = Len(a) + Len(b),
         \A i \in 1..Len(a) : c[i] = a[i],
         \A i \in 1..Len(b) : c[Len(a) + i] = b[i]
  PROVE  c = a \o b
  <1> DEFINE m == Len(a)
             n == Len(b)
  <1>0. m \in Nat /\ n \in Nat
    OBVIOUS
  <1>1. a \o b \in Seq(S) /\ Len(a \o b) = m + n
    OBVIOUS
  <1>2. ASSUME NEW i \in 1..(m + n) PROVE c[i] = (a \o b)[i]
    <2>1. CASE i \in 1..m
      <3>1. (a \o b)[i] = a[i]
        BY <2>1
      <3>2. QED BY <2>1, <3>1
    <2>2. CASE i > m
      <3>1. PICK j \in 1..n : i = m + j
        <4>1. i - m \in 1..n /\ i = m + (i - m)
          BY <1>2, <2>2
        <4>2. QED BY <4>1
      <3>2. (a \o b)[m + j] = b[j]
        OBVIOUS
      <3>3. QED BY <3>1, <3>2
    <2>3. i \in 1..m \/ i > m
      BY <1>2
    <2>4. QED BY <2>1, <2>2, <2>3
  <1> DEFINE d == a \o b
  <1> HIDE DEF d
  <1>3. d \in Seq(S) /\ Len(d) = m + n /\ \A i \in 1..(m + n) : c[i] = d[i]
    BY <1>1, <1>2 DEF d
  <1>4. c = d
    BY <1>3
  <1>5. QED BY <1>4 DEF d

\* A slice in two goes.
LEMMA TwoSlices ==
  ASSUME NEW S, NEW s \in Seq(S), NEW lo \in Nat, NEW hi \in Nat, lo <= hi, hi <= Len(s)
  PROVE  SubSeq(s, 1, lo) \o SubSeq(s, lo + 1, hi) = SubSeq(s, 1, hi)
  <1> DEFINE a == SubSeq(s, 1, lo)
             b == SubSeq(s, lo + 1, hi)
             c == SubSeq(s, 1, hi)
  <1>1. a \in Seq(S) /\ Len(a) = lo /\ \A i \in 1..lo : a[i] = s[i]
    OBVIOUS
  <1>2. b \in Seq(S) /\ Len(b) = hi - lo /\ \A i \in 1..(hi - lo) : b[i] = s[lo + i]
    OBVIOUS
  <1>3. c \in Seq(S) /\ Len(c) = hi /\ \A i \in 1..hi : c[i] = s[i]
    OBVIOUS
  <1> HIDE DEF a, b, c
  <1>4. Len(c) = Len(a) + Len(b)
    BY <1>1, <1>2, <1>3
  <1>5. \A i \in 1..Len(a) : c[i] = a[i]
    BY <1>1, <1>3
  <1>6. ASSUME NEW i \in 1..Len(b) PROVE c[Len(a) + i] = b[i]
    <2>1. i \in 1..(hi - lo) /\ Len(a) + i = lo + i /\ lo + i \in 1..hi
      BY <1>1, <1>2
    <2>2. b[i] = s[lo + i] /\ c[lo + i] = s[lo + i]
      BY <1>2, <1>3, <2>1
    <2>3. QED BY <2>1, <2>2, Zenon
  <1>7. c = a \o b
    BY <1>1, <1>2, <1>3, <1>4, <1>5, <1>6, SequencesJoined
  <1>8. QED BY <1>7 DEF a, b, c

\* Pages in two goes.
LEMMA UnderConcat ==
  ASSUME NEW T, NEW ps, NEW qs, Typed(T, ps), Typed(T, qs)
  PROVE  Typed(T, ps \o qs) /\ Under(T, ps \o qs) = Under(T, ps) \o Under(T, qs)
  <1> DEFINE rs == ps \o qs
             m == Len(ps)
             n == Len(qs)
  <1>1. PICK S : ps \in Seq(S)
    BY DEF Typed, IsSeq
  <1>2. PICK R : qs \in Seq(R)
    BY DEF Typed, IsSeq
  <1>3. ps \in Seq(S \cup R) /\ qs \in Seq(S \cup R)
    BY <1>1, <1>2
  <1>4. /\ rs \in Seq(S \cup R) /\ Len(rs) = m + n /\ m \in Nat /\ n \in Nat
        /\ \A i \in 1..m : rs[i] = ps[i]
        /\ \A i \in 1..n : rs[m + i] = qs[i]
    BY <1>3
  <1>5. Typed(T, rs)
    <2>1. ASSUME NEW i \in 1..(m + n), rs[i][1] \in T PROVE rs[i][2] \in Seq(Printable)
      <3>1. CASE i \in 1..m
        BY <1>4, <2>1, <3>1 DEF Typed
      <3>2. CASE i > m
        <4>1. PICK j \in 1..n : i = m + j
          <5>1. i - m \in 1..n /\ i = m + (i - m)
            BY <1>4, <2>1, <3>2
          <5>2. QED BY <5>1
        <4>2. QED BY <1>4, <2>1, <4>1 DEF Typed
      <3>3. QED BY <1>4, <3>1, <3>2
    <2>2. QED BY <1>4, <2>1 DEF Typed, IsSeq
  <1> DEFINE cs == [i \in 1..m |-> Said(T, ps[i])]
             ds == [i \in 1..n |-> Said(T, qs[i])]
             es == [i \in 1..(m + n) |-> Said(T, rs[i])]
  <1>6. Under(T, ps) = FlattenSeq(cs) /\ cs \in Seq(Seq(Printable)) /\ Len(cs) = m
    BY UnderSaid
  <1>7. Under(T, qs) = FlattenSeq(ds) /\ ds \in Seq(Seq(Printable)) /\ Len(ds) = n
    BY UnderSaid
  <1>8. Under(T, rs) = FlattenSeq(es) /\ es \in Seq(Seq(Printable)) /\ Len(es) = m + n
    <2> DEFINE us == [i \in 1..Len(rs) |-> Said(T, rs[i])]
    <2>1. us = es
      BY <1>4
    <2>2. Under(T, rs) = FlattenSeq(us) /\ us \in Seq(Seq(Printable)) /\ Len(us) = Len(rs)
      BY <1>5, UnderSaid
    <2> HIDE DEF us, es, rs
    <2>3. QED BY <1>4, <2>1, <2>2
  <1>9. (\A i \in 1..m : es[i] = cs[i]) /\ (\A i \in 1..n : es[m + i] = ds[i])
    BY <1>4
  <1> HIDE DEF cs, ds, es, m, n, rs
  <1>10. es = cs \o ds
    <2>1. m \in Nat /\ n \in Nat
      BY <1>4
    <2>2. PICK U : cs \in Seq(U) /\ ds \in Seq(U) /\ es \in Seq(U)
      BY <1>6, <1>7, <1>8
    <2>3. Len(cs) = m /\ Len(ds) = n /\ Len(es) = m + n
      BY <1>6, <1>7, <1>8
    <2>4. /\ Len(es) = Len(cs) + Len(ds)
          /\ \A i \in 1..Len(cs) : es[i] = cs[i]
          /\ \A i \in 1..Len(ds) : es[Len(cs) + i] = ds[i]
      BY <1>9, <2>3
    <2>5. QED BY <2>2, <2>4, SequencesJoined
  <1>11. FlattenSeq(cs \o ds) = FlattenSeq(cs) \o FlattenSeq(ds)
    BY <1>6, <1>7, FlattenConcat
  <1>12. Under(T, rs) = Under(T, ps) \o Under(T, qs)
    BY <1>6, <1>7, <1>8, <1>10, <1>11
  <1>13. QED BY <1>5, <1>12 DEF rs

----------------------------------------------------------------------------
\* The screens that display_transaction fills, as pages to be read.

Titles == AmountTitles \cup AddressTitles

Entry(s)    == <<s.title, s.text>>
Entries(ss) == [i \in 1..Len(ss) |-> Entry(ss[i])]

IsField(s)     == s.title \in Titles
Unformatted(s) == ~s.in_hex /\ ~s.is_call /\ ~s.is_multicall /\ ~s.trim_payload

\* A field's text that is displayed as it is.
FieldText(s) == Unformatted(s) /\ s.text \in Seq(Printable) /\ 0 < Len(s.text)

\* A screen that is one page, and is no part of the payload.
Line(s) ==
  /\ ~s.is_call /\ ~s.is_multicall
  /\ IsField(s) => FieldText(s) /\ Len(s.text) <= W

AllLines(ss) == Titled(ss) /\ \A i \in 1..Len(ss) : Line(ss[i])

\* Lines that say the amount a and the address b.
Says(ss, a, b) ==
  /\ AllLines(ss)
  /\ a \in Seq(Printable) /\ Under(AmountTitles, Entries(ss)) = a
  /\ b \in Seq(Printable) /\ Under(AddressTitles, Entries(ss)) = b

LEMMA EntriesOf ==
  ASSUME NEW ss, IsSeq(ss)
  PROVE  /\ Len(Entries(ss)) = Len(ss) /\ IsSeq(Entries(ss))
         /\ \A i \in 1..Len(ss) : Entries(ss)[i] = Entry(ss[i])
  <1>1. Len(ss) \in Nat
    BY LenIsNat
  <1>2. Entries(ss) \in Seq({Entry(ss[i]) : i \in 1..Len(ss)})
    BY <1>1 DEF Entries
  <1>3. Len(Entries(ss)) = Len(ss) /\ \A i \in 1..Len(ss) : Entries(ss)[i] = Entry(ss[i])
    BY <1>1 DEF Entries
  <1>4. QED BY <1>2, <1>3 DEF IsSeq

LEMMA LinesTyped ==
  ASSUME NEW ss, AllLines(ss), NEW T, T \subseteq Titles
  PROVE  Typed(T, Entries(ss))
  <1>1. /\ Len(Entries(ss)) = Len(ss) /\ IsSeq(Entries(ss))
        /\ \A i \in 1..Len(ss) : Entries(ss)[i] = Entry(ss[i])
    BY EntriesOf DEF AllLines, Titled
  <1>2. ASSUME NEW i \in 1..Len(ss), Entry(ss[i])[1] \in T
        PROVE  Entry(ss[i])[2] \in Seq(Printable)
    <2>1. IsField(ss[i])
      BY <1>2 DEF Entry, IsField
    <2>2. ss[i].text \in Seq(Printable)
      BY <2>1 DEF AllLines, Line, FieldText
    <2>3. QED BY <2>2 DEF Entry
  <1>3. QED BY <1>1, <1>2 DEF Typed

LEMMA TwoTitles == AmountTitles \subseteq Titles /\ AddressTitles \subseteq Titles
  BY DEF Titles

LEMMA NothingSaid == Says(<<>>, <<>>, <<>>)
  <1>1. Entries(<<>>) = <<>>
    <2>1. IsSeq(Entries(<<>>)) /\ Len(Entries(<<>>)) = 0
      BY EntriesOf, TuplesAreSeqs
    <2>2. QED BY <2>1 DEF IsSeq
  <1>2. AllLines(<<>>)
    BY NothingTitled DEF AllLines
  <1>3. <<>> \in Seq(Printable)
    OBVIOUS
  <1>4. QED BY <1>1, <1>2, <1>3, UnderEmpty DEF Says

LEMMA EntriesConcat ==
  ASSUME NEW ss, NEW tt, IsSeq(ss), IsSeq(tt)
  PROVE  Entries(ss \o tt) = Entries(ss) \o Entries(tt)
  <1>1. PICK S : ss \in Seq(S)
    BY DEF IsSeq
  <1>2. PICK R : tt \in Seq(R)
    BY DEF IsSeq
  <1>3. ss \in Seq(S \cup R) /\ tt \in Seq(S \cup R)
    BY <1>1, <1>2
  <1>4. /\ Len(ss) \in Nat /\ Len(tt) \in Nat /\ Len(ss \o tt) = Len(ss) + Len(tt)
        /\ \A i \in 1..Len(ss) : (ss \o tt)[i] = ss[i]
        /\ \A i \in 1..Len(tt) : (ss \o tt)[Len(ss) + i] = tt[i]
    BY <1>3
  <1>5. IsSeq(ss \o tt)
    BY ConcatIsSeq
  <1> DEFINE a == Entries(ss)
             b == Entries(tt)
             c == Entries(ss \o tt)
  <1>6. Len(a) = Len(ss) /\ IsSeq(a) /\ \A i \in 1..Len(ss) : a[i] = Entry(ss[i])
    BY EntriesOf
  <1>7. Len(b) = Len(tt) /\ IsSeq(b) /\ \A i \in 1..Len(tt) : b[i] = Entry(tt[i])
    BY EntriesOf
  <1>8. Len(c) = Len(ss \o tt) /\ IsSeq(c) /\ \A i \in 1..Len(ss \o tt) : c[i] = Entry((ss \o tt)[i])
    BY <1>5, EntriesOf
  <1> HIDE DEF a, b, c
  <1>9. PICK U : a \in Seq(U) /\ b \in Seq(U) /\ c \in Seq(U)
    <2>1. PICK A : a \in Seq(A)
      BY <1>6 DEF IsSeq
    <2>2. PICK B : b \in Seq(B)
      BY <1>7 DEF IsSeq
    <2>3. PICK C : c \in Seq(C)
      BY <1>8 DEF IsSeq
    <2>4. a \in Seq(A \cup B \cup C) /\ b \in Seq(A \cup B \cup C) /\ c \in Seq(A \cup B \cup C)
      BY <2>1, <2>2, <2>3
    <2>5. QED BY <2>4
  <1>10. /\ Len(c) = Len(a) + Len(b)
         /\ \A i \in 1..Len(a) : c[i] = a[i]
         /\ \A i \in 1..Len(b) : c[Len(a) + i] = b[i]
    <2>1. ASSUME NEW i \in 1..Len(ss) PROVE c[i] = a[i]
      <3>1. i \in 1..Len(ss \o tt)
        BY <1>4
      <3>2. QED BY <1>4, <1>6, <1>8, <3>1
    <2>2. ASSUME NEW i \in 1..Len(tt) PROVE c[Len(ss) + i] = b[i]
      <3>1. Len(ss) + i \in 1..Len(ss \o tt)
        BY <1>4
      <3>2. QED BY <1>4, <1>7, <1>8, <3>1
    <2>3. QED BY <1>4, <1>6, <1>7, <1>8, <2>1, <2>2
  <1>11. QED BY <1>9, <1>10, SequencesJoined DEF a, b, c

LEMMA LinesConcat ==
  ASSUME NEW ss, NEW tt, AllLines(ss), AllLines(tt)
  PROVE  AllLines(ss \o tt)
  <1>1. Titled(ss \o tt) /\ Len(ss \o tt) = Len(ss) + Len(tt)
    BY ConcatTitled DEF AllLines
  <1>2. PICK S : ss \in Seq(S)
    BY DEF AllLines, Titled, IsSeq
  <1>3. PICK R : tt \in Seq(R)
    BY DEF AllLines, Titled, IsSeq
  <1>4. ss \in Seq(S \cup R) /\ tt \in Seq(S \cup R)
    BY <1>2, <1>3
  <1>5. ASSUME NEW i \in 1..Len(ss \o tt) PROVE Line((ss \o tt)[i])
    <2>1. Len(ss) \in Nat /\ Len(tt) \in Nat /\ i \in 1..(Len(ss) + Len(tt))
      BY <1>1, <1>4
    <2>2. CASE i <= Len(ss)
      <3>1. (ss \o tt)[i] = ss[i] /\ i \in 1..Len(ss)
        BY <1>4, <2>1, <2>2
      <3>2. QED BY <3>1 DEF AllLines
    <2>3. CASE i > Len(ss)
      <3>1. (ss \o tt)[i] = tt[i - Len(ss)] /\ i - Len(ss) \in 1..Len(tt)
        BY <1>4, <2>1, <2>3
      <3>2. QED BY <3>1 DEF AllLines
    <2>4. QED BY <2>1, <2>2, <2>3
  <1>6. QED BY <1>1, <1>5 DEF AllLines

LEMMA SaysConcat ==
  ASSUME NEW ss, NEW tt, NEW a, NEW b, NEW c, NEW d, Says(ss, a, b), Says(tt, c, d)
  PROVE  Says(ss \o tt, a \o c, b \o d)
  <1>1. AllLines(ss) /\ AllLines(tt) /\ AllLines(ss \o tt)
    BY LinesConcat DEF Says
  <1>2. Entries(ss \o tt) = Entries(ss) \o Entries(tt)
    BY <1>1, EntriesConcat DEF AllLines, Titled
  <1>3. ASSUME NEW T, T \subseteq Titles
        PROVE  Under(T, Entries(ss \o tt)) = Under(T, Entries(ss)) \o Under(T, Entries(tt))
    BY <1>1, <1>2, <1>3, LinesTyped, UnderConcat
  <1>4. /\ Under(AmountTitles, Entries(ss \o tt)) = a \o c
        /\ Under(AddressTitles, Entries(ss \o tt)) = b \o d
    BY <1>3, TwoTitles DEF Says
  <1>5. a \o c \in Seq(Printable) /\ b \o d \in Seq(Printable)
    BY DEF Says
  <1>6. QED BY <1>1, <1>4, <1>5 DEF Says

\* Where a piece begins and ends.
From(i)      == (i - 1) * W
To(i, text)  == Shorter(i * W, Len(text))

LEMMA PieceBounds ==
  ASSUME NEW text, IsSeq(text), Len(text) <= 52, NEW i \in Nat, 0 < i, i <= Lines(text)
  PROVE  /\ From(i) \in Nat /\ To(i, text) \in Nat
         /\ From(i) < To(i, text) /\ To(i, text) <= Len(text)
         /\ To(i, text) - From(i) <= W
         /\ To(i - 1, text) = From(i)
         /\ i = Lines(text) => To(i, text) = Len(text)
  <1>1. PICK n \in Nat : n = Len(text)
    BY LenIsNat
  <1>2. PICK w \in Nat : w = W /\ w >= 13
    BY TextAssumption, FieldAssumption
  <1>3. PICK c \in Nat : c = Lines(text)
    BY FourLines
  <1>4. n <= c * w /\ c * w < n + w
    <2>1. c = (n + w - 1) \div w
      BY <1>1, <1>2, <1>3 DEF Lines
    <2>2. QED BY <1>2, <2>1
  <1>5. PICK j \in Nat : i = j + 1
    <2>1. i - 1 \in Nat /\ i = (i - 1) + 1
      OBVIOUS
    <2>2. QED BY <2>1
  <1>6. PICK p \in Nat : p = j * w
    BY <1>2
  <1>7. i * w = p + w
    BY <1>2, <1>5, <1>6
  <1>8. p < n /\ (i = c => n <= p + w)
    <2>1. PICK k \in Nat : c = i + k
      <3>1. c - i \in Nat /\ c = i + (c - i)
        BY <1>3
      <3>2. QED BY <3>1
    <2>2. c * w = (p + w) + k * w /\ k * w \in Nat
      BY <1>2, <1>7, <2>1
    <2>3. p + w < n + w
      BY <1>2, <1>4, <1>6, <2>2
    <2>4. i = c => n <= p + w
      BY <1>4, <1>7
    <2>5. QED BY <1>2, <1>6, <2>3, <2>4
  <1>9. From(i) = p
    BY <1>2, <1>5, <1>6 DEF From
  <1>10. To(i, text) = IF p + w <= n THEN p + w ELSE n
    BY <1>1, <1>2, <1>7 DEF To, Shorter
  <1>11. To(i - 1, text) = p
    <2>1. (i - 1) * W = p
      BY <1>2, <1>5, <1>6
    <2>2. QED BY <1>1, <1>8, <2>1 DEF To, Shorter
  <1>12. QED BY <1>1, <1>2, <1>3, <1>6, <1>8, <1>9, <1>10, <1>11

\* The pieces of a text are lines, and are the text.
LEMMA PieceIsLine ==
  ASSUME NEW title, NEW text \in Seq(Printable), Len(text) <= 52,
         NEW i \in Nat, 0 < i, i <= Lines(text)
  PROVE  LET s == Screen(title, SubSeq(text, From(i) + 1, To(i, text)))
         IN  Line(s) /\ s.title = title /\ s.text = SubSeq(text, From(i) + 1, To(i, text))
                /\ s.text \in Seq(Printable)
  <1> DEFINE x == SubSeq(text, From(i) + 1, To(i, text))
             s == Screen(title, x)
  <1>1. IsSeq(text)
    BY DEF IsSeq
  <1>2. PICK lo \in Nat, hi \in Nat : /\ lo = From(i) /\ hi = To(i, text)
                                      /\ lo < hi /\ hi <= Len(text) /\ hi - lo <= W
    BY <1>1, PieceBounds
  <1>3. x = SubSeq(text, lo + 1, hi)
    BY <1>2
  <1> HIDE DEF x
  <1>4. x \in Seq(Printable) /\ Len(x) = hi - lo
    BY <1>2, <1>3
  <1>5. 0 < Len(x) /\ Len(x) <= W
    BY <1>2, <1>4
  <1>6. s.title = title /\ s.text = x /\ Unformatted(s)
    BY DEF Screen, Unformatted
  <1> HIDE DEF s
  <1>7. Line(s)
    BY <1>4, <1>5, <1>6 DEF Line, FieldText, Unformatted
  <1>8. QED BY <1>4, <1>6, <1>7 DEF s, x

LEMMA PiecesAre ==
  ASSUME NEW title, NEW text \in Seq(Printable), Len(text) <= 52
  PROVE  LET ps == Pieces(title, text)
         IN  /\ AllLines(ps) /\ Len(ps) = Lines(text)
             /\ \A i \in 1..Lines(text) :
                  Entry(ps[i]) = <<title, SubSeq(text, From(i) + 1, To(i, text))>>
  <1> DEFINE piece(i) == Screen(title, SubSeq(text, From(i) + 1, To(i, text)))
             ps == Pieces(title, text)
  <1>1. IsSeq(text)
    BY DEF IsSeq
  <1>2. Titled(ps) /\ Len(ps) = Lines(text) /\ Lines(text) \in Nat
    BY <1>1, PiecesTitled, FourLines
  <1>3. ps = [i \in 1..Lines(text) |-> piece(i)]
    BY DEF Pieces, Lines, From, To
  <1>4. ASSUME NEW i \in 1..Lines(text)
        PROVE  /\ ps[i] = piece(i) /\ Line(piece(i)) /\ piece(i).title = title
               /\ piece(i).text = SubSeq(text, From(i) + 1, To(i, text))
    <2>1. i \in Nat /\ 0 < i /\ i <= Lines(text)
      BY <1>2
    <2>2. ps[i] = piece(i)
      BY <1>3
    <2>3. QED BY <2>1, <2>2, PieceIsLine
  <1> HIDE DEF piece, ps
  <1>5. AllLines(ps)
    BY <1>2, <1>4 DEF AllLines
  <1>6. \A i \in 1..Lines(text) : Entry(ps[i]) = <<title, SubSeq(text, From(i) + 1, To(i, text))>>
    BY <1>4 DEF Entry
  <1>7. QED BY <1>2, <1>5, <1>6 DEF ps

LEMMA PiecesUnder ==
  ASSUME NEW title, NEW text \in Seq(Printable), Len(text) <= 52, NEW T, T \subseteq Titles
  PROVE  Under(T, Entries(Pieces(title, text))) = IF title \in T THEN text ELSE <<>>
  <1> DEFINE ps == Pieces(title, text)
             es == Entries(ps)
             c  == Lines(text)
             read(k) == IF title \in T THEN SubSeq(text, 1, To(k, text)) ELSE <<>>
             S  == {k \in Nat : k <= c => Under(T, SubSeq(es, 1, k)) = read(k)}
  <1>1. IsSeq(text)
    BY DEF IsSeq
  <1>2. /\ AllLines(ps) /\ Len(ps) = c
        /\ \A i \in 1..c : Entry(ps[i]) = <<title, SubSeq(text, From(i) + 1, To(i, text))>>
    BY PiecesAre
  <1>3. Typed(T, es) /\ Len(es) = c /\ \A i \in 1..c : es[i] = Entry(ps[i])
    BY <1>2, LinesTyped, EntriesOf DEF AllLines, Titled
  <1>4. c \in Nat
    BY <1>1, FourLines
  <1>5. Len(text) \in Nat /\ To(0, text) = 0
    BY <1>1, LenIsNat, TextAssumption DEF To, Shorter
  <1> HIDE DEF ps, es, c
  <1>6. 0 \in S
    <2>1. 0 <= Len(es)
      BY <1>3, <1>4
    <2>2. SubSeq(es, 1, 0) = <<>>
      BY <1>3, <2>1, UnderFirst
    <2>3. SubSeq(text, 1, 0) = <<>>
      OBVIOUS
    <2>4. read(0) = <<>>
      BY <1>5, <2>3
    <2>5. QED BY <2>2, <2>4, UnderEmpty
  <1>7. ASSUME NEW k \in Nat, k \in S PROVE k + 1 \in S
    <2>1. SUFFICES ASSUME k + 1 <= c PROVE Under(T, SubSeq(es, 1, k + 1)) = read(k + 1)
      OBVIOUS
    <2>2. k <= c /\ k <= Len(es) /\ k < Len(es) /\ k + 1 \in 1..c
      BY <1>3, <1>4, <2>1
    <2> DEFINE qs == SubSeq(es, 1, k)
               p  == es[k + 1]
    <2>3. Typed(T, qs) /\ SubSeq(es, 1, k + 1) = Append(qs, p)
      BY <1>3, <2>2, UnderFirst
    <2>4. Under(T, qs) = read(k)
      BY <1>7, <2>2
    <2>5. PICK lo \in Nat, hi \in Nat :
            /\ lo = From(k + 1) /\ hi = To(k + 1, text) /\ To(k, text) = lo
            /\ lo < hi /\ hi <= Len(text)
      <3>1. k + 1 \in Nat /\ 0 < k + 1 /\ k + 1 <= Lines(text) /\ (k + 1) - 1 = k
        BY <2>1 DEF c
      <3>2. QED BY <1>1, <3>1, PieceBounds
    <2>6. p = <<title, SubSeq(text, lo + 1, hi)>>
      BY <1>2, <1>3, <2>2, <2>5
    <2>7. p[1] = title /\ p[2] = SubSeq(text, lo + 1, hi) /\ p[2] \in Seq(Printable)
      <3>1. SubSeq(text, lo + 1, hi) \in Seq(Printable)
        BY <2>5
      <3> DEFINE x == SubSeq(text, lo + 1, hi)
      <3> HIDE DEF x, p
      <3>2. p = <<title, x>>
        BY <2>6 DEF x
      <3>3. p[1] = title /\ p[2] = x
        BY <3>2
      <3>4. QED BY <3>1, <3>3 DEF x
    <2> HIDE DEF qs, p
    <2>8. Under(T, Append(qs, p)) = Under(T, qs) \o Said(T, p)
      BY <2>3, <2>7, UnderAppend
    <2>9. CASE title \in T
      <3>1. read(k) = SubSeq(text, 1, lo) /\ read(k + 1) = SubSeq(text, 1, hi)
        BY <2>5, <2>9
      <3>2. SubSeq(text, 1, lo) \o SubSeq(text, lo + 1, hi) = SubSeq(text, 1, hi)
        <4>1. text \in Seq(Printable) /\ lo \in Nat /\ hi \in Nat /\ lo <= hi /\ hi <= Len(text)
          BY <2>5
        <4>2. QED BY ONLY <4>1, TwoSlices
      <3>3. Said(T, p) = SubSeq(text, lo + 1, hi)
        BY <2>7, <2>9 DEF Said
      <3>4. QED BY <2>3, <2>4, <2>8, <3>1, <3>2, <3>3, Zenon
    <2>10. CASE title \notin T
      <3>1. read(k) = <<>> /\ read(k + 1) = <<>> /\ Said(T, p) = <<>>
        BY <2>7, <2>10 DEF Said
      <3>2. <<>> \o <<>> = <<>>
        OBVIOUS
      <3>3. QED BY <2>3, <2>4, <2>8, <3>1, <3>2
    <2>11. QED BY <2>9, <2>10
  <1> HIDE DEF S
  <1>8. Nat \subseteq S
    BY <1>6, <1>7, SetInduction
  <1>9. Under(T, SubSeq(es, 1, c)) = read(c)
    <2>1. c \in S /\ c <= c
      BY <1>4, <1>8
    <2>2. QED BY <2>1 DEF S
  <1>10. SubSeq(es, 1, c) = es
    <2>1. c <= Len(es)
      BY <1>3, <1>4
    <2>2. QED BY <1>3, <1>4, <2>1, UnderFirst
  <1>11. SubSeq(text, 1, To(c, text)) = text
    <2>1. To(c, text) = Len(text)
      <3>1. CASE c = 0
        <4>1. Len(text) = 0
          BY <1>1, <1>5, <3>1, FourLines DEF c
        <4>2. QED BY <1>5, <3>1, <4>1
      <3>2. CASE c # 0
        <4>1. 0 < c /\ c <= Lines(text) /\ c = Lines(text)
          BY <1>4, <3>2 DEF c
        <4>2. QED BY <1>1, <1>4, <4>1, PieceBounds
      <3>3. QED BY <3>1, <3>2
    <2>2. SubSeq(text, 1, Len(text)) = text
      OBVIOUS
    <2>3. QED BY <2>1, <2>2
  <1>12. QED BY <1>9, <1>10, <1>11 DEF es, ps

\* A field is said by its pieces.
LEMMA SaysPieces ==
  ASSUME NEW title, NEW text \in Seq(Printable), Len(text) <= 52
  PROVE  Says(Pieces(title, text), IF title \in AmountTitles THEN text ELSE <<>>,
              IF title \in AddressTitles THEN text ELSE <<>>)
  <1> DEFINE ps == Pieces(title, text)
             a  == IF title \in AmountTitles THEN text ELSE <<>>
             b  == IF title \in AddressTitles THEN text ELSE <<>>
  <1>1. AllLines(ps)
    BY PiecesAre
  <1>2. Under(AmountTitles, Entries(ps)) = a /\ Under(AddressTitles, Entries(ps)) = b
    BY PiecesUnder, TwoTitles
  <1>3. a \in Seq(Printable) /\ b \in Seq(Printable)
    OBVIOUS
  <1> HIDE DEF ps, a, b
  <1>4. Says(ps, a, b)
    BY <1>1, <1>2, <1>3 DEF Says
  <1>5. QED BY <1>4 DEF ps, a, b

\* Lines that are not of a field say nothing.
LEMMA OtherLines ==
  ASSUME NEW ss, AllLines(ss), \A i \in 1..Len(ss) : ~IsField(ss[i])
  PROVE  Says(ss, <<>>, <<>>)
  <1>1. ASSUME NEW T, T \subseteq Titles PROVE Under(T, Entries(ss)) = <<>>
    <2> DEFINE es == Entries(ss)
    <2>1. Typed(T, es)
      BY <1>1, LinesTyped
    <2>2. Len(es) = Len(ss) /\ \A i \in 1..Len(ss) : es[i] = Entry(ss[i])
      BY EntriesOf DEF AllLines, Titled
    <2>3. ASSUME NEW i \in (0 + 1)..Len(es) PROVE es[i][1] \notin T
      <3>1. i \in 1..Len(ss)
        BY <2>2
      <3>2. es[i] = Entry(ss[i]) /\ ss[i].title \notin T
        BY <1>1, <2>2, <3>1 DEF IsField
      <3>3. QED BY <3>2 DEF Entry
    <2>4. 0 <= Len(es)
      BY <2>1, LenIsNat DEF Typed
    <2> HIDE DEF es
    <2>5. Under(T, es) = Under(T, SubSeq(es, 1, 0))
      BY <2>1, <2>3, <2>4, UnderTail
    <2>6. SubSeq(es, 1, 0) = <<>>
      BY <2>1, <2>4, UnderFirst
    <2>7. QED BY <2>5, <2>6, UnderEmpty DEF es
  <1>2. <<>> \in Seq(Printable)
    OBVIOUS
  <1>3. QED BY <1>1, <1>2, TwoTitles DEF Says

LEMMA SaysHash == Says(display_payload_hash, <<>>, <<>>)
  <1>1. Titled(display_payload_hash) /\ Len(display_payload_hash) = 6
    BY HashTitled
  <1>2. ASSUME NEW i \in 1..6
        PROVE  Line(display_payload_hash[i]) /\ ~IsField(display_payload_hash[i])
    <2> DEFINE s == [Screen("New Contract", SubSeq(PayloadHash, 6 * i - 5, Shorter(6 * i, 32)))
                       EXCEPT !.in_hex = TRUE]
    <2>1. display_payload_hash[i] = s
      BY DEF display_payload_hash
    <2>2. s.title = "New Contract" /\ ~s.is_call /\ ~s.is_multicall
      BY DEF Screen
    <2> HIDE DEF s
    <2>3. ~IsField(s)
      BY <2>2 DEF IsField, Titles, AmountTitles, AddressTitles
    <2>4. QED BY <2>1, <2>2, <2>3 DEF Line
  <1>3. AllLines(display_payload_hash)
    BY <1>1, <1>2 DEF AllLines
  <1>4. QED BY <1>1, <1>2, <1>3, OtherLines

\* The amount that is displayed whatever the type.
FirstAmount(t) == IF t.amount # ZeroAmount /\ t.recipient # "system" THEN t.amount ELSE <<>>

\* The amount and the address have characters that are displayed as they are.
Legible(t) ==
  /\ t.amount \in Seq(Printable) /\ 0 < Len(t.amount) /\ Len(t.amount) <= 52
  /\ t.address \in Seq(Printable) /\ Len(t.address) <= 52

LEMMA AmountSaid ==
  ASSUME NEW t, Legible(t)
  PROVE  Says(Pieces("Amount", t.amount), t.amount, <<>>)
  <1>1. t.amount \in Seq(Printable) /\ Len(t.amount) <= 52
    BY DEF Legible
  <1>2. "Amount" \in AmountTitles /\ "Amount" \notin AddressTitles
    BY DEF AmountTitles, AddressTitles
  <1>3. QED BY <1>1, <1>2, SaysPieces

LEMMA AddressSaid ==
  ASSUME NEW t, Legible(t), NEW title \in AddressTitles
  PROVE  Says(Pieces(title, t.address), <<>>, t.address)
  <1>1. t.address \in Seq(Printable) /\ Len(t.address) <= 52
    BY DEF Legible
  <1>2. title \notin AmountTitles
    BY DEF AmountTitles, AddressTitles
  <1>3. QED BY <1>1, <1>2, SaysPieces

LEMMA FirstAmountSaid ==
  ASSUME NEW t, Legible(t)
  PROVE  Says(AmountScreens(t), FirstAmount(t), <<>>)
  <1>1. CASE t.amount # ZeroAmount /\ t.recipient # "system"
    <2>1. AmountScreens(t) = Pieces("Amount", t.amount) /\ FirstAmount(t) = t.amount
      BY <1>1 DEF AmountScreens, FirstAmount
    <2>2. QED BY <2>1, AmountSaid
  <1>2. CASE ~(t.amount # ZeroAmount /\ t.recipient # "system")
    <2>1. AmountScreens(t) = <<>> /\ FirstAmount(t) = <<>>
      BY <1>2 DEF AmountScreens, FirstAmount
    <2>2. QED BY <2>1, NothingSaid
  <1>3. QED BY <1>1, <1>2

\* The address after the screens there are.
LEMMA AddressAfter ==
  ASSUME NEW t, Legible(t), NEW title \in AddressTitles, NEW ss, NEW a, Says(ss, a, <<>>)
  PROVE  Says(ss \o Pieces(title, t.address), a, t.address)
  <1>1. Says(ss \o Pieces(title, t.address), a \o <<>>, <<>> \o t.address)
    BY AddressSaid, SaysConcat
  <1>2. a \o <<>> = a /\ <<>> \o t.address = t.address
    <2>1. a \in Seq(Printable) /\ t.address \in Seq(Printable)
      BY DEF Says, Legible
    <2>2. QED BY <2>1
  <1>3. QED BY <1>1, <1>2

----------------------------------------------------------------------------
\* Screens that say the amount a and the address b, the last of which may be
\* no line.
Made(ss, a, b) ==
  /\ Titled(ss) /\ 0 < Len(ss)
  /\ \A i \in 1..(Len(ss) - 1) : Line(ss[i])
  /\ IsField(ss[Len(ss)]) => FieldText(ss[Len(ss)])
  /\ Under(AmountTitles, Entries(ss)) = a
  /\ Under(AddressTitles, Entries(ss)) = b

LEMMA MadeLines ==
  ASSUME NEW ss, NEW a, NEW b, Says(ss, a, b), 0 < Len(ss)
  PROVE  Made(ss, a, b)
  <1>1. AllLines(ss) /\ Titled(ss) /\ Len(ss) \in Nat
    BY LenIsNat DEF Says, AllLines, Titled
  <1>2. \A i \in 1..Len(ss) : Line(ss[i])
    BY <1>1 DEF AllLines
  <1>3. \A i \in 1..(Len(ss) - 1) : Line(ss[i])
    BY <1>1, <1>2
  <1>4. Line(ss[Len(ss)])
    BY <1>1, <1>2
  <1>5. IsField(ss[Len(ss)]) => FieldText(ss[Len(ss)])
    BY <1>4 DEF Line
  <1>6. QED BY <1>1, <1>3, <1>5 DEF Says, Made

LEMMA EntriesAppend ==
  ASSUME NEW ss, NEW s, IsSeq(ss)
  PROVE  Entries(Append(ss, s)) = Append(Entries(ss), Entry(s))
  <1>1. PICK S : ss \in Seq(S)
    BY DEF IsSeq
  <1>2. ss \in Seq(S \cup {s}) /\ s \in S \cup {s} /\ <<s>> \in Seq(S \cup {s})
    BY <1>1
  <1>3. Append(ss, s) = ss \o <<s>> /\ IsSeq(<<s>>)
    BY <1>2, AppendIsConcat DEF IsSeq
  <1>4. Entries(ss \o <<s>>) = Entries(ss) \o Entries(<<s>>)
    BY <1>3, EntriesConcat
  <1> DEFINE e == Entry(s)
             es == Entries(ss)
  <1>5. Entries(<<s>>) = <<e>>
    <2>1. Entries(<<s>>) = [i \in 1..1 |-> Entry(<<s>>[i])]
      BY DEF Entries
    <2>2. QED BY <2>1
  <1>6. PICK R : es \in Seq(R)
    BY EntriesOf DEF IsSeq
  <1> HIDE DEF e, es
  <1>7. es \in Seq(R \cup {e}) /\ e \in R \cup {e}
    BY <1>6
  <1>8. Append(es, e) = es \o <<e>>
    BY <1>7, AppendIsConcat
  <1>9. QED BY <1>3, <1>4, <1>5, <1>8 DEF e, es

\* One more screen after lines.
LEMMA MadeAppend ==
  ASSUME NEW ss, NEW a, NEW b, Says(ss, a, b), NEW s, "title" \in DOMAIN s,
         IsField(s) => FieldText(s)
  PROVE  /\ Made(Append(ss, s), a \o Said(AmountTitles, Entry(s)), b \o Said(AddressTitles, Entry(s)))
         /\ Append(ss, s)[Len(Append(ss, s))] = s
         /\ ~IsField(s) => Made(Append(ss, s), a, b)
  <1> DEFINE tt == Append(ss, s)
             p  == Entry(s)
             n  == Len(ss)
  <1>1. PICK S : ss \in Seq(S)
    BY DEF Says, AllLines, Titled, IsSeq
  <1>2. ss \in Seq(S \cup {s}) /\ s \in S \cup {s}
    BY <1>1
  <1>3. n \in Nat /\ Len(tt) = n + 1 /\ tt[n + 1] = s /\ \A i \in 1..n : tt[i] = ss[i]
    BY <1>2
  <1>4. Titled(tt)
    BY AppendTitled DEF Says, AllLines
  <1>5. \A i \in 1..n : Line(tt[i])
    BY <1>3 DEF Says, AllLines
  <1>6. ASSUME NEW T, T \subseteq Titles
        PROVE  Under(T, Entries(tt)) = Under(T, Entries(ss)) \o Said(T, p)
    <2>1. Typed(T, Entries(ss))
      BY <1>6, LinesTyped DEF Says
    <2>2. p[1] \in T => p[2] \in Seq(Printable)
      BY <1>6 DEF IsField, FieldText, Entry
    <2>3. Entries(tt) = Append(Entries(ss), p)
      BY <1>1, EntriesAppend DEF IsSeq
    <2> HIDE DEF tt, p
    <2>4. QED BY <2>1, <2>2, <2>3, UnderAppend
  <1> DEFINE x == a \o Said(AmountTitles, p)
             y == b \o Said(AddressTitles, p)
  <1>7. Under(AmountTitles, Entries(tt)) = x /\ Under(AddressTitles, Entries(tt)) = y
    BY <1>6, TwoTitles DEF Says
  <1>8. ~IsField(s) => x = a /\ y = b
    <2>1. a \in Seq(Printable) /\ b \in Seq(Printable)
      BY DEF Says
    <2>2. a \o <<>> = a /\ b \o <<>> = b
      BY <2>1
    <2>3. ~IsField(s) => Said(AmountTitles, p) = <<>> /\ Said(AddressTitles, p) = <<>>
      <3>1. p[1] = s.title
        BY DEF Entry
      <3>2. QED BY <3>1, TwoTitles DEF Said, IsField
    <2>4. QED BY <2>2, <2>3
  <1> HIDE DEF tt, p, x, y, n
  <1>9. Made(tt, x, y)
    BY <1>3, <1>4, <1>5, <1>7 DEF Made
  <1>10. tt[Len(tt)] = s
    BY <1>3
  <1>11. QED BY <1>8, <1>9, <1>10 DEF tt, p, x, y

----------------------------------------------------------------------------
\* What display_transaction writes on the screens.

ShowsAmount(t) ==
  /\ t.amount # ZeroAmount
  /\ ~(t.recipient = "system" /\ t.type \notin {"transfer", "governance"})

ShowsAddress(t) == t.type \notin {"governance", "multicall", "deploy"}

LastScreen(ss) == ss[Len(ss)]

\* The fields are on the screens; the last screen is a field only when there is
\* no payload, or none of it is displayed.
Written(t, r) ==
  r.sw = 0 =>
    /\ r.max_pages \in Nat
    /\ \E a, b : /\ Made(r.screens, a, b)
                 /\ ShowsAmount(t) => a = t.amount
                 /\ ShowsAddress(t) => b = t.address
    /\ IsField(LastScreen(r.screens)) =>
         /\ r.max_pages = 0
         /\ t.payload = NoPayload \/ LastScreen(r.screens).title \in {"Stake", "Unstake"}

LEMMA InvalidWritten ==
  ASSUME NEW t, NEW pos \in Nat, NEW ss
  PROVE  Written(t, Invalid(pos, ss))
  BY DEF Invalid, Written

LEMMA WrittenAppend ==
  ASSUME NEW t, NEW r, NEW ss, NEW s, NEW a, NEW b, Says(ss, a, b), "title" \in DOMAIN s, ~IsField(s),
         ShowsAmount(t) => a = t.amount, ShowsAddress(t) => b = t.address,
         r.screens = Append(ss, s), r.max_pages \in Nat
  PROVE  Written(t, r)
  <1>1. Made(r.screens, a, b) /\ LastScreen(r.screens) = s
    BY MadeAppend DEF LastScreen
  <1>2. QED BY <1>1 DEF Written

LEMMA WrittenLines ==
  ASSUME NEW t, NEW r, NEW ss, NEW a, NEW b, Says(ss, a, b), 0 < Len(ss),
         t.payload = NoPayload \/ ~IsField(LastScreen(ss)),
         ShowsAmount(t) => a = t.amount, ShowsAddress(t) => b = t.address,
         r.screens = ss, r.max_pages = 0
  PROVE  Written(t, r)
  <1>1. Made(r.screens, a, b) /\ 0 \in Nat
    BY MadeLines
  <1>2. QED BY <1>1 DEF Written

\* The payload under a title of its own, or the lines before it.
LEMMA PayloadWritten ==
  ASSUME NEW t, NEW ss, NEW size, NEW a, NEW b, Says(ss, a, b),
         ShowsAmount(t) => a = t.amount, ShowsAddress(t) => b = t.address,
         t.payload = NoPayload => 0 < Len(ss)
  PROVE  Written(t, PayloadScreens(t, ss, size))
  <1> DEFINE r == PayloadScreens(t, ss, size)
  <1>1. CASE t.payload = NoPayload
    <2>1. r = Shown(ss)
      BY <1>1 DEF PayloadScreens
    <2>2. r.screens = ss /\ r.max_pages = 0
      BY <2>1 DEF Shown
    <2> HIDE DEF r
    <2>3. Written(t, r)
      BY <1>1, <2>2, WrittenLines
    <2>4. QED BY <2>3 DEF r
  <1>2. CASE t.payload # NoPayload
    <2> DEFINE s == Screen("Payload", PayloadFrom(t, 0, size))
    <2>1. r.screens = Append(ss, s) /\ r.max_pages \in Nat
      BY <1>2 DEF PayloadScreens, Shown
    <2>2. "title" \in DOMAIN s /\ s.title = "Payload"
      BY ScreenHasTitle
    <2> HIDE DEF r, s
    <2>3. ~IsField(s)
      BY <2>2 DEF IsField, Titles, AmountTitles, AddressTitles
    <2>4. Written(t, r)
      BY <2>1, <2>2, <2>3, WrittenAppend
    <2>5. QED BY <2>4 DEF r
  <1>3. QED BY <1>1, <1>2

LEMMA TransferWritten ==
  ASSUME NEW t, NEW size, Legible(t), t.type = "transfer"
  PROVE  Written(t, transfer(t, AmountScreens(t), size))
  <1> DEFINE ss     == AmountScreens(t)
             before == IF ss = <<>> THEN Pieces("Amount", t.amount) ELSE ss
             all    == before \o Pieces("Recipient", t.address)
  <1>1. Says(before, t.amount, <<>>) /\ 0 < Len(before)
    <2>1. CASE before = Pieces("Amount", t.amount)
      <3>1. Says(before, t.amount, <<>>)
        BY <2>1, AmountSaid
      <3>2. IsSeq(t.amount) /\ 0 < Len(t.amount) /\ Len(t.amount) <= 52
        BY DEF Legible, IsSeq
      <3>3. 0 < Len(before)
        BY <2>1, <3>2, PiecesTitled, FourLines
      <3>4. QED BY <3>1, <3>3
    <2>2. ss = <<>> \/ ss = Pieces("Amount", t.amount)
      BY DEF AmountScreens
    <2>3. QED BY <2>1, <2>2
  <1>2. transfer(t, ss, size) = PayloadScreens(t, all, size)
    BY DEF transfer
  <1>3. "Recipient" \in AddressTitles
    BY DEF AddressTitles
  <1> HIDE DEF ss, before
  <1>4. Says(all, t.amount, t.address)
    BY <1>1, <1>3, AddressAfter
  <1>5. 0 < Len(all)
    <2>1. IsSeq(t.address) /\ Len(t.address) <= 52 /\ Titled(before) /\ Len(before) \in Nat
      BY <1>1, LenIsNat DEF Legible, IsSeq, Says, AllLines, Titled
    <2>2. Len(all) = Len(before) + Lines(t.address) /\ Lines(t.address) \in Nat
      <3>1. Titled(Pieces("Recipient", t.address))
            /\ Len(Pieces("Recipient", t.address)) = Lines(t.address)
        BY <2>1, PiecesTitled
      <3>2. Len(all) = Len(before) + Len(Pieces("Recipient", t.address))
        BY <2>1, <3>1, ConcatTitled
      <3>3. QED BY <2>1, <3>1, <3>2, FourLines
    <2> HIDE DEF all
    <2>3. QED BY <1>1, <2>1, <2>2
  <1> HIDE DEF all
  <1>6. Written(t, PayloadScreens(t, all, size))
    BY <1>4, <1>5, PayloadWritten
  <1>7. QED BY <1>2, <1>6 DEF ss

\* Where the amount is displayed first, if at all.
LEMMA AmountFirst ==
  ASSUME NEW t, t.type \notin {"transfer", "governance"} \/ t.recipient # "system"
  PROVE  ShowsAmount(t) => FirstAmount(t) = t.amount
  BY DEF ShowsAmount, FirstAmount

LEMMA CallWritten ==
  ASSUME NEW t, NEW size, Legible(t), t.type \in {"call", "feedelegation"}
  PROVE  Written(t, call(t, AmountScreens(t), size))
  <1> DEFINE ss       == AmountScreens(t)
             contract == ss \o Pieces("Contract", t.address)
             default  == Screen("Function", <<100, 101, 102, 97, 117, 108, 116>>)
             function == [Screen("Function", PayloadFrom(t, 9, size))
                            EXCEPT !.is_call = TRUE, !.trim_payload = TRUE]
             r        == call(t, ss, size)
             s        == IF t.payload = NoPayload THEN default ELSE function
  <1>1. r = Shown(Append(contract, s)) \/ r = Invalid(2, contract)
    BY Zenon DEF call
  <1>2. "title" \in DOMAIN s /\ s.title = "Function"
    BY ScreenHasTitle
  <1>3. "Contract" \in AddressTitles
    BY DEF AddressTitles
  <1>4. Says(contract, FirstAmount(t), t.address)
    BY <1>3, FirstAmountSaid, AddressAfter
  <1>5. ShowsAmount(t) => FirstAmount(t) = t.amount
    BY AmountFirst
  <1> HIDE DEF contract, s, r
  <1>6. ~IsField(s)
    BY <1>2 DEF IsField, Titles, AmountTitles, AddressTitles
  <1>7. CASE r = Shown(Append(contract, s))
    <2>1. r.screens = Append(contract, s) /\ r.max_pages \in Nat
      BY <1>7 DEF Shown
    <2>2. Written(t, r)
      BY <1>2, <1>4, <1>5, <1>6, <2>1, WrittenAppend
    <2>3. QED BY <2>2 DEF r
  <1>8. CASE r = Invalid(2, contract)
    BY <1>8, InvalidWritten DEF r
  <1>9. QED BY <1>1, <1>7, <1>8

LEMMA MulticallWritten ==
  ASSUME NEW t, NEW size, Legible(t), t.type = "multicall"
  PROVE  Written(t, multicall(t, AmountScreens(t), size))
  <1> DEFINE ss == AmountScreens(t)
             s  == [Screen("MultiCall", PayloadFrom(t, 1, size)) EXCEPT !.is_multicall = TRUE]
             r  == multicall(t, ss, size)
  <1>1. r = Shown(Append(ss, s)) \/ r = Invalid(3, ss)
    BY Zenon DEF multicall
  <1>2. "title" \in DOMAIN s /\ s.title = "MultiCall"
    BY ScreenHasTitle
  <1>3. Says(ss, FirstAmount(t), <<>>)
    BY FirstAmountSaid
  <1>4. (ShowsAmount(t) => FirstAmount(t) = t.amount) /\ ~ShowsAddress(t)
    BY AmountFirst DEF ShowsAddress
  <1> HIDE DEF ss, s, r
  <1>5. ~IsField(s)
    BY <1>2 DEF IsField, Titles, AmountTitles, AddressTitles
  <1>6. CASE r = Shown(Append(ss, s))
    <2>1. r.screens = Append(ss, s) /\ r.max_pages \in Nat
      BY <1>6 DEF Shown
    <2>2. Written(t, r)
      BY <1>2, <1>3, <1>4, <1>5, <2>1, WrittenAppend
    <2>3. QED BY <2>2 DEF r, ss
  <1>7. CASE r = Invalid(3, ss)
    BY <1>7, InvalidWritten DEF r, ss
  <1>8. QED BY <1>1, <1>6, <1>7 DEF r, ss

LEMMA HashWritten ==
  ASSUME NEW t, NEW ss, NEW a, NEW b, Says(ss, a, b),
         ShowsAmount(t) => a = t.amount, ShowsAddress(t) => b = t.address
  PROVE  Written(t, Shown(ss \o display_payload_hash))
  <1> DEFINE h   == display_payload_hash
             all == ss \o h
             r   == Shown(all)
  <1>1. Says(all, a \o <<>>, b \o <<>>)
    BY SaysHash, SaysConcat
  <1>2. a \o <<>> = a /\ b \o <<>> = b
    <2>1. a \in Seq(Printable) /\ b \in Seq(Printable)
      BY DEF Says
    <2>2. QED BY <2>1
  <1>3. r.screens = all /\ r.max_pages = 0
    BY DEF Shown
  <1>4. Len(h) = 6 /\ h[6].title = "New Contract"
    <2> DEFINE s == [Screen("New Contract", SubSeq(PayloadHash, 6 * 6 - 5, Shorter(6 * 6, 32)))
                       EXCEPT !.in_hex = TRUE]
    <2>1. h[6] = s
      BY DEF display_payload_hash
    <2>2. s.title = "New Contract"
      BY DEF Screen
    <2> HIDE DEF s
    <2>3. QED BY <2>1, <2>2, HashTitled
  <1>5. IsSeq(ss) /\ IsSeq(h)
    BY HashTitled DEF Says, AllLines, Titled
  <1> HIDE DEF h
  <1>6. Len(all) = Len(ss) + 6 /\ Len(ss) \in Nat /\ all[Len(ss) + 6] = h[6]
    <2>1. PICK S, R : ss \in Seq(S) /\ h \in Seq(R)
      BY <1>5 DEF IsSeq
    <2>2. ss \in Seq(S \cup R) /\ h \in Seq(S \cup R)
      BY <2>1
    <2>3. Len(ss) \in Nat /\ Len(h) \in Nat /\ 6 \in 1..Len(h)
      <3>1. Len(h) = 6
        BY <1>4
      <3>2. QED BY <2>2, <3>1
    <2>4. Len(ss \o h) = Len(ss) + Len(h) /\ \A i \in 1..Len(h) : (ss \o h)[Len(ss) + i] = h[i]
      BY <2>2
    <2>5. QED BY <1>4, <2>3, <2>4
  <1> HIDE DEF all, r
  <1>7. 0 < Len(all) /\ ~IsField(LastScreen(all))
    <2>1. 0 < Len(all)
      BY <1>6
    <2>2. LastScreen(all).title = "New Contract"
      BY <1>4, <1>6 DEF LastScreen
    <2>3. QED BY <2>1, <2>2 DEF IsField, Titles, AmountTitles, AddressTitles
  <1>8. Written(t, r)
    BY <1>1, <1>2, <1>3, <1>7, WrittenLines
  <1>9. QED BY <1>8 DEF r, all, h

LEMMA DeployWritten ==
  ASSUME NEW t, Legible(t), t.type = "deploy"
  PROVE  Written(t, Shown(AmountScreens(t) \o display_payload_hash))
  <1>1. (ShowsAmount(t) => FirstAmount(t) = t.amount) /\ ~ShowsAddress(t)
    BY AmountFirst DEF ShowsAddress
  <1>2. QED BY <1>1, FirstAmountSaid, HashWritten

LEMMA RedeployWritten ==
  ASSUME NEW t, Legible(t), t.type = "redeploy"
  PROVE  Written(t, Shown(AmountScreens(t) \o Pieces("Redeploy", t.address) \o display_payload_hash))
  <1>1. ShowsAmount(t) => FirstAmount(t) = t.amount
    BY AmountFirst
  <1>2. "Redeploy" \in AddressTitles
    BY DEF AddressTitles
  <1> DEFINE ss == AmountScreens(t) \o Pieces("Redeploy", t.address)
  <1>3. Says(ss, FirstAmount(t), t.address)
    BY <1>2, FirstAmountSaid, AddressAfter
  <1> HIDE DEF ss
  <1>4. Written(t, Shown(ss \o display_payload_hash))
    BY <1>1, <1>3, HashWritten
  <1>5. QED BY <1>4 DEF ss

LEMMA NormalWritten ==
  ASSUME NEW t, NEW size, Legible(t), t.type = "normal"
  PROVE  Written(t, normal(t, AmountScreens(t), size))
  <1> DEFINE ss  == AmountScreens(t)
             all == ss \o Pieces("Recipient", t.address)
             r   == PayloadScreens(t, all, size)
  <1>1. normal(t, ss, size) = IF r.screens = <<>> THEN Invalid(14, <<>>) ELSE r
    BY DEF normal
  <1>2. ShowsAmount(t) => FirstAmount(t) = t.amount
    BY AmountFirst
  <1>3. "Recipient" \in AddressTitles
    BY DEF AddressTitles
  <1>4. Says(all, FirstAmount(t), t.address)
    BY <1>3, FirstAmountSaid, AddressAfter
  <1> HIDE DEF ss, all
  <1>5. CASE r.screens = <<>>
    BY <1>1, <1>5, InvalidWritten DEF ss
  <1>6. CASE r.screens # <<>>
    <2>1. t.payload = NoPayload => 0 < Len(all)
      <3>1. SUFFICES ASSUME t.payload = NoPayload PROVE 0 < Len(all)
        OBVIOUS
      <3>2. r = Shown(all)
        BY <3>1 DEF PayloadScreens
      <3>3. all # <<>>
        BY <1>6, <3>2 DEF Shown
      <3>4. PICK S : all \in Seq(S)
        BY <1>4 DEF Says, AllLines, Titled, IsSeq
      <3>5. QED BY <3>3, <3>4
    <2>2. Written(t, r)
      BY <1>2, <1>4, <2>1, PayloadWritten
    <2> HIDE DEF r
    <2>3. QED BY <1>1, <1>6, <2>2 DEF ss
  <1>7. QED BY <1>5, <1>6

\* Only a stake has the title of a field.
LEMMA TableTitles ==
  /\ \A f \in {1, 2} : SystemFunctions[f].title \in {"Stake", "Unstake"}
  /\ \A f \in {3, 4} : SystemFunctions[f].title \in {"BP Vote", "DAO Vote"}
  /\ \A i \in 1..Len(NameFunctions) : NameFunctions[i].title \notin Titles
  /\ \A i \in 1..Len(EnterpriseFunctions) : EnterpriseFunctions[i].title \notin Titles
  <1>1. /\ SystemFunctions[1].title = "Stake" /\ SystemFunctions[2].title = "Unstake"
        /\ SystemFunctions[3].title = "BP Vote" /\ SystemFunctions[4].title = "DAO Vote"
    BY DEF SystemFunctions
  <1>2. ASSUME NEW i \in 1..2 PROVE NameFunctions[i].title \notin Titles
    <2>1. NameFunctions[1].title = "Create Name" /\ NameFunctions[2].title = "Update Name"
      BY DEF NameFunctions
    <2>2. NameFunctions[1].title \notin Titles /\ NameFunctions[2].title \notin Titles
      BY <2>1 DEF Titles, AmountTitles, AddressTitles
    <2>3. i = 1 \/ i = 2
      OBVIOUS
    <2>4. QED BY <2>2, <2>3
  <1>3. ASSUME NEW i \in 1..6 PROVE EnterpriseFunctions[i].title \notin Titles
    <2> DEFINE E(k) == EnterpriseFunctions[k].title
    <2>1. /\ E(1) = "Add Admin" /\ E(2) = "Remove Admin" /\ E(3) = "Add Config"
          /\ E(4) = "Remove Config" /\ E(5) = "Enable Config" /\ E(6) = "Change Cluster"
      BY DEF EnterpriseFunctions
    <2> HIDE DEF E
    <2>2. /\ E(1) \notin Titles /\ E(2) \notin Titles /\ E(3) \notin Titles
          /\ E(4) \notin Titles /\ E(5) \notin Titles /\ E(6) \notin Titles
      BY <2>1 DEF Titles, AmountTitles, AddressTitles
    <2>3. i = 1 \/ i = 2 \/ i = 3 \/ i = 4 \/ i = 5 \/ i = 6
      OBVIOUS
    <2>4. E(i) \notin Titles
      BY <2>2, <2>3
    <2>5. QED BY <2>4 DEF E
  <1>4. QED BY <1>1, <1>2, <1>3, NameRows, EnterpriseRows

\* A stake is its amount, and a vote its arguments.
LEMMA SystemWritten ==
  ASSUME NEW t, NEW size, Legible(t), t.type = "governance", t.recipient = "system"
  PROVE  Written(t, system(t, AmountScreens(t), size))
  <1> DEFINE ss     == AmountScreens(t)
             f      == Match(SystemFunctions, t.payload.name)
             amount == Screen(SystemFunctions[f].title, t.amount)
             all    == ss \o IF t.amount # ZeroAmount THEN Pieces("Amount", t.amount) ELSE <<>>
             args   == [Screen(SystemFunctions[f].title, PayloadFrom(t, ArgsAt(t), size))
                          EXCEPT !.trim_payload = TRUE]
             r      == system(t, ss, size)
  <1>1. f \in 0..4
    BY SystemRows, MatchIsPrefix DEF Tables
  <1>2. ~ShowsAddress(t)
    BY DEF ShowsAddress
  <1>3. ss = <<>> /\ Says(ss, <<>>, <<>>)
    <2>1. ss = <<>>
      BY DEF AmountScreens
    <2>2. QED BY <2>1, NothingSaid
  <1>4. CASE f = 0
    <2>1. r = Invalid(6, ss)
      BY <1>4 DEF system
    <2>2. QED BY <2>1, InvalidWritten
  <1>5. CASE f \in {1, 2}
    <2>1. r = Shown(Append(ss, amount))
      BY <1>5 DEF system
    <2>2. /\ "title" \in DOMAIN amount /\ amount.title \in {"Stake", "Unstake"}
          /\ amount.text = t.amount /\ Unformatted(amount)
      <3>1. SystemFunctions[f].title \in {"Stake", "Unstake"}
        BY <1>5, TableTitles
      <3>2. amount.title = SystemFunctions[f].title
        BY ScreenHasTitle
      <3>3. "title" \in DOMAIN amount /\ amount.text = t.amount /\ Unformatted(amount)
        BY DEF Screen, Unformatted
      <3> HIDE DEF amount
      <3>4. QED BY <3>1, <3>2, <3>3
    <2>3. r.screens = Append(ss, amount) /\ r.max_pages = 0
      BY <2>1 DEF Shown
    <2> HIDE DEF amount, r
    <2>4. FieldText(amount) /\ t.amount \in Seq(Printable)
      BY <2>2 DEF FieldText, Legible
    <2>5. Said(AmountTitles, Entry(amount)) = t.amount
      BY <2>2 DEF Said, Entry, AmountTitles
    <2> DEFINE b == <<>> \o Said(AddressTitles, Entry(amount))
    <2>6. Made(r.screens, <<>> \o t.amount, b) /\ LastScreen(r.screens) = amount
      <3> HIDE DEF ss
      <3>1. /\ Made(Append(ss, amount), <<>> \o Said(AmountTitles, Entry(amount)), b)
            /\ LastScreen(Append(ss, amount)) = amount
        BY <1>3, <2>2, <2>4, MadeAppend DEF LastScreen
      <3>2. QED BY <2>3, <2>5, <3>1
    <2>7. <<>> \o t.amount = t.amount
      BY <2>4
    <2> HIDE DEF b
    <2>8. r.max_pages \in Nat /\ Made(r.screens, t.amount, b)
      BY <2>3, <2>6, <2>7
    <2>9. Written(t, r)
      BY <1>2, <2>2, <2>3, <2>6, <2>8 DEF Written
    <2>10. QED BY <2>9 DEF r
  <1>6. CASE f \in {3, 4}
    <2>1. r = Invalid(5, ss) \/ r = Shown(Append(all, args))
      <3>1. CASE ~HasArgs(t, size)
        BY <1>6, <3>1 DEF system
      <3>2. CASE HasArgs(t, size)
        BY <1>6, <3>2 DEF system, ArgsScreen
      <3>3. QED BY <3>1, <3>2
    <2>2. "title" \in DOMAIN args /\ args.title \in {"BP Vote", "DAO Vote"}
      <3>1. SystemFunctions[f].title \in {"BP Vote", "DAO Vote"}
        BY <1>6, TableTitles
      <3>2. "title" \in DOMAIN args /\ args.title = SystemFunctions[f].title
        BY ScreenHasTitle
      <3> HIDE DEF args
      <3>3. QED BY <3>1, <3>2
    <2> DEFINE a == IF t.amount # ZeroAmount THEN t.amount ELSE <<>>
    <2>3. Says(all, a, <<>>)
      <3> DEFINE tt == IF t.amount # ZeroAmount THEN Pieces("Amount", t.amount) ELSE <<>>
      <3>1. Says(tt, a, <<>>)
        <4>1. CASE t.amount # ZeroAmount
          BY <4>1, AmountSaid
        <4>2. CASE t.amount = ZeroAmount
          BY <4>2, NothingSaid
        <4>3. QED BY <4>1, <4>2
      <3>2. a \in Seq(Printable)
        BY <3>1 DEF Says
      <3> HIDE DEF a, tt, ss
      <3>3. Says(ss \o tt, <<>> \o a, <<>> \o <<>>)
        BY <1>3, <3>1, SaysConcat
      <3>4. <<>> \o a = a /\ <<>> \o <<>> = <<>>
        BY <3>2
      <3>5. QED BY <3>3, <3>4 DEF tt
    <2>4. ShowsAmount(t) => a = t.amount
      BY DEF ShowsAmount
    <2> HIDE DEF all, args, a, r
    <2>5. ~IsField(args)
      BY <2>2 DEF IsField, Titles, AmountTitles, AddressTitles
    <2>6. CASE r = Shown(Append(all, args))
      <3>1. r.screens = Append(all, args) /\ r.max_pages \in Nat
        BY <2>6 DEF Shown
      <3>2. Written(t, r)
        BY <1>2, <2>2, <2>3, <2>4, <2>5, <3>1, WrittenAppend
      <3>3. QED BY <3>2 DEF r
    <2>7. CASE r = Invalid(5, ss)
      BY <2>7, InvalidWritten DEF r
    <2>8. QED BY <2>1, <2>6, <2>7
  <1>7. QED BY <1>1, <1>4, <1>5, <1>6

LEMMA ConfigurationWritten ==
  ASSUME NEW t, NEW size, NEW table \in {NameFunctions, EnterpriseFunctions}, NEW pos \in Nat,
         Legible(t), t.type = "governance", t.recipient # "system"
  PROVE  Written(t, configuration(t, AmountScreens(t), size, table, pos))
  <1> DEFINE ss   == AmountScreens(t)
             f    == Match(table, t.payload.name)
             args == [Screen(table[f].title, PayloadFrom(t, ArgsAt(t), size))
                        EXCEPT !.trim_payload = TRUE]
             r    == configuration(t, ss, size, table, pos)
  <1>1. f \in 0..Len(table)
    BY MatchIsPrefix DEF Tables
  <1>2. (ShowsAmount(t) => FirstAmount(t) = t.amount) /\ ~ShowsAddress(t)
    BY AmountFirst DEF ShowsAddress
  <1>3. Says(ss, FirstAmount(t), <<>>)
    BY FirstAmountSaid
  <1>4. CASE r \in {Invalid(pos, ss), Invalid(pos + 1, ss)}
    <2>1. pos + 1 \in Nat
      OBVIOUS
    <2>2. QED BY <1>4, <2>1, InvalidWritten
  <1>5. CASE f # 0 /\ r = Shown(Append(ss, args))
    <2>1. \A i \in 1..Len(table) : table[i].title \notin Titles
      BY TableTitles
    <2>2. f \in 1..Len(table)
      <3>1. Len(table) \in Nat
        BY TableRows DEF Tables
      <3>2. QED BY <1>1, <1>5, <3>1
    <2>3. "title" \in DOMAIN args /\ args.title = table[f].title
      BY ScreenHasTitle
    <2>4. r.screens = Append(ss, args) /\ r.max_pages \in Nat
      BY <1>5 DEF Shown
    <2> HIDE DEF args, r, f, ss
    <2>5. ~IsField(args)
      BY <2>1, <2>2, <2>3 DEF IsField
    <2>6. Written(t, r)
      BY <1>2, <1>3, <2>3, <2>4, <2>5, WrittenAppend
    <2>7. QED BY <2>6 DEF r, ss
  <1>6. \/ r \in {Invalid(pos, ss), Invalid(pos + 1, ss)}
        \/ f # 0 /\ r = Shown(Append(ss, args))
    <2>1. CASE ~HasArgs(t, size)
      BY <2>1 DEF configuration
    <2>2. CASE HasArgs(t, size) /\ f = 0
      BY <2>2 DEF configuration
    <2>3. CASE HasArgs(t, size) /\ f # 0
      BY <2>3 DEF configuration, ArgsScreen
    <2>4. QED BY <2>1, <2>2, <2>3
  <1>7. QED BY <1>4, <1>5, <1>6

LEMMA GovernanceWritten ==
  ASSUME NEW t, NEW size, Legible(t), t.type = "governance"
  PROVE  Written(t, governance(t, AmountScreens(t), size))
  <1> DEFINE ss == AmountScreens(t)
             r  == governance(t, ss, size)
  <1>1. CASE r \in {Invalid(4, ss), Invalid(11, ss)}
    BY <1>1, InvalidWritten
  <1>2. CASE t.recipient = "system" /\ r = system(t, ss, size)
    BY <1>2, SystemWritten
  <1>3. CASE t.recipient = "name" /\ r = configuration(t, ss, size, NameFunctions, 7)
    BY <1>3, ConfigurationWritten
  <1>4. CASE t.recipient = "enterprise" /\ r = configuration(t, ss, size, EnterpriseFunctions, 9)
    BY <1>4, ConfigurationWritten
  <1>5. QED BY <1>1, <1>2, <1>3, <1>4 DEF governance

LEMMA TransactionWritten ==
  ASSUME NEW t, NEW size, Legible(t)
  PROVE  Written(t, display_transaction(t, size))
  <1> DEFINE ss == AmountScreens(t)
             r  == display_transaction(t, size)
  <1>1. CASE t.type = "transfer"
    <2>1. r = transfer(t, ss, size)
      BY <1>1 DEF display_transaction
    <2>2. QED BY <1>1, <2>1, TransferWritten
  <1>2. CASE t.type \in {"call", "feedelegation"}
    <2>1. r = call(t, ss, size)
      BY <1>2 DEF display_transaction
    <2>2. QED BY <1>2, <2>1, CallWritten
  <1>3. CASE t.type = "multicall"
    <2>1. r = multicall(t, ss, size)
      BY <1>3 DEF display_transaction
    <2>2. QED BY <1>3, <2>1, MulticallWritten
  <1>4. CASE t.type = "governance"
    <2>1. r = governance(t, ss, size)
      BY <1>4 DEF display_transaction
    <2>2. QED BY <1>4, <2>1, GovernanceWritten
  <1>5. CASE t.type = "deploy"
    <2>1. r = Shown(ss \o display_payload_hash)
      BY <1>5 DEF display_transaction
    <2>2. QED BY <1>5, <2>1, DeployWritten
  <1>6. CASE t.type = "redeploy"
    <2>1. r = Shown(ss \o Pieces("Redeploy", t.address) \o display_payload_hash)
      BY <1>6 DEF display_transaction
    <2>2. QED BY <1>6, <2>1, RedeployWritten
  <1>7. CASE t.type = "normal"
    <2>1. r = normal(t, ss, size)
      BY <1>7 DEF display_transaction
    <2>2. QED BY <1>7, <2>1, NormalWritten
  <1>8. CASE t.type \notin {"transfer", "call", "feedelegation", "multicall", "governance",
                            "deploy", "redeploy", "normal"}
    <2>1. r = Invalid(21, ss)
      BY <1>8 DEF display_transaction
    <2>2. QED BY <2>1, InvalidWritten
  <1>9. QED BY <1>1, <1>2, <1>3, <1>4, <1>5, <1>6, <1>7, <1>8

----------------------------------------------------------------------------
\* How much of the fields is on the pages.

\* What the first cp pages say under the titles T, and what is on the page
\* that t fills, is what t has read of screen cs and the screens before it say.
Follows(T, ps, cp, ss, cs, t) ==
  LET shown == Under(T, SubSeq(ps, 1, cp))
      read  == Under(T, Entries(SubSeq(ss, 1, cs - 1)))
  IN  IF ss[cs].title \in T THEN shown \o t.parsed = read \o SubSeq(ss[cs].text, 1, t.pos)
                            ELSE shown = read

\* Every cut is of a text that the parser reads, and the fields are displayed as
\* they are.
Sound == (Len(doc.cut) > 1 => LastIsPayload) /\ doc.t.address \in Seq(Printable)

\* There is something on the screens.
Filled == ~Waiting /\ phase \notin {"refused", "overrun"}

\* The screens.
LayoutInv ==
  /\ Made(screens, Under(AmountTitles, Entries(screens)), Under(AddressTitles, Entries(screens)))
  /\ ShowsAmount(doc.t) => Under(AmountTitles, Entries(screens)) = doc.t.amount
  /\ ShowsAddress(doc.t) => Under(AddressTitles, Entries(screens)) = doc.t.address
  /\ max_pages \in Nat
  /\ IsField(LastScreen(screens)) => max_pages = 0 /\ part = Len(doc.cut)

\* The page after the last that is displayed is of a screen, or of the last one.
OnScreen ==
  \/ current_page < Len(screens) /\ current_screen = current_page + 1
  \/ current_page >= Len(screens) /\ current_screen = Len(screens)

\* The same when a page is displayed: it may be nothing's.
AfterScreen ==
  \/ current_screen = 0 /\ current_page = 0
  \/ 0 < current_screen /\ current_screen = current_page + 1 /\ ~IsField(Now)
  \/ 0 < current_screen /\ current_page < Len(screens) /\ current_screen = current_page
  \/ 0 < current_screen /\ current_page >= Len(screens) /\ current_screen = Len(screens)

PlaceInv ==
  /\ Seeking => OnScreen
  /\ phase = "idle" => AfterScreen
  /\ phase \in {"await", "ended"} => current_screen = Len(screens)
  /\ phase # "idle" => 0 < current_screen

\* The title is the screen's, but for the arguments of a call.
TitleInv ==
  0 < current_screen =>
    /\ parser.title \in Titles <=> IsField(Now)
    /\ IsField(Now) => parser.title = Now.title

\* The parser of a field: it takes one character after the other.
FieldParser(s, t) ==
  /\ t.input = s.text /\ t.pos \in Nat /\ t.pos <= Len(s.text)
  /\ t.last_utf8_char = 0 /\ t.in_hex = FALSE /\ t.already_in_hex = FALSE
  /\ t.parsed \in Seq(Printable)

FieldInv ==
  0 < current_screen /\ IsField(Now) =>
    /\ FieldParser(Now, parser)
    /\ phase = "parse" => parser.ret = "loop"
    /\ current_page < current_screen => parser.parsed = SubSeq(Now.text, 1, parser.pos)
    /\ (phase = "idle" /\ current_screen < Len(screens)) \/ phase = "ended" =>
         parser.pos = Len(Now.text) /\ parser.parsed = <<>>

PagesInv ==
  /\ current_page <= Len(pages)
  /\ Typed(Titles, pages)
  /\ \A i \in (current_page + 1)..Len(pages) : pages[i][1] \notin Titles

SaidInv ==
  0 < current_screen =>
    \A T \in SUBSET Titles :
      Follows(T, pages, current_page, screens, current_screen, parser)

ReadInv == LayoutInv /\ PlaceInv /\ TitleInv /\ FieldInv /\ PagesInv /\ SaidInv

\* A text parser has these variables.
HasFields(t) ==
  {"input", "pos", "parsed", "title", "ret", "last_utf8_char", "in_hex", "already_in_hex"}
    \subseteq DOMAIN t

FInv == HasFields(parser) /\ (Filled /\ Sound => ReadInv)

LEMMA TypedFewer ==
  ASSUME NEW ps, Typed(Titles, ps), NEW T, T \subseteq Titles
  PROVE  Typed(T, ps)
  BY DEF Typed

\* Pages without the title of a field make no difference.
LEMMA BeyondFields ==
  ASSUME NEW ps, Typed(Titles, ps), NEW T, T \subseteq Titles,
         NEW k \in Nat, NEW m \in Nat, k <= m, m <= Len(ps),
         \A i \in (k + 1)..Len(ps) : ps[i][1] \notin Titles
  PROVE  Under(T, SubSeq(ps, 1, m)) = Under(T, SubSeq(ps, 1, k))
  <1> DEFINE qs == SubSeq(ps, 1, m)
  <1>1. Typed(T, ps)
    BY TypedFewer
  <1>2. Typed(T, qs) /\ Len(qs) = m
    BY <1>1, UnderFirst
  <1>3. PICK S : ps \in Seq(S)
    BY DEF Typed, IsSeq
  <1>4. \A i \in 1..m : qs[i] = ps[i]
    BY <1>3
  <1>5. SubSeq(qs, 1, k) = SubSeq(ps, 1, k)
    BY <1>3
  <1>6. Len(ps) \in Nat
    BY <1>3
  <1> HIDE DEF qs
  <1>7. \A i \in (k + 1)..Len(qs) : qs[i][1] \notin T
    <2>1. ASSUME NEW i \in (k + 1)..m PROVE qs[i][1] \notin T
      <3>1. i \in 1..m /\ i \in (k + 1)..Len(ps)
        BY <1>6
      <3>2. QED BY <1>4, <3>1
    <2>2. QED BY <1>2, <2>1
  <1>8. k <= Len(qs)
    BY <1>2
  <1>9. Under(T, qs) = Under(T, SubSeq(qs, 1, k))
    BY <1>2, <1>7, <1>8, UnderTail
  <1>10. QED BY <1>5, <1>9 DEF qs

\* What the first k screens say.
Read(T, ss, k) == Under(T, Entries(SubSeq(ss, 1, k)))

\* Screens that are lines, but for the last, which is that of a field only with
\* a text that is displayed as it is.
Legend(ss) ==
  /\ Titled(ss) /\ 0 < Len(ss)
  /\ \A i \in 1..(Len(ss) - 1) : Line(ss[i])
  /\ IsField(LastScreen(ss)) => FieldText(LastScreen(ss))

LEMMA MadeLegend ==
  ASSUME NEW ss, NEW a, NEW b, Made(ss, a, b)
  PROVE  Legend(ss)
  BY DEF Made, Legend, LastScreen

LEMMA LegendField ==
  ASSUME NEW ss, Legend(ss), NEW i \in 1..Len(ss), IsField(ss[i])
  PROVE  FieldText(ss[i])
  <1>1. Len(ss) \in Nat
    BY LenIsNat DEF Legend, Titled
  <1>2. CASE i = Len(ss)
    BY <1>2 DEF Legend, LastScreen
  <1>3. CASE i # Len(ss)
    <2>1. i \in 1..(Len(ss) - 1)
      BY <1>1, <1>3
    <2>2. QED BY <2>1 DEF Legend, Line
  <1>4. QED BY <1>2, <1>3

LEMMA LegendTyped ==
  ASSUME NEW ss, Legend(ss)
  PROVE  /\ Typed(Titles, Entries(ss)) /\ Len(Entries(ss)) = Len(ss) /\ Len(ss) \in Nat
         /\ \A i \in 1..Len(ss) : Entries(ss)[i] = Entry(ss[i])
  <1>1. /\ Len(Entries(ss)) = Len(ss) /\ IsSeq(Entries(ss)) /\ Len(ss) \in Nat
        /\ \A i \in 1..Len(ss) : Entries(ss)[i] = Entry(ss[i])
    BY EntriesOf, LenIsNat DEF Legend, Titled
  <1>2. ASSUME NEW i \in 1..Len(ss), Entry(ss[i])[1] \in Titles
        PROVE  Entry(ss[i])[2] \in Seq(Printable)
    <2>1. IsField(ss[i])
      BY <1>2 DEF Entry, IsField
    <2>2. ss[i].text \in Seq(Printable)
      BY <2>1, LegendField DEF FieldText
    <2>3. QED BY <2>2 DEF Entry
  <1>3. QED BY <1>1, <1>2 DEF Typed

\* One screen more.
LEMMA ReadNext ==
  ASSUME NEW ss, Legend(ss), NEW T, T \subseteq Titles, NEW k \in Nat, k < Len(ss)
  PROVE  /\ Read(T, ss, k) \in Seq(Printable)
         /\ Read(T, ss, k + 1) = IF ss[k + 1].title \in T THEN Read(T, ss, k) \o ss[k + 1].text
                                                          ELSE Read(T, ss, k)
         /\ Read(T, ss, Len(ss)) = Under(T, Entries(ss))
         /\ Read(T, ss, 0) = <<>>
  <1> DEFINE es == Entries(ss)
             n  == Len(ss)
  <1>1. /\ Typed(Titles, es) /\ Typed(T, es) /\ Len(es) = n /\ n \in Nat
        /\ \A i \in 1..n : es[i] = Entry(ss[i])
    BY LegendTyped, TypedFewer
  <1>2. PICK S : ss \in Seq(S)
    BY DEF Legend, Titled, IsSeq
  <1>3. ASSUME NEW j \in Nat, j <= n PROVE Entries(SubSeq(ss, 1, j)) = SubSeq(es, 1, j)
    <2> DEFINE tt == SubSeq(ss, 1, j)
    <2>1. tt \in Seq(S) /\ Len(tt) = j /\ \A i \in 1..j : tt[i] = ss[i]
      BY <1>2, <1>3
    <2>2. IsSeq(tt)
      BY <2>1 DEF IsSeq
    <2> HIDE DEF tt
    <2>3. Len(Entries(tt)) = j /\ IsSeq(Entries(tt)) /\ \A i \in 1..j : Entries(tt)[i] = Entry(tt[i])
      BY <2>1, <2>2, EntriesOf
    <2>4. PICK R, Q : es \in Seq(R) /\ Entries(tt) \in Seq(Q)
      BY <1>1, <2>3 DEF Typed, IsSeq
    <2> HIDE DEF es, n
    <2>5. j <= Len(es)
      BY <1>1, <1>3
    <2>6. /\ SubSeq(es, 1, j) \in Seq(R) /\ Len(SubSeq(es, 1, j)) = j
          /\ \A i \in 1..j : SubSeq(es, 1, j)[i] = es[i]
      BY <2>4, <2>5
    <2>7. \A i \in 1..j : Entries(tt)[i] = SubSeq(es, 1, j)[i]
      <3>1. \A i \in 1..j : i \in 1..n
        BY <1>1, <1>3
      <3>2. QED BY <1>1, <2>1, <2>3, <2>6, <3>1
    <2> DEFINE x == Entries(tt)
               y == SubSeq(es, 1, j)
    <2>8. x \in Seq(Q \cup R) /\ y \in Seq(Q \cup R) /\ Len(x) = j /\ Len(y) = j
      BY <2>3, <2>4, <2>6
    <2> HIDE DEF x, y
    <2>9. x = y
      BY <2>7, <2>8 DEF x, y
    <2>10. QED BY <2>9 DEF x, y, tt
  <1> HIDE DEF es, n
  <1>4. k <= n /\ k <= Len(es) /\ k < Len(es) /\ k + 1 \in Nat /\ k + 1 <= n /\ k + 1 \in 1..n /\ 0 <= n
    BY <1>1 DEF n
  <1>5. Read(T, ss, k) = Under(T, SubSeq(es, 1, k)) /\ Read(T, ss, k + 1) = Under(T, SubSeq(es, 1, k + 1))
    BY <1>3, <1>4 DEF Read
  <1>6. Typed(T, SubSeq(es, 1, k)) /\ SubSeq(es, 1, k + 1) = Append(SubSeq(es, 1, k), es[k + 1])
        /\ SubSeq(es, 1, n) = es /\ SubSeq(es, 1, 0) = <<>>
    BY <1>1, <1>4, UnderFirst
  <1>7. Read(T, ss, k) \in Seq(Printable)
    BY <1>5, <1>6, UnderType
  <1> DEFINE p == es[k + 1]
  <1>8. p = Entry(ss[k + 1]) /\ (p[1] \in T => p[2] \in Seq(Printable))
    BY <1>1, <1>4 DEF Typed
  <1>9. p[1] = ss[k + 1].title /\ p[2] = ss[k + 1].text
    <2> HIDE DEF p
    <2>1. QED BY <1>8 DEF Entry
  <1> HIDE DEF p
  <1>10. Under(T, SubSeq(es, 1, k + 1)) = Under(T, SubSeq(es, 1, k)) \o Said(T, p)
    BY <1>6, <1>8, UnderAppend DEF p
  <1>11. Read(T, ss, k + 1) = Read(T, ss, k) \o Said(T, p)
    BY <1>5, <1>10
  <1>12. Read(T, ss, k) \o <<>> = Read(T, ss, k)
    BY <1>7
  <1>13. Read(T, ss, k + 1) = IF ss[k + 1].title \in T THEN Read(T, ss, k) \o ss[k + 1].text
                                                       ELSE Read(T, ss, k)
    BY <1>9, <1>11, <1>12 DEF Said
  <1>14. Read(T, ss, n) = Under(T, es)
    <2>1. n <= n
      BY <1>1
    <2>2. QED BY <1>1, <1>3, <1>6, <2>1 DEF Read
  <1>15. Read(T, ss, 0) = <<>>
    BY <1>3, <1>4, <1>6, UnderEmpty DEF Read
  <1>16. QED BY <1>7, <1>13, <1>14, <1>15 DEF n, es

----------------------------------------------------------------------------
\* The text parsers on a field and on another screen.

\* t has the variables of u and displays under the same title.
SameTitle(t, u) == HasFields(t) /\ t.title = u.title

\* A character of a field is added as it is.
LEMMA FormatField ==
  ASSUME NEW t, NEW s, NEW c \in Printable, HasFields(t), Unformatted(s),
         t.in_hex = FALSE, t.already_in_hex = FALSE, t.parsed \in Seq(Printable)
  PROVE  LET q == Format(t, s, c)
         IN  /\ SameTitle(q, t) /\ q.parsed = Append(t.parsed, c)
             /\ q.input = t.input /\ q.pos = t.pos /\ q.ret = t.ret
             /\ q.last_utf8_char = t.last_utf8_char /\ q.in_hex = FALSE /\ q.already_in_hex = FALSE
  <1> DEFINE hex == s.in_hex \/ (IF IsBreak(c) THEN t.in_hex ELSE c < 32)
             delimiter == CASE s.in_hex \/ hex = t.already_in_hex -> <<>>
                            [] OTHER -> IF hex THEN <<60>> ELSE <<62>>
             page == t.parsed \o delimiter \o Glyphs(c, hex)
             q == [t EXCEPT !.in_hex = hex,
                            !.already_in_hex = IF s.in_hex THEN @ ELSE hex,
                            !.parsed = page]
  <1>1. Format(t, s, c) = q
    <2>1. Format(t, s, c) = [t EXCEPT !.in_hex = hex,
                                      !.already_in_hex = IF s.in_hex THEN @ ELSE hex,
                                      !.parsed = @ \o delimiter \o Glyphs(c, hex)]
      BY DEF Format
    <2>2. QED BY <2>1
  <1>2. c \in Int /\ c >= 32 /\ c <= 127
    BY DEF Printable
  <1>3. ~IsBreak(c) /\ ~s.in_hex
    BY <1>2 DEF IsBreak, Unformatted
  <1>4. hex = FALSE
    BY <1>2, <1>3
  <1>5. delimiter = <<>>
    BY <1>4
  <1>6. Glyphs(c, hex) = <<c>>
    BY <1>2, <1>4 DEF Glyphs
  <1>7. page = Append(t.parsed, c)
    <2>1. t.parsed \o <<>> = t.parsed /\ t.parsed \o <<c>> = Append(t.parsed, c)
      OBVIOUS
    <2>2. QED BY <1>5, <1>6, <2>1
  <1> HIDE DEF page, delimiter
  <1>8. /\ q.parsed = page /\ q.title = t.title /\ q.input = t.input /\ q.pos = t.pos
        /\ q.ret = t.ret /\ q.last_utf8_char = t.last_utf8_char
        /\ q.in_hex = hex /\ q.already_in_hex = hex /\ HasFields(q)
    BY <1>3 DEF HasFields
  <1> HIDE DEF q
  <1>9. QED BY <1>1, <1>4, <1>7, <1>8 DEF SameTitle

\* One turn of the loop on a field: its next character.
LEMMA ParseField ==
  ASSUME HasFields(parser), parse_page_text, FieldText(Now), FieldParser(Now, parser)
  PROVE  /\ HasFields(parser') /\ FieldParser(Now, parser')
         /\ parser'.title = parser.title /\ parser'.ret = parser.ret
         /\ parser.pos < Len(Now.text) /\ parser'.pos = parser.pos + 1
         /\ Now.text[parser.pos + 1] \in Printable
         /\ parser'.parsed = Append(parser.parsed, Now.text[parser.pos + 1])
  <1> DEFINE text == Now.text
             pos  == parser.pos
             c    == text[pos + 1]
             r    == [c |-> c, pos |-> pos + 1, is_utf8 |-> FALSE]
             t    == [parser EXCEPT !.pos = pos + 1, !.last_utf8_char = 0]
  <1>1. /\ text \in Seq(Printable) /\ Unformatted(Now) /\ parser.input = text
        /\ pos \in Nat /\ parser.last_utf8_char = 0
        /\ parser.in_hex = FALSE /\ parser.already_in_hex = FALSE /\ parser.parsed \in Seq(Printable)
    BY DEF FieldText, FieldParser
  <1>2. pos < Len(text)
    BY <1>1 DEF parse_page_text, Reading
  <1>3. c \in Printable /\ pos + 1 <= Len(text)
    <2> HIDE DEF text, pos
    <2>1. Len(text) \in Nat /\ pos + 1 \in 1..Len(text)
      BY <1>1, <1>2
    <2>2. QED BY <1>1, <2>1
  <1>4. ReadChar(parser, Now.in_hex) = r
    <2>1. ~(c >= 192)
      <3> HIDE DEF c
      <3>1. QED BY <1>3 DEF Printable
    <2>2. READ_UTF8(text, pos) = r
      BY <2>1 DEF READ_UTF8
    <2>3. QED BY <1>1, <2>2 DEF ReadChar, Unformatted
  <1>5. parser' = Format(t, Now, c)
    <2>1. r.c = c /\ r.pos = pos + 1 /\ r.is_utf8 = FALSE
      OBVIOUS
    <2> DEFINE held     == Held(t, r, has_partial_payload(part))
               function == EndsFunction(t, Now, r)
               skips    == Skips(t, Now)
               trims    == Trims(t, Now, r, PayloadInfo)
    <2>2. ~held /\ ~function /\ ~skips /\ ~trims
      BY <1>1, <2>1 DEF Held, EndsFunction, Skips, Trims, Unformatted
    <2> HIDE DEF r
    <2>3. LET u == [parser EXCEPT !.pos = r.pos, !.last_utf8_char = 0]
              h == Held(u, r, has_partial_payload(part))
              f == EndsFunction(u, Now, r)
              k == Skips(u, Now)
              m == Trims(u, Now, r, PayloadInfo)
          IN  \/ h /\ parser' = [u EXCEPT !.last_utf8_char = r.c, !.ret = "yes"]
              \/ ~h /\ f /\ parser' = FunctionEnds(u, r)
              \/ ~h /\ ~f /\ k /\ parser' = SkipToArgs(u, r)
              \/ ~h /\ ~f /\ ~k /\ m /\ parser' = TrimEnd(u, r)
              \/ ~h /\ ~f /\ ~k /\ ~m /\ parser' = Format(u, Now, r.c)
      BY <1>4 DEF parse_page_text
    <2>4. [parser EXCEPT !.pos = r.pos, !.last_utf8_char = 0] = t
      BY <2>1
    <2> HIDE DEF t
    <2>5. \/ held /\ parser' = [t EXCEPT !.last_utf8_char = r.c, !.ret = "yes"]
          \/ ~held /\ function /\ parser' = FunctionEnds(t, r)
          \/ ~held /\ ~function /\ skips /\ parser' = SkipToArgs(t, r)
          \/ ~held /\ ~function /\ ~skips /\ trims /\ parser' = TrimEnd(t, r)
          \/ ~held /\ ~function /\ ~skips /\ ~trims /\ parser' = Format(t, Now, r.c)
      BY <2>3, <2>4
    <2> HIDE DEF held, function, skips, trims, c
    <2>6. parser' = Format(t, Now, r.c)
      BY <2>2, <2>5
    <2>7. QED BY <2>1, <2>6
  <1>6. /\ HasFields(t) /\ t.title = parser.title /\ t.ret = parser.ret /\ t.input = text
        /\ t.pos = pos + 1 /\ t.last_utf8_char = 0 /\ t.parsed = parser.parsed
        /\ t.in_hex = FALSE /\ t.already_in_hex = FALSE
    BY <1>1 DEF HasFields
  <1> HIDE DEF t, c, r
  <1> DEFINE q == Format(t, Now, c)
  <1>7. /\ SameTitle(q, t) /\ q.parsed = Append(t.parsed, c)
        /\ q.input = t.input /\ q.pos = t.pos /\ q.ret = t.ret
        /\ q.last_utf8_char = t.last_utf8_char /\ q.in_hex = FALSE /\ q.already_in_hex = FALSE
    BY <1>1, <1>3, <1>6, FormatField
  <1> HIDE DEF q
  <1>8. q.parsed = Append(parser.parsed, c) /\ q.parsed \in Seq(Printable)
    <2>1. Append(parser.parsed, c) \in Seq(Printable)
      BY <1>1, <1>3
    <2>2. QED BY <1>6, <1>7, <2>1
  <1>9. parser' = q
    BY <1>5 DEF q
  <1>10. FieldParser(Now, q)
    BY <1>1, <1>3, <1>6, <1>7, <1>8 DEF FieldParser
  <1>11. HasFields(q) /\ q.title = parser.title /\ q.ret = parser.ret /\ q.pos = pos + 1
    BY <1>6, <1>7 DEF SameTitle
  <1> HIDE DEF text, pos
  <1>12. QED BY <1>2, <1>3, <1>8, <1>9, <1>10, <1>11 DEF text, pos, c

\* The arguments of a call have a title of their own; no other title changes.
LEMMA ParseOther ==
  ASSUME HasFields(parser), parse_page_text
  PROVE  /\ HasFields(parser')
         /\ parser'.title = parser.title \/ parser'.title = "Parameters"
  <1>1. PICK r \in {ReadChar(parser, Now.in_hex)} :
          LET t == [parser EXCEPT !.pos = r.pos, !.last_utf8_char = 0]
          IN  \/ parser' = [t EXCEPT !.last_utf8_char = r.c, !.ret = "yes"]
              \/ parser' = FunctionEnds(t, r)
              \/ parser' = SkipToArgs(t, r)
              \/ parser' = TrimEnd(t, r)
              \/ parser' = Format(t, Now, r.c)
    BY DEF parse_page_text
  <1> DEFINE t == [parser EXCEPT !.pos = r.pos, !.last_utf8_char = 0]
  <1>2. HasFields(t) /\ t.title = parser.title
    BY DEF HasFields
  <1> HIDE DEF t
  <1>3. CASE parser' = [t EXCEPT !.last_utf8_char = r.c, !.ret = "yes"]
    BY <1>2, <1>3 DEF HasFields
  <1>4. CASE parser' = FunctionEnds(t, r)
    BY <1>2, <1>4 DEF HasFields, FunctionEnds
  <1>5. CASE parser' = SkipToArgs(t, r)
    BY <1>2, <1>5 DEF HasFields, SkipToArgs
  <1>6. CASE parser' = TrimEnd(t, r)
    BY <1>2, <1>6 DEF HasFields, TrimEnd
  <1>7. CASE parser' = Format(t, Now, r.c)
    BY <1>2, <1>7 DEF HasFields, Format
  <1>8. QED BY <1>1, <1>3, <1>4, <1>5, <1>6, <1>7 DEF t

\* What is in JSON keeps the title.
LEMMA JsonTitle ==
  ASSUME NEW t, NEW c, HasFields(t)
  PROVE  SameTitle(JsonChar(t, c), t)
  <1>1. SameTitle(Copied(t, c), t) /\ SameTitle(Passed(t, c), t)
    BY DEF SameTitle, HasFields, Copied, Passed
  <1>2. SameTitle(InString(t, c), t)
    BY <1>1 DEF InString, SameTitle, HasFields
  <1>3. SameTitle(InLiteral(t, c), t)
    BY <1>1 DEF InLiteral, SameTitle, HasFields
  <1>4. SameTitle(InInternalString(t, c), t)
    BY <1>1 DEF InInternalString, SameTitle, HasFields
  <1>5. SameTitle(InNested(t, c), t)
    BY <1>1 DEF InNested, SameTitle, HasFields
  <1>6. SameTitle(BetweenElements(t, c), t)
    BY <1>1 DEF BetweenElements, SameTitle, HasFields
  <1>7. QED BY <1>2, <1>3, <1>4, <1>5, <1>6 DEF JsonChar

LEMMA ParseMulticall ==
  ASSUME HasFields(parser), parse_multicall_page
  PROVE  HasFields(parser') /\ parser'.title = parser.title
  <1>1. PICK r \in {ReadChar(parser, FALSE)} :
          LET t == [parser EXCEPT !.pos = r.pos, !.last_utf8_char = 0]
          IN  \/ parser' = [t EXCEPT !.last_utf8_char = r.c, !.ret = "no"]
              \/ parser' = JsonChar(t, r.c)
    BY DEF parse_multicall_page
  <1> DEFINE t == [parser EXCEPT !.pos = r.pos, !.last_utf8_char = 0]
  <1>2. HasFields(t) /\ t.title = parser.title
    BY DEF HasFields
  <1> HIDE DEF t
  <1>3. CASE parser' = [t EXCEPT !.last_utf8_char = r.c, !.ret = "no"]
    BY <1>2, <1>3 DEF HasFields
  <1>4. CASE parser' = JsonChar(t, r.c)
    BY <1>2, <1>4, JsonTitle DEF SameTitle
  <1>5. QED BY <1>1, <1>3, <1>4 DEF t

----------------------------------------------------------------------------
\* What is read, when the pager goes on.

\* Pages that are of no field do not count.
LEMMA FollowsBeyond ==
  ASSUME NEW ps, Typed(Titles, ps), NEW T, T \subseteq Titles,
         NEW k \in Nat, NEW m \in Nat, k <= m, m <= Len(ps),
         \A i \in (k + 1)..Len(ps) : ps[i][1] \notin Titles,
         NEW ss, NEW cs, NEW t, Follows(T, ps, k, ss, cs, t),
         NEW q, q.parsed = t.parsed, q.pos = t.pos
  PROVE  Follows(T, ps, m, ss, cs, q)
  <1>1. Under(T, SubSeq(ps, 1, m)) = Under(T, SubSeq(ps, 1, k))
    BY BeyondFields
  <1>2. QED BY <1>1 DEF Follows

\* Nothing of a screen is read when it begins.
LEMMA FollowsStart ==
  ASSUME NEW ps, NEW ss, Legend(ss), NEW T, T \subseteq Titles,
         NEW cs \in 1..Len(ss), NEW m,
         Under(T, SubSeq(ps, 1, m)) = Read(T, ss, cs - 1),
         NEW t, t.parsed = <<>>, t.pos = 0
  PROVE  Follows(T, ps, m, ss, cs, t)
  <1>1. Under(T, SubSeq(ps, 1, m)) = Under(T, Entries(SubSeq(ss, 1, cs - 1)))
    BY DEF Read
  <1>2. ASSUME ss[cs].title \in T
        PROVE  SubSeq(ss[cs].text, 1, 0) = <<>>
    <2>1. ss[cs].text \in Seq(Printable)
      BY <1>2, LegendField DEF IsField, FieldText
    <2>2. QED BY <2>1
  <1>3. QED BY <1>1, <1>2 DEF Follows

\* A screen that is at its end has been read.
LEMMA FollowsEnd ==
  ASSUME NEW ps, Typed(Titles, ps), NEW ss, Legend(ss), NEW T, T \subseteq Titles,
         NEW cs \in 1..Len(ss), NEW m \in Nat, m <= Len(ps), NEW t, Follows(T, ps, m, ss, cs, t),
         ss[cs].title \in T => t.parsed = <<>> /\ t.pos = Len(ss[cs].text)
  PROVE  Under(T, SubSeq(ps, 1, m)) = Read(T, ss, cs)
  <1>1. Typed(T, SubSeq(ps, 1, m))
    BY TypedFewer, UnderFirst
  <1> DEFINE shown == Under(T, SubSeq(ps, 1, m))
  <1>2. shown \in Seq(Printable)
    BY <1>1, UnderType
  <1>3. Len(ss) \in Nat
    BY LegendTyped
  <1>4. PICK k \in Nat : k < Len(ss) /\ k + 1 = cs /\ cs - 1 = k
    <2>1. PICK n \in Nat : n = Len(ss)
      BY <1>3
    <2>2. cs \in 1..n
      BY <2>1
    <2>3. cs - 1 \in Nat /\ cs - 1 < n /\ (cs - 1) + 1 = cs
      BY <2>1, <2>2
    <2>4. QED BY <2>1, <2>3
  <1> DEFINE read == Read(T, ss, k)
  <1>5. Read(T, ss, cs) = IF ss[cs].title \in T THEN read \o ss[cs].text ELSE read
    <2>1. Read(T, ss, k + 1) = IF ss[k + 1].title \in T THEN Read(T, ss, k) \o ss[k + 1].text
                                                        ELSE Read(T, ss, k)
      <3>1. k < Len(ss) /\ k \in Nat /\ Legend(ss) /\ T \subseteq Titles
        BY <1>4
      <3>2. QED BY ONLY <3>1, ReadNext
    <2>2. k + 1 = cs
      BY <1>4
    <2>3. QED BY <2>1, <2>2, Zenon
  <1>6. read = Under(T, Entries(SubSeq(ss, 1, cs - 1)))
    BY <1>4 DEF Read
  <1> HIDE DEF shown, read
  <1>7. CASE ss[cs].title \in T
    <2>1. shown \o t.parsed = read \o SubSeq(ss[cs].text, 1, t.pos)
      BY <1>6, <1>7 DEF Follows, shown
    <2>2. ss[cs].text \in Seq(Printable)
      BY <1>7, LegendField DEF IsField, FieldText
    <2>3. shown \o <<>> = shown /\ SubSeq(ss[cs].text, 1, Len(ss[cs].text)) = ss[cs].text
      BY <1>2, <2>2
    <2>4. t.parsed = <<>> /\ t.pos = Len(ss[cs].text)
      BY <1>7
    <2>5. shown = read \o ss[cs].text
      BY <2>1, <2>3, <2>4
    <2>6. QED BY <1>5, <1>7, <2>5 DEF shown
  <1>8. CASE ss[cs].title \notin T
    BY <1>5, <1>6, <1>8 DEF Follows, shown
  <1>9. QED BY <1>7, <1>8

LEMMA LayoutLegend ==
  ASSUME LayoutInv
  PROVE  Legend(screens) /\ Len(screens) \in Nat /\ 0 < Len(screens)
  <1>1. Legend(screens)
    BY MadeLegend DEF LayoutInv
  <1>2. QED BY <1>1, LegendTyped DEF Legend

\* The pager begins screen n, and the pages are those of the screens before.
LEMMA PrepareRead ==
  ASSUME LayoutInv', NEW n \in 1..Len(screens), NEW k, prepare_screen(screens', n, k),
         Len(screens') = Len(screens), max_pages \in Nat, n - 1 <= Len(pages), Typed(Titles, pages),
         \A i \in n..Len(pages) : pages[i][1] \notin Titles,
         \A T \in SUBSET Titles : Under(T, SubSeq(pages, 1, n - 1)) = Read(T, screens', n - 1),
         pages' = pages
  PROVE  HasFields(parser') /\ ReadInv'
  <1>1. Legend(screens') /\ Len(screens) \in Nat
    <2>1. Legend(screens') /\ Len(screens') \in Nat
      BY MadeLegend, LegendTyped DEF LayoutInv
    <2>2. QED BY <2>1
  <1>2. ~AtMaxPages(n - 1)
    BY <1>1 DEF AtMaxPages, num_screens
  <1> DEFINE s == screens'[n]
             t == [reset_text_parser EXCEPT !.title = s.title, !.input = s.text]
  <1>3. /\ current_screen' = n /\ current_page' = n - 1
        /\ phase' = "parse" /\ parser' = [t EXCEPT !.ret = "loop"]
    BY <1>2 DEF prepare_screen, parse_next_page
  <1>4. /\ HasFields(parser') /\ parser'.title = s.title /\ parser'.input = s.text
        /\ parser'.pos = 0 /\ parser'.parsed = <<>> /\ parser'.ret = "loop"
        /\ parser'.last_utf8_char = 0 /\ parser'.in_hex = FALSE /\ parser'.already_in_hex = FALSE
    BY <1>3 DEF reset_text_parser, HasFields
  <1>5. Now' = s
    BY <1>3 DEF Now
  <1> HIDE DEF s, t
  <1>6. n - 1 < Len(screens') /\ n = (n - 1) + 1 /\ 0 < n /\ n - 1 \in Nat
    BY <1>1
  <1>7. PlaceInv'
    BY <1>3, <1>6 DEF PlaceInv, OnScreen, AfterScreen, Seeking
  <1>8. TitleInv'
    BY <1>4, <1>5 DEF TitleInv, IsField
  <1>9. FieldInv'
    <2>1. SUFFICES ASSUME IsField(s)
                   PROVE  /\ FieldParser(s, parser')
                          /\ parser'.parsed = SubSeq(s.text, 1, parser'.pos)
      BY <1>3, <1>4, <1>5 DEF FieldInv
    <2>2. s.text \in Seq(Printable)
      <3>1. n \in 1..Len(screens')
        BY <1>1
      <3>2. QED BY <1>1, <2>1, <3>1, LegendField DEF s, FieldText
    <2>3. 0 <= Len(s.text) /\ <<>> \in Seq(Printable) /\ SubSeq(s.text, 1, 0) = <<>>
      BY <2>2
    <2>4. QED BY <1>4, <2>3 DEF FieldParser
  <1>10. PagesInv'
    <2>1. \A i \in ((n - 1) + 1)..Len(pages) : pages[i][1] \notin Titles
      BY <1>6
    <2>2. QED BY <1>3, <2>1 DEF PagesInv
  <1>11. SaidInv'
    <2>1. SUFFICES ASSUME NEW T \in SUBSET Titles
                   PROVE  Follows(T, pages', n - 1, screens', n, parser')
      BY <1>3 DEF SaidInv
    <2>2. Under(T, SubSeq(pages', 1, n - 1)) = Read(T, screens', n - 1) /\ n \in 1..Len(screens')
      BY <1>1
    <2>3. QED BY <1>1, <1>4, <2>2, FollowsStart
  <1>12. QED BY <1>4, <1>7, <1>8, <1>9, <1>10, <1>11 DEF ReadInv

\* The pager looks for a page of the last screen, with the screens as they are.
LEMMA SeekRead ==
  ASSUME HasFields(parser), ReadInv, TypesInv, current_screen = Len(screens),
         NEW page \in Nat, SeekPage(parser, page, part),
         Len(screens) <= page, current_page <= page, page <= Len(pages), current_page' = page,
         UNCHANGED <<doc, part, screens, max_pages, current_screen, pages>>
  PROVE  HasFields(parser') /\ ReadInv'
  <1>1. /\ LayoutInv /\ TitleInv /\ FieldInv /\ PagesInv /\ SaidInv
        /\ 0 < Len(screens) /\ Len(screens) \in Nat /\ current_page \in Nat
    BY LayoutLegend DEF ReadInv, TypesInv
  <1>2. \/ phase' = "ended" /\ on_last_page(parser, page, part) /\ parser' = parser
        \/ phase' \in {"parse", "await"} /\ parser' = [parser EXCEPT !.ret = "loop"]
    BY DEF SeekPage, parse_next_page
  <1>3. /\ HasFields(parser') /\ parser'.title = parser.title /\ parser'.input = parser.input
        /\ parser'.pos = parser.pos /\ parser'.parsed = parser.parsed
        /\ parser'.last_utf8_char = parser.last_utf8_char
        /\ parser'.in_hex = parser.in_hex /\ parser'.already_in_hex = parser.already_in_hex
        /\ phase' = "parse" => parser'.ret = "loop"
    BY <1>2 DEF HasFields
  <1>4. Now' = Now /\ Now = LastScreen(screens)
    BY DEF Now, LastScreen
  <1>5. LayoutInv'
    BY <1>1 DEF LayoutInv
  <1>6. PlaceInv'
    BY <1>1, <1>2 DEF PlaceInv, OnScreen, AfterScreen, Seeking
  <1>7. TitleInv'
    BY <1>1, <1>3, <1>4 DEF TitleInv
  <1>8. FieldInv'
    <2>1. SUFFICES ASSUME IsField(Now)
                   PROVE  /\ FieldParser(Now, parser')
                          /\ phase' = "parse" => parser'.ret = "loop"
                          /\ phase' = "ended" => parser'.pos = Len(Now.text) /\ parser'.parsed = <<>>
      BY <1>1, <1>2, <1>4 DEF FieldInv
    <2>2. FieldParser(Now, parser)
      BY <1>1, <2>1 DEF FieldInv
    <2>3. FieldParser(Now, parser')
      BY <1>3, <2>2 DEF FieldParser
    <2>4. ASSUME phase' = "ended" PROVE parser.pos = Len(Now.text) /\ parser.parsed = <<>>
      <3>1. on_last_page(parser, page, part) /\ max_pages = 0
        BY <1>1, <1>2, <1>4, <2>1, <2>4 DEF LayoutInv
      <3>2. parser.pos >= Len(parser.input) /\ parser.parsed = <<>>
        BY <3>1 DEF on_last_page, AtMaxPages
      <3>3. Len(Now.text) \in Nat
        <4>1. Now.text \in Seq(Printable)
          <5>1. Made(screens, Under(AmountTitles, Entries(screens)), Under(AddressTitles, Entries(screens)))
            BY <1>1 DEF LayoutInv
          <5>2. FieldText(Now)
            BY <1>4, <2>1, <5>1 DEF Made, LastScreen
          <5>3. QED BY <5>2 DEF FieldText
        <4>2. QED BY <4>1
      <3>4. QED BY <2>2, <3>2, <3>3 DEF FieldParser
    <2>5. QED BY <1>3, <2>3, <2>4
  <1>9. PagesInv'
    <2>1. \A i \in (page + 1)..Len(pages) : i \in (current_page + 1)..Len(pages)
      <3>1. Len(pages) \in Nat
        BY LenIsNat DEF TypesInv
      <3>2. QED BY <1>1, <3>1
    <2>2. QED BY <1>1, <2>1 DEF PagesInv
  <1>10. SaidInv'
    <2>1. SUFFICES ASSUME NEW T \in SUBSET Titles
                   PROVE  Follows(T, pages, page, screens, current_screen, parser')
      BY DEF SaidInv
    <2>2. Follows(T, pages, current_page, screens, current_screen, parser)
      BY <1>1 DEF SaidInv
    <2>3. /\ Typed(Titles, pages)
          /\ \A i \in (current_page + 1)..Len(pages) : pages[i][1] \notin Titles
      BY <1>1 DEF PagesInv
    <2>4. QED BY <1>1, <1>3, <2>2, <2>3, FollowsBeyond
  <1>11. QED BY <1>3, <1>5, <1>6, <1>7, <1>8, <1>9, <1>10 DEF ReadInv

----------------------------------------------------------------------------
\* Each action keeps what is read.

LEMMA DocLegible ==
  ASSUME NEW d \in Docs, d.t.address \in Seq(Printable)
  PROVE  Legible(d.t)
  <1>1. /\ d.t.amount \in Seq(Printable) /\ 0 < Len(d.t.amount) /\ Len(d.t.amount) <= 47
        /\ Len(d.t.address) <= 52
    BY FieldAssumption
  <1>3. Len(d.t.amount) <= 52
    <2>1. Len(d.t.amount) \in Nat
      BY <1>1
    <2>2. QED BY <1>1, <2>1
  <1>4. QED BY <1>1, <1>3 DEF Legible

\* A transaction without payload comes in one part.
LEMMA NothingToCut ==
  ASSUME NEW d \in Docs, d.t.payload = NoPayload
  PROVE  Len(d.cut) = 1
  <1>1. d.cut \in Seq(Nat) /\ d.cut # <<>>
    BY DocAssumption, FieldAssumption
  <1>2. \A k \in 2..Len(d.cut) : d.cut[k-1] < d.cut[k]
    BY DocAssumption
  <1>3. d.cut[Len(d.cut)] = 0
    BY DocAssumption
  <1>4. PICK n \in Nat : n = Len(d.cut) /\ 0 < n
    BY <1>1
  <1>5. CASE n = 1
    BY <1>4, <1>5
  <1>6. CASE n # 1
    <2>1. 0 < n
      BY <1>4
    <2>2. n \in 2..n /\ n - 1 \in 1..n
      BY <1>6, <2>1
    <2>3. d.cut[n-1] < d.cut[n]
      BY <1>2, <1>4, <2>2
    <2>4. d.cut[n-1] \in Nat
      BY <1>1, <1>4, <2>2
    <2>5. QED BY <1>3, <1>4, <2>3, <2>4
  <1>7. QED BY <1>5, <1>6

\* The screens are filled, and nothing is displayed yet.
LEMMA SelectRead ==
  ASSUME DInv, DInv', HasFields(parser), Blank, NEW size, Select(size),
         UNCHANGED <<doc, pageVars, parser, shownVars>>,
         part' \in Nat, 0 < part', part' <= Len(doc.cut)
  PROVE  FInv'
  <1>1. HasFields(parser')
    OBVIOUS
  <1>2. SUFFICES ASSUME Filled', Sound' PROVE ReadInv'
    BY <1>1 DEF FInv
  <1>3. PICK r : /\ r = display_transaction(doc.t, size)
                 /\ screens' = r.screens /\ max_pages' = r.max_pages
                 /\ phase' = CASE Len(r.screens) > MaxScreens -> "overrun"
                               [] Len(r.screens) <= MaxScreens /\ r.sw = 0 -> "idle"
                               [] OTHER -> "refused"
    BY DEF Select
  <1>4. doc \in Docs /\ doc' = doc /\ current_screen' = 0 /\ current_page' = 0 /\ pages' = <<>>
    BY DEF DInv, TypesInv, Blank, pageVars, shownVars
  <1>5. phase' = "idle" /\ r.sw = 0
    <2>1. phase' \notin {"refused", "overrun"}
      BY <1>2 DEF Filled
    <2>2. QED BY <1>3, <2>1
  <1>6. Written(doc.t, r)
    <2>1. doc.t.address \in Seq(Printable)
      BY <1>2, <1>4 DEF Sound
    <2>2. QED BY <1>3, <1>4, <2>1, DocLegible, TransactionWritten
  <1>7. LayoutInv'
    <2>1. PICK a, b : /\ Made(screens', a, b)
                      /\ ShowsAmount(doc.t) => a = doc.t.amount
                      /\ ShowsAddress(doc.t) => b = doc.t.address
      BY <1>3, <1>5, <1>6 DEF Written
    <2>2. a = Under(AmountTitles, Entries(screens')) /\ b = Under(AddressTitles, Entries(screens'))
      BY <2>1 DEF Made
    <2>3. max_pages' \in Nat
      BY <1>3, <1>5, <1>6 DEF Written
    <2>4. ASSUME IsField(LastScreen(screens'))
          PROVE  max_pages' = 0 /\ part' = Len(doc.cut)
      <3>1. /\ max_pages' = 0
            /\ doc.t.payload = NoPayload \/ LastScreen(screens').title \in {"Stake", "Unstake"}
        BY <1>3, <1>5, <1>6, <2>4 DEF Written
      <3>2. Len(doc.cut) \in Nat /\ 0 < Len(doc.cut)
        BY <1>4, DocFields
      <3>3. ~(Len(doc.cut) > 1)
        <4>1. CASE doc.t.payload = NoPayload
          <5>1. Len(doc.cut) = 1
            BY <1>4, <4>1, NothingToCut
          <5>2. QED BY <5>1
        <4>2. CASE LastScreen(screens').title \in {"Stake", "Unstake"}
          <5>1. 0 < Len(screens')
            BY <2>1 DEF Made
          <5>2. ~LastIsPayload'
            BY <4>2, <5>1 DEF LastIsPayload, num_screens, LastScreen
          <5>3. QED BY <1>2, <1>4, <5>2 DEF Sound
        <4>3. QED BY <3>1, <4>1, <4>2
      <3>4. QED BY <3>1, <3>2, <3>3
    <2>5. QED BY <1>4, <2>1, <2>2, <2>3, <2>4 DEF LayoutInv
  <1>8. PlaceInv'
    BY <1>4, <1>5 DEF PlaceInv, Seeking, AfterScreen
  <1>9. PagesInv'
    <2>1. Typed(Titles, <<>>) /\ Len(<<>>) = 0
      BY UnderEmpty, NothingTitled
    <2>2. QED BY <1>4, <2>1 DEF PagesInv
  <1>10. TitleInv' /\ FieldInv' /\ SaidInv'
    BY <1>4 DEF TitleInv, FieldInv, SaidInv
  <1>11. QED BY <1>7, <1>8, <1>9, <1>10 DEF ReadInv

LEMMA FirstPartRead ==
  ASSUME DInv, DInv', FInv, FirstPart
  PROVE  FInv'
  <1>1. phase = "start" /\ part' = 1 /\ UNCHANGED <<doc, pageVars, parser, shownVars>>
    BY DEF FirstPart
  <1>2. Blank /\ Len(doc.cut) \in Nat /\ 0 < Len(doc.cut) /\ HasFields(parser)
    BY <1>1, DocFields DEF DInv, ScreensInv, Waiting, TypesInv, FInv
  <1>3. part' \in Nat /\ 0 < part' /\ part' <= Len(doc.cut)
    BY <1>1, <1>2
  <1>4. ASSUME NEW size, Select(size) PROVE FInv'
    BY <1>1, <1>2, <1>3, <1>4, SelectRead
  <1>5. CASE IsDeploy /\ phase' = "await"
    <2>1. Waiting' /\ HasFields(parser')
      BY <1>1, <1>2, <1>5 DEF Waiting, IsDeploy
    <2>2. QED BY <2>1 DEF FInv, Filled
  <1>6. QED BY <1>4, <1>5 DEF FirstPart

LEMMA DeployPartRead ==
  ASSUME DInv, DInv', FInv, DeployPart
  PROVE  FInv'
  <1>1. phase = "await" /\ IsDeploy /\ part' = part + 1 /\ UNCHANGED <<doc, pageVars, parser, shownVars>>
    BY DEF DeployPart
  <1>2. Blank /\ Len(doc.cut) \in Nat /\ part \in Nat /\ part < Len(doc.cut) /\ HasFields(parser)
    BY <1>1, DocFields DEF DInv, ScreensInv, PartsInv, Waiting, TypesInv, FInv
  <1>3. part' \in Nat /\ 0 < part' /\ part' <= Len(doc.cut)
    BY <1>1, <1>2
  <1>4. CASE Select(0)
    BY <1>1, <1>2, <1>3, <1>4, SelectRead
  <1>5. CASE UNCHANGED phase
    <2>1. Waiting' /\ HasFields(parser')
      BY <1>1, <1>2, <1>5 DEF Waiting, IsDeploy
    <2>2. QED BY <2>1 DEF FInv, Filled
  <1>6. QED BY <1>4, <1>5 DEF DeployPart

\* The screens stay, and so does what is known of their last title.
LEMMA SameScreens ==
  ASSUME FInv, Filled, UNCHANGED <<doc, screens>>, Sound'
  PROVE  ReadInv /\ HasFields(parser)
  <1>1. Sound
    BY DEF Sound, LastIsPayload, num_screens
  <1>2. QED BY <1>1 DEF FInv

\* The page after which the pager goes on.
After == IF current_page = 0 THEN current_screen ELSE current_page

\* When a page is displayed and there are screens to come, the pages are what
\* the screens before say.
LEMMA PagesSay ==
  ASSUME TypesInv, CursorInv, ReadInv, phase = "idle", After < Len(screens)
  PROVE  /\ After \in Nat /\ current_page <= After /\ After <= Len(pages)
         /\ \A T \in SUBSET Titles : Under(T, SubSeq(pages, 1, After)) = Read(T, screens, After)
  <1>1. /\ LayoutInv /\ PlaceInv /\ FieldInv /\ PagesInv /\ SaidInv
        /\ AfterScreen /\ Legend(screens)
    BY LayoutLegend DEF ReadInv, PlaceInv
  <1>2. /\ Len(pages) = page_to_display
        /\ page_to_display = current_page \/ page_to_display = current_page + 1
        /\ current_page = 0 => current_screen = page_to_display
    BY DEF CursorInv
  <1>3. PICK n \in Nat : n = Len(screens) /\ 0 < n
    BY <1>1, LayoutLegend
  <1>4. current_screen \in Nat /\ current_page \in Nat /\ Len(pages) \in Nat /\ current_screen <= n
    BY <1>3, LenIsNat DEF TypesInv
  <1>5. After \in Nat /\ current_page <= After /\ After <= Len(pages) /\ After < n
    BY <1>2, <1>3, <1>4 DEF After
  <1>6. Typed(Titles, pages) /\ \A i \in (current_page + 1)..Len(pages) : pages[i][1] \notin Titles
    BY <1>1 DEF PagesInv
  <1>7. ASSUME NEW T \in SUBSET Titles
        PROVE  Under(T, SubSeq(pages, 1, After)) = Read(T, screens, After)
    <2>1. T \subseteq Titles
      OBVIOUS
    <2>2. ASSUME 0 < current_screen
          PROVE  Follows(T, pages, After, screens, current_screen, parser)
      <3>1. Follows(T, pages, current_page, screens, current_screen, parser)
        BY <1>1, <2>2 DEF SaidInv
      <3>2. QED BY <1>4, <1>5, <1>6, <2>1, <3>1, FollowsBeyond
    <2>3. CASE current_screen = 0 /\ current_page = 0
      <3>1. After = 0
        BY <2>3 DEF After
      <3>2. SubSeq(pages, 1, 0) = <<>>
        BY <1>4, <1>6, UnderFirst
      <3>3. Read(T, screens, 0) = <<>>
        BY <1>1, <1>3, <2>1, ReadNext
      <3>4. QED BY <3>1, <3>2, <3>3, UnderEmpty
    <2>4. CASE After = current_screen /\ 0 < current_screen
               /\ (IsField(Now) => parser.pos = Len(Now.text) /\ parser.parsed = <<>>)
      <3>1. current_screen \in 1..Len(screens)
        BY <1>3, <1>4, <2>4
      <3>2. screens[current_screen].title \in T =>
              parser.parsed = <<>> /\ parser.pos = Len(screens[current_screen].text)
        BY <2>1, <2>4 DEF IsField, Now
      <3>3. Under(T, SubSeq(pages, 1, After)) = Read(T, screens, current_screen)
        BY <1>1, <1>5, <1>6, <2>1, <2>2, <2>4, <3>1, <3>2, FollowsEnd
      <3>4. QED BY <2>4, <3>3
    <2>5. CASE current_screen = current_page + 1 /\ 0 < current_page /\ ~IsField(Now)
      <3>1. After = current_screen - 1
        BY <1>4, <2>5 DEF After
      <3>2. screens[current_screen].title \notin T
        BY <2>1, <2>5 DEF IsField, Now
      <3>3. Under(T, SubSeq(pages, 1, After)) = Under(T, Entries(SubSeq(screens, 1, current_screen - 1)))
        BY <1>4, <2>2, <2>5, <3>2 DEF Follows
      <3>4. QED BY <3>1, <3>3 DEF Read
    <2>6. \/ current_screen = 0 /\ current_page = 0
          \/ current_screen = current_page + 1 /\ 0 < current_page /\ ~IsField(Now)
          \/ After = current_screen /\ 0 < current_screen /\ ~IsField(Now)
          \/ After = current_screen /\ 0 < current_screen /\ current_screen < Len(screens)
      BY <1>1, <1>3, <1>4, <1>5 DEF AfterScreen, After
    <2>7. ASSUME 0 < current_screen, current_screen < Len(screens), IsField(Now)
          PROVE  parser.pos = Len(Now.text) /\ parser.parsed = <<>>
      BY <1>1, <2>7 DEF FieldInv
    <2>8. QED BY <2>3, <2>4, <2>5, <2>6, <2>7
  <1>8. QED BY <1>5, <1>7

LEMMA NextPressRead ==
  ASSUME DInv, FInv, NextPress
  PROVE  FInv'
  <1>1. /\ phase = "idle" /\ UNCHANGED <<doc, part, screens, max_pages, pages>>
        /\ Filled
    BY DEF NextPress, documentVars, screenVars, shownVars, Filled, Waiting
  <1>2. /\ \/ After < num_screens /\ prepare_screen(screens, After + 1, part)
           \/ /\ After >= num_screens
              /\ SeekPage(parser, After, part)
              /\ current_page' = After
              /\ UNCHANGED current_screen
    BY DEF NextPress, After
  <1>3. HasFields(parser')
    <2>1. HasFields(parser)
      BY DEF FInv
    <2>2. QED BY <1>2, <2>1 DEF SeekPage, prepare_screen, parse_next_page, HasFields, reset_text_parser
  <1>4. SUFFICES ASSUME Sound' PROVE ReadInv'
    BY <1>3 DEF FInv
  <1>5. ReadInv /\ HasFields(parser) /\ TypesInv /\ CursorInv
    BY <1>1, <1>4, SameScreens DEF DInv
  <1>6. LayoutInv' /\ LayoutInv /\ Len(screens) \in Nat /\ PagesInv /\ PlaceInv
    BY <1>1, <1>5, LayoutLegend DEF ReadInv, LayoutInv
  <1>7. CASE After < num_screens /\ prepare_screen(screens, After + 1, part)
    <2>1. /\ After \in Nat /\ current_page <= After /\ After <= Len(pages) /\ After < Len(screens)
          /\ \A T \in SUBSET Titles : Under(T, SubSeq(pages, 1, After)) = Read(T, screens, After)
      BY <1>1, <1>5, <1>7, PagesSay DEF num_screens
    <2>2. PICK k \in Nat : k = After + 1 /\ After = k - 1 /\ k \in 1..Len(screens)
      BY <1>6, <2>1
    <2>3. /\ \A T \in SUBSET Titles : Under(T, SubSeq(pages, 1, k - 1)) = Read(T, screens', k - 1)
          /\ prepare_screen(screens', k, part) /\ k - 1 <= Len(pages)
      BY <1>1, <1>7, <2>1, <2>2
    <2>4. \A i \in k..Len(pages) : pages[i][1] \notin Titles
      <3>1. Len(pages) \in Nat /\ current_page \in Nat
        BY <1>5, LenIsNat DEF TypesInv
      <3>2. \A i \in k..Len(pages) : i \in (current_page + 1)..Len(pages)
        BY <2>1, <2>2, <3>1
      <3>3. QED BY <1>6, <3>2 DEF PagesInv
    <2>5. max_pages \in Nat /\ Typed(Titles, pages) /\ Len(screens') = Len(screens)
      BY <1>1, <1>6 DEF LayoutInv, PagesInv
    <2>6. QED BY <1>1, <1>6, <2>2, <2>3, <2>4, <2>5, PrepareRead
  <1>8. CASE /\ After >= num_screens /\ SeekPage(parser, After, part)
             /\ current_page' = After /\ UNCHANGED current_screen
    <2>1. /\ current_page \in Nat /\ current_screen \in Nat /\ Len(pages) \in Nat
          /\ current_screen <= Len(screens)
      BY <1>5, LenIsNat DEF TypesInv
    <2>2. AfterScreen /\ 0 < Len(screens)
      BY <1>1, <1>6, LayoutLegend DEF PlaceInv
    <2>3. /\ Len(pages) = page_to_display
          /\ page_to_display = current_page \/ page_to_display = current_page + 1
          /\ current_page = 0 => current_screen = page_to_display
      BY <1>1, <1>5 DEF CursorInv
    <2>4. current_screen = Len(screens) /\ current_page <= After /\ After \in Nat /\ After <= Len(pages)
      BY <1>6, <1>8, <2>1, <2>2, <2>3 DEF AfterScreen, After, num_screens
    <2>5. QED BY <1>1, <1>5, <1>8, <2>4, SeekRead DEF num_screens
  <1>9. QED BY <1>2, <1>7, <1>8

\* qq is ss, but for the text of the last screen.
NewLast(ss, qq) == \E text : qq = [ss EXCEPT ![Len(ss)].text = text]

\* The text of a last screen that is no field's makes no difference.
LEMMA LastText ==
  ASSUME NEW ss, Legend(ss), ~IsField(LastScreen(ss)), NEW qq, NewLast(ss, qq)
  PROVE  /\ Legend(qq) /\ Len(qq) = Len(ss) /\ LastScreen(qq).title = LastScreen(ss).title
         /\ \A i \in 1..(Len(ss) - 1) : qq[i] = ss[i]
         /\ \A T \in SUBSET Titles :
              /\ \A k \in Nat : k < Len(ss) => Read(T, qq, k) = Read(T, ss, k)
              /\ Under(T, Entries(qq)) = Under(T, Entries(ss))
  <1>1. PICK text : qq = [ss EXCEPT ![Len(ss)].text = text]
    BY DEF NewLast
  <1> DEFINE n  == Len(ss)
             s  == [ss[n] EXCEPT !.text = text]
  <1>2. PICK S : ss \in Seq(S)
    BY DEF Legend, Titled, IsSeq
  <1>3. n \in Nat /\ 0 < n
    BY <1>2 DEF Legend
  <1>4. Titled(ss) /\ \A i \in 1..(n - 1) : Line(ss[i])
    BY DEF Legend
  <1>5. Titled(qq) /\ Len(qq) = n /\ LastTitle(qq) = LastTitle(ss)
    BY <1>1, <1>3, <1>4, NewText
  <1>6. qq = [ss EXCEPT ![n] = s]
    BY <1>1
  <1>7. ss \in Seq(S \cup {s}) /\ s \in S \cup {s}
    BY <1>2
  <1> HIDE DEF s
  <1>8. qq \in Seq(S \cup {s}) /\ \A i \in 1..(n - 1) : qq[i] = ss[i]
    BY <1>6, <1>2, <1>3, <1>7
  <1>9. \A k \in Nat : k < n => SubSeq(qq, 1, k) = SubSeq(ss, 1, k)
    <2> SUFFICES ASSUME NEW k \in Nat, k < n PROVE SubSeq(qq, 1, k) = SubSeq(ss, 1, k)
      OBVIOUS
    <2>1. k <= Len(qq) /\ k <= Len(ss)
      BY <1>3, <1>5
    <2> HIDE DEF n
    <2>2. /\ SubSeq(qq, 1, k) \in Seq(S \cup {s}) /\ Len(SubSeq(qq, 1, k)) = k
          /\ SubSeq(ss, 1, k) \in Seq(S \cup {s}) /\ Len(SubSeq(ss, 1, k)) = k
          /\ \A i \in 1..k : SubSeq(qq, 1, k)[i] = qq[i] /\ SubSeq(ss, 1, k)[i] = ss[i]
      BY <1>7, <1>8, <2>1
    <2>3. \A i \in 1..k : SubSeq(qq, 1, k)[i] = SubSeq(ss, 1, k)[i]
      <3>1. \A i \in 1..k : i \in 1..(n - 1)
        BY <1>3
      <3>2. QED BY <1>8, <2>2, <3>1
    <2> DEFINE x == SubSeq(qq, 1, k)
               y == SubSeq(ss, 1, k)
    <2>4. x \in Seq(S \cup {s}) /\ y \in Seq(S \cup {s}) /\ Len(x) = k /\ Len(y) = k
          /\ \A i \in 1..k : x[i] = y[i]
      BY <2>2, <2>3
    <2> HIDE DEF x, y
    <2>5. x = y
      BY <2>4
    <2>6. QED BY <2>5 DEF x, y
  <1>10. LastScreen(qq).title = LastScreen(ss).title
    BY <1>5 DEF LastTitle, LastScreen
  <1>11. Legend(qq)
    <2>1. ~IsField(LastScreen(qq))
      BY <1>10 DEF IsField
    <2> HIDE DEF n
    <2>2. \A i \in 1..(Len(qq) - 1) : Line(qq[i])
      BY <1>4, <1>5, <1>8
    <2>3. QED BY <1>3, <1>5, <2>1, <2>2 DEF Legend
  <1>12. ASSUME NEW T \in SUBSET Titles
         PROVE  /\ \A k \in Nat : k < n => Read(T, qq, k) = Read(T, ss, k)
                /\ Under(T, Entries(qq)) = Under(T, Entries(ss))
    <2>1. \A k \in Nat : k < n => Read(T, qq, k) = Read(T, ss, k)
      BY <1>9 DEF Read
    <2>2. PICK k \in Nat : n = k + 1 /\ k < n
      <3>1. n - 1 \in Nat /\ n = (n - 1) + 1 /\ n - 1 < n
        BY <1>3
      <3>2. QED BY <3>1
    <2>3. ASSUME NEW tt, Legend(tt), Len(tt) = n, ~IsField(LastScreen(tt))
          PROVE  Under(T, Entries(tt)) = Read(T, tt, k)
      <3>1. k \in Nat /\ k < Len(tt) /\ T \subseteq Titles /\ Legend(tt)
        BY <2>2, <2>3
      <3>2. Read(T, tt, k + 1) = IF tt[k + 1].title \in T THEN Read(T, tt, k) \o tt[k + 1].text
                                                          ELSE Read(T, tt, k)
        BY ONLY <3>1, ReadNext
      <3>3. Read(T, tt, Len(tt)) = Under(T, Entries(tt))
        BY ONLY <3>1, ReadNext
      <3>4. tt[k + 1] = LastScreen(tt) /\ k + 1 = Len(tt)
        BY <2>2, <2>3 DEF LastScreen
      <3>5. tt[k + 1].title \notin T
        BY <2>3, <3>1, <3>4 DEF IsField
      <3>6. QED BY <3>2, <3>3, <3>4, <3>5
    <2>4. ~IsField(LastScreen(qq))
      BY <1>10 DEF IsField
    <2>5. Under(T, Entries(qq)) = Read(T, qq, k) /\ Under(T, Entries(ss)) = Read(T, ss, k)
      BY <1>5, <1>11, <2>3, <2>4
    <2>6. QED BY <2>1, <2>2, <2>5
  <1>13. QED BY <1>5, <1>8, <1>10, <1>11, <1>12

LEMMA PayloadPartRead ==
  ASSUME DInv, FInv, PayloadPart
  PROVE  FInv'
  <1>1. /\ phase = "await" /\ ~IsDeploy /\ Filled /\ Seeking
        /\ part' = part + 1 /\ UNCHANGED <<doc, max_pages, page_to_display, pages>>
        /\ screens' = [screens EXCEPT ![Len(screens)].text = PartBytes(doc, part + 1)]
    BY DEF PayloadPart, Filled, Waiting, Seeking, num_screens
  <1>2. \/ prepare_screen(screens', page_to_display, part + 1) /\ page_to_display <= num_screens
        \/ /\ SeekPage([parser EXCEPT !.input = PartBytes(doc, part + 1), !.pos = 0],
                       current_page, part + 1)
           /\ UNCHANGED <<current_screen, current_page>>
    BY DEF PayloadPart
  <1>3. HasFields(parser')
    <2>1. HasFields(parser)
      BY DEF FInv
    <2>2. QED BY <1>2, <2>1 DEF SeekPage, prepare_screen, parse_next_page, HasFields, reset_text_parser
  <1>4. SUFFICES ASSUME Sound' PROVE ReadInv'
    BY <1>3 DEF FInv
  <1>5. TypesInv /\ PartsInv /\ CursorInv /\ ScreensInv
    BY DEF DInv
  <1>6. 0 < Len(screens) /\ Titled(screens) /\ part < Len(doc.cut)
    BY <1>1, <1>5 DEF TypesInv, PartsInv, ScreensInv, Filled
  <1>7. Len(screens') = Len(screens) /\ LastTitle(screens') = LastTitle(screens)
    BY <1>1, <1>6, NewText
  <1>8. ReadInv /\ HasFields(parser)
    <2>1. Sound
      BY <1>1, <1>4, <1>7 DEF Sound, LastIsPayload, num_screens, LastTitle
    <2>2. QED BY <1>1, <2>1 DEF FInv
  <1>9. /\ LayoutInv /\ PlaceInv /\ TitleInv /\ PagesInv /\ SaidInv /\ Legend(screens)
        /\ Len(screens) \in Nat /\ Len(doc.cut) \in Nat /\ part \in Nat
    BY <1>5, <1>8, LayoutLegend, DocFields DEF ReadInv, TypesInv
  <1>10. ~IsField(LastScreen(screens))
    BY <1>6, <1>9 DEF LayoutInv
  <1>11. /\ Legend(screens') /\ LastScreen(screens').title = LastScreen(screens).title
         /\ \A i \in 1..(Len(screens) - 1) : screens'[i] = screens[i]
         /\ \A T \in SUBSET Titles :
              /\ \A k \in Nat : k < Len(screens) => Read(T, screens', k) = Read(T, screens, k)
              /\ Under(T, Entries(screens')) = Under(T, Entries(screens))
    <2>1. NewLast(screens, screens')
      BY <1>1 DEF NewLast
    <2>2. QED BY <1>9, <1>10, <2>1, LastText, Zenon
  <1>12. ~IsField(LastScreen(screens'))
    BY <1>10, <1>11 DEF IsField
  <1>13. LayoutInv'
    <2>1. /\ Under(AmountTitles, Entries(screens')) = Under(AmountTitles, Entries(screens))
          /\ Under(AddressTitles, Entries(screens')) = Under(AddressTitles, Entries(screens))
      BY <1>11, TwoTitles
    <2>2. Made(screens', Under(AmountTitles, Entries(screens')), Under(AddressTitles, Entries(screens')))
      BY <1>11, <1>12 DEF Made, Legend, LastScreen
    <2>3. QED BY <1>1, <1>9, <1>12, <2>1, <2>2 DEF LayoutInv
  <1>14. current_screen = Len(screens) /\ OnScreen
    BY <1>1, <1>9 DEF PlaceInv
  <1>15. /\ 0 < current_screen /\ page_to_display = current_page + 1
         /\ current_page \in Nat /\ Len(pages) \in Nat
    BY <1>1, <1>5, LenIsNat DEF CursorInv, TypesInv
  <1>16. Now = LastScreen(screens)
    BY <1>14 DEF Now, LastScreen
  <1>17. CASE prepare_screen(screens', page_to_display, part + 1) /\ page_to_display <= num_screens
    <2>1. PICK n \in Nat : /\ n = page_to_display /\ n - 1 = current_page /\ n \in 1..Len(screens)
                           /\ n = current_page + 1 /\ current_page < Len(screens)
      BY <1>9, <1>15, <1>17 DEF num_screens
    <2>2. current_screen = current_page + 1 /\ current_screen - 1 = current_page
      BY <1>9, <1>14, <2>1 DEF OnScreen
    <2>3. ASSUME NEW T \in SUBSET Titles
          PROVE  Under(T, SubSeq(pages, 1, n - 1)) = Read(T, screens', n - 1)
      <3>1. Follows(T, pages, current_page, screens, current_screen, parser)
        BY <1>9, <1>15 DEF SaidInv
      <3>2. screens[current_screen].title \notin T
        BY <1>10, <1>16 DEF IsField, Now
      <3>3. Under(T, SubSeq(pages, 1, current_page)) = Read(T, screens, current_page)
        BY <2>2, <3>1, <3>2 DEF Follows, Read
      <3>4. Read(T, screens', current_page) = Read(T, screens, current_page)
        BY <1>11, <1>15, <2>1
      <3>5. QED BY <2>1, <3>3, <3>4
    <2>4. /\ n - 1 <= Len(pages) /\ Typed(Titles, pages) /\ max_pages \in Nat
          /\ \A i \in n..Len(pages) : pages[i][1] \notin Titles
      BY <1>9, <2>1 DEF PagesInv, LayoutInv
    <2>5. prepare_screen(screens', n, part + 1)
      BY <1>17, <2>1
    <2>6. QED BY <1>1, <1>7, <1>13, <2>1, <2>3, <2>4, <2>5, PrepareRead
  <1>18. CASE /\ SeekPage([parser EXCEPT !.input = PartBytes(doc, part + 1), !.pos = 0],
                          current_page, part + 1)
              /\ UNCHANGED <<current_screen, current_page>>
    <2>1. phase' \in {"ended", "parse", "await"} /\ parser'.title = parser.title
      BY <1>8, <1>18 DEF SeekPage, parse_next_page, HasFields
    <2>2. Now' = LastScreen(screens')
      BY <1>7, <1>14, <1>18 DEF Now, LastScreen
    <2>3. ~IsField(Now) /\ ~IsField(Now')
      BY <1>10, <1>12, <1>16, <2>2
    <2>4. PlaceInv'
      BY <1>7, <1>14, <1>15, <1>18, <2>1 DEF PlaceInv, OnScreen
    <2>5. TitleInv'
      <3>1. parser.title \notin Titles
        BY <1>9, <1>15, <2>3 DEF TitleInv
      <3>2. QED BY <2>1, <2>3, <3>1 DEF TitleInv
    <2>6. FieldInv' /\ PagesInv'
      BY <1>1, <1>9, <1>18, <2>3 DEF FieldInv, PagesInv
    <2>7. SaidInv'
      <3>1. SUFFICES ASSUME NEW T \in SUBSET Titles
                     PROVE  Follows(T, pages, current_page, screens', current_screen, parser')
        BY <1>1, <1>18 DEF SaidInv
      <3>2. Follows(T, pages, current_page, screens, current_screen, parser)
        BY <1>9, <1>15 DEF SaidInv
      <3>3. screens[current_screen].title \notin T /\ screens'[current_screen].title \notin T
        BY <1>14, <1>7, <1>10, <1>12 DEF IsField, LastScreen
      <3>4. PICK k \in Nat : k = current_screen - 1 /\ k < Len(screens)
        <4>1. PICK n \in Nat : n = current_screen /\ n = Len(screens) /\ 0 < n
          BY <1>9, <1>14, <1>15
        <4>2. n - 1 \in Nat /\ n - 1 < n
          BY <4>1
        <4>3. QED BY <4>1, <4>2
      <3>5. Read(T, screens', k) = Read(T, screens, k)
        BY <1>11, <3>4
      <3>6. Under(T, SubSeq(pages, 1, current_page)) = Read(T, screens, k)
        BY <3>2, <3>3, <3>4 DEF Follows, Read
      <3>7. QED BY <3>3, <3>4, <3>5, <3>6 DEF Follows, Read
    <2>8. QED BY <1>13, <2>4, <2>5, <2>6, <2>7 DEF ReadInv
  <1>19. QED BY <1>2, <1>17, <1>18

\* The parser is at work on a screen that is no field's.
LEMMA OtherParsed ==
  ASSUME ReadInv, 0 < current_screen, ~IsField(Now),
         UNCHANGED <<doc, part, phase, screens, max_pages, current_screen, current_page, pages>>,
         parser'.title = parser.title \/ parser'.title = "Parameters"
  PROVE  ReadInv'
  <1>1. LayoutInv' /\ PlaceInv' /\ PagesInv' /\ Now' = Now /\ TitleInv /\ SaidInv
    BY DEF ReadInv, LayoutInv, PlaceInv, PagesInv, OnScreen, AfterScreen, Seeking, IsDeploy, Now
  <1>2. TitleInv'
    <2>1. parser.title \notin Titles
      BY <1>1 DEF TitleInv
    <2>2. "Parameters" \notin Titles
      BY DEF Titles, AmountTitles, AddressTitles
    <2>3. QED BY <1>1, <2>1, <2>2 DEF TitleInv
  <1>3. FieldInv'
    BY <1>1 DEF FieldInv
  <1>4. SaidInv'
    <2>1. SUFFICES ASSUME NEW T \in SUBSET Titles
                   PROVE  Follows(T, pages, current_page, screens, current_screen, parser')
      BY DEF SaidInv
    <2>2. Follows(T, pages, current_page, screens, current_screen, parser)
      BY <1>1 DEF SaidInv
    <2>3. screens[current_screen].title \notin T
      BY DEF IsField, Now
    <2>4. QED BY <2>2, <2>3 DEF Follows
  <1>5. QED BY <1>1, <1>2, <1>3, <1>4 DEF ReadInv

\* One element more.
LEMMA NextElement ==
  ASSUME NEW S, NEW text \in Seq(S), NEW k \in Nat, k < Len(text)
  PROVE  SubSeq(text, 1, k + 1) = Append(SubSeq(text, 1, k), text[k + 1])
  OBVIOUS

\* A field's next character is read.
LEMMA FieldParsed ==
  ASSUME ReadInv, HasFields(parser), TypesInv, CursorInv, phase = "parse", IsField(Now), parse_page_text,
         UNCHANGED <<doc, part, phase, screens, max_pages, current_screen, current_page, pages>>
  PROVE  ReadInv'
  <1>1. /\ LayoutInv' /\ PlaceInv' /\ PagesInv' /\ Now' = Now
        /\ LayoutInv /\ TitleInv /\ FieldInv /\ SaidInv /\ PagesInv /\ Legend(screens)
    BY LayoutLegend DEF ReadInv, LayoutInv, PlaceInv, PagesInv, OnScreen, AfterScreen, Seeking, IsDeploy, Now
  <1>2. PICK n, k \in Nat : /\ n = Len(screens) /\ k < n /\ current_screen = k + 1
                            /\ current_screen - 1 = k /\ current_screen \in 1..Len(screens)
    <2>1. 0 < current_screen /\ current_screen \in Nat /\ current_screen <= Len(screens)
      BY DEF TypesInv, CursorInv, Seeking
    <2>2. PICK n \in Nat : n = Len(screens)
      BY <1>1, LayoutLegend
    <2>3. current_screen - 1 \in Nat /\ current_screen - 1 < n /\ current_screen = (current_screen - 1) + 1
          /\ current_screen \in 1..n
      BY <2>1, <2>2
    <2>4. QED BY <2>2, <2>3
  <1>3. FieldText(Now) /\ Now.text \in Seq(Printable)
    <2>1. FieldText(Now)
      BY <1>1, <1>2, LegendField DEF Now
    <2>2. QED BY <2>1 DEF FieldText
  <1>4. FieldParser(Now, parser) /\ parser.ret = "loop"
    BY <1>1, <1>2 DEF FieldInv
  <1>5. /\ FieldParser(Now, parser')
        /\ parser'.title = parser.title /\ parser'.ret = parser.ret
        /\ parser.pos < Len(Now.text) /\ parser'.pos = parser.pos + 1
        /\ Now.text[parser.pos + 1] \in Printable
        /\ parser'.parsed = Append(parser.parsed, Now.text[parser.pos + 1])
    BY <1>3, <1>4, ParseField
  <1>6. parser.pos \in Nat /\ parser.parsed \in Seq(Printable)
    BY <1>4 DEF FieldParser
  <1>7. TitleInv'
    BY <1>1, <1>5 DEF TitleInv
  <1>8. FieldInv'
    <2>1. current_page < current_screen => parser'.parsed = SubSeq(Now.text, 1, parser'.pos)
      <3>1. current_page < current_screen => parser.parsed = SubSeq(Now.text, 1, parser.pos)
        BY <1>1, <1>2 DEF FieldInv
      <3>2. SubSeq(Now.text, 1, parser.pos + 1)
              = Append(SubSeq(Now.text, 1, parser.pos), Now.text[parser.pos + 1])
        BY <1>3, <1>5, <1>6, NextElement
      <3>3. QED BY <1>5, <3>1, <3>2
    <2>2. QED BY <1>1, <1>4, <1>5, <2>1 DEF FieldInv
  <1>9. SaidInv'
    <2>1. SUFFICES ASSUME NEW T \in SUBSET Titles
                   PROVE  Follows(T, pages, current_page, screens, current_screen, parser')
      BY DEF SaidInv
    <2>2. Follows(T, pages, current_page, screens, current_screen, parser)
      BY <1>1, <1>2 DEF SaidInv
    <2> DEFINE shown == Under(T, SubSeq(pages, 1, current_page))
               read  == Under(T, Entries(SubSeq(screens, 1, current_screen - 1)))
    <2>3. shown \in Seq(Printable)
      <3>1. current_page \in Nat /\ current_page <= Len(pages) /\ Typed(T, pages)
        BY <1>1, TypedFewer DEF PagesInv, TypesInv
      <3>2. Typed(T, SubSeq(pages, 1, current_page))
        BY <3>1, UnderFirst
      <3>3. QED BY <3>2, UnderType
    <2>4. read \in Seq(Printable)
      <3>1. Legend(screens) /\ T \subseteq Titles /\ k \in Nat /\ k < Len(screens)
        BY <1>1, <1>2
      <3>2. Read(T, screens, k) \in Seq(Printable)
        BY ONLY <3>1, ReadNext
      <3>3. QED BY <1>2, <3>2 DEF Read
    <2> HIDE DEF shown, read
    <2>5. CASE Now.title \in T
      <3>1. shown \o parser.parsed = read \o SubSeq(Now.text, 1, parser.pos)
        BY <2>2, <2>5 DEF Follows, Now, shown, read
      <3> DEFINE x == SubSeq(Now.text, 1, parser.pos)
                 c == Now.text[parser.pos + 1]
                 y == SubSeq(Now.text, 1, parser'.pos)
      <3>2. x \in Seq(Printable) /\ c \in Printable
        BY <1>3, <1>5, <1>6
      <3>3. y = Append(x, c) /\ parser'.parsed = Append(parser.parsed, c)
        BY <1>3, <1>5, <1>6, NextElement
      <3> HIDE DEF x, c, y
      <3>4. shown \o Append(parser.parsed, c) = read \o Append(x, c)
        <4>1. shown \o parser.parsed = read \o x
          BY <3>1 DEF x
        <4>2. shown \o Append(parser.parsed, c) = Append(shown \o parser.parsed, c)
          <5>1. shown \in Seq(Printable) /\ parser.parsed \in Seq(Printable) /\ c \in Printable
            BY <1>6, <2>3, <3>2
          <5>2. QED BY ONLY <5>1, AppendLast
        <4>3. read \o Append(x, c) = Append(read \o x, c)
          BY <2>4, <3>2, AppendLast
        <4>4. QED BY <4>1, <4>2, <4>3, Zenon
      <3>5. shown \o parser'.parsed = read \o SubSeq(Now.text, 1, parser'.pos)
        BY <3>3, <3>4 DEF y
      <3>6. QED BY <2>5, <3>5 DEF Follows, Now, shown, read
    <2>6. CASE Now.title \notin T
      BY <2>2, <2>6 DEF Follows, Now
    <2>7. QED BY <2>5, <2>6
  <1>10. QED BY <1>1, <1>7, <1>8, <1>9 DEF ReadInv

LEMMA ParseRead ==
  ASSUME DInv, FInv, parse_page_text \/ parse_multicall_page
  PROVE  FInv'
  <1>1. /\ phase = "parse" /\ Filled
        /\ UNCHANGED <<doc, part, phase, screens, max_pages, current_screen, current_page, pages>>
    BY DEF parse_page_text, parse_multicall_page, Reading, Filled, Waiting,
           documentVars, screenVars, pageVars, shownVars
  <1>2. HasFields(parser)
    BY DEF FInv
  <1>3. HasFields(parser')
    BY <1>2, ParseOther, ParseMulticall
  <1>4. SUFFICES ASSUME Sound' PROVE ReadInv'
    BY <1>3 DEF FInv
  <1>5. ReadInv /\ TypesInv /\ CursorInv /\ 0 < current_screen
    BY <1>1, <1>4, SameScreens DEF DInv, CursorInv, Seeking
  <1>6. CASE parse_page_text
    <2>1. CASE IsField(Now)
      BY <1>1, <1>2, <1>5, <1>6, <2>1, FieldParsed
    <2>2. CASE ~IsField(Now)
      BY <1>1, <1>2, <1>5, <1>6, <2>2, ParseOther, OtherParsed
    <2>3. QED BY <2>1, <2>2
  <1>7. CASE parse_multicall_page
    <2>1. ~IsField(Now)
      <3>1. Legend(screens) /\ current_screen \in 1..Len(screens)
        <4>1. Len(screens) \in Nat /\ current_screen \in Nat /\ current_screen <= Len(screens)
              /\ Legend(screens)
          BY <1>5, LayoutLegend DEF ReadInv, TypesInv
        <4>2. QED BY <1>5, <4>1
      <3>2. Now.is_multicall
        BY <1>7 DEF parse_multicall_page
      <3>3. IsField(Now) => FieldText(Now)
        BY <3>1, LegendField DEF Now
      <3>4. QED BY <3>2, <3>3 DEF FieldText, Unformatted
    <2>2. QED BY <1>1, <1>2, <1>5, <1>7, <2>1, ParseMulticall, OtherParsed
  <1>8. QED BY <1>6, <1>7

\* What a page has no room for comes on the next.
LEMMA SplitText ==
  ASSUME NEW S, NEW p \in Seq(S), NEW w \in Nat
  PROVE  LET k == Shorter(w, Len(p))
         IN  /\ SubSeq(p, 1, k) \in Seq(S) /\ SubSeq(p, w + 1, Len(p)) \in Seq(S)
             /\ SubSeq(p, 1, k) \o SubSeq(p, w + 1, Len(p)) = p
             /\ Len(p) <= w => SubSeq(p, w + 1, Len(p)) = <<>>
  <1> DEFINE a == SubSeq(p, 1, Shorter(w, Len(p)))
             b == SubSeq(p, w + 1, Len(p))
  <1>1. PICK n \in Nat : n = Len(p)
    OBVIOUS
  <1>2. CASE n <= w
    <2>1. Shorter(w, Len(p)) = n
      BY <1>1, <1>2 DEF Shorter
    <2>2. a = p
      BY <1>1, <2>1
    <2>3. b = <<>>
      BY <1>1, <1>2
    <2>4. p \o <<>> = p /\ <<>> \in Seq(S)
      OBVIOUS
    <2>5. QED BY <2>2, <2>3, <2>4
  <1>3. CASE w < n
    <2>1. Shorter(w, Len(p)) = w
      BY <1>1, <1>3 DEF Shorter
    <2>2. a \in Seq(S) /\ Len(a) = w /\ \A i \in 1..w : a[i] = p[i]
      BY <1>1, <1>3, <2>1
    <2>3. b \in Seq(S) /\ Len(b) = n - w /\ \A i \in 1..(n - w) : b[i] = p[w + i]
      BY <1>1, <1>3
    <2> HIDE DEF a, b
    <2>4. /\ Len(p) = Len(a) + Len(b)
          /\ \A i \in 1..Len(a) : p[i] = a[i]
          /\ \A i \in 1..Len(b) : p[Len(a) + i] = b[i]
      BY <1>1, <1>3, <2>2, <2>3
    <2>5. p = a \o b
      BY <2>2, <2>3, <2>4, SequencesJoined
    <2>6. ~(Len(p) <= w)
      BY <1>1, <1>3
    <2>7. QED BY <2>2, <2>3, <2>5, <2>6 DEF a, b
  <1>4. n <= w \/ w < n
    BY <1>1
  <1>5. QED BY <1>2, <1>3, <1>4, Zenon

\* The page that is displayed comes after those before it.
LEMMA PageShown ==
  ASSUME TypesInv, PagesInv, NEW text, Show(text), page_to_display = current_page + 1,
         parser.title \in Titles => text \in Seq(Printable)
  PROVE  /\ phase' = "idle" /\ Typed(Titles, pages') /\ Len(pages') = current_page + 1
         /\ pages'[current_page + 1][1] = parser.title
         /\ SubSeq(pages', 1, current_page) = SubSeq(pages, 1, current_page)
         /\ \A T \in SUBSET Titles :
              /\ Under(T, SubSeq(pages, 1, current_page)) \in Seq(Printable)
              /\ Under(T, SubSeq(pages', 1, current_page + 1))
                   = Under(T, SubSeq(pages, 1, current_page)) \o Said(T, <<parser.title, text>>)
  <1> DEFINE m == current_page
             p == <<parser.title, text>>
             before == SubSeq(pages, 1, m)
  <1>1. m \in Nat /\ m <= Len(pages) /\ page_to_display - 1 = m /\ Typed(Titles, pages)
    BY DEF TypesInv, PagesInv
  <1>2. pages' = Append(before, p) /\ phase' = "idle"
    BY <1>1 DEF Show
  <1>3. p[1] = parser.title /\ p[2] = text
    OBVIOUS
  <1> HIDE DEF m, p
  <1>4. Typed(Titles, before) /\ Len(before) = m
    BY <1>1, UnderFirst
  <1> HIDE DEF before
  <1>5. PICK S : before \in Seq(S)
    BY <1>4 DEF Typed, IsSeq
  <1>6. before \in Seq(S \cup {p}) /\ p \in S \cup {p}
    BY <1>5
  <1>7. /\ pages' \in Seq(S \cup {p}) /\ Len(pages') = m + 1 /\ pages'[m + 1] = p
        /\ \A i \in 1..m : pages'[i] = before[i]
    BY <1>1, <1>2, <1>4, <1>6
  <1>8. SubSeq(pages', 1, m) = before /\ SubSeq(pages', 1, m + 1) = pages'
    <2> DEFINE x == SubSeq(pages', 1, m)
    <2>1. x \in Seq(S \cup {p}) /\ Len(x) = m /\ \A i \in 1..m : x[i] = pages'[i]
      BY <1>1, <1>7
    <2>2. SubSeq(pages', 1, Len(pages')) = pages'
      BY <1>7
    <2> HIDE DEF x
    <2>3. x = before
      BY <1>4, <1>6, <1>7, <2>1
    <2>4. QED BY <1>7, <2>2, <2>3 DEF x
  <1>9. ASSUME NEW T \in SUBSET Titles
        PROVE  /\ Typed(T, before) /\ Under(T, before) \in Seq(Printable)
               /\ Typed(T, pages') /\ Under(T, pages') = Under(T, before) \o Said(T, p)
    <2>1. Typed(T, before)
      BY <1>4, TypedFewer
    <2>2. p[1] \in T => p[2] \in Seq(Printable)
      BY <1>3
    <2>3. Typed(T, Append(before, p)) /\ Under(T, Append(before, p)) = Under(T, before) \o Said(T, p)
      BY <2>1, <2>2, UnderAppend
    <2>4. QED BY <1>2, <2>1, <2>3, UnderType
  <1>10. Typed(Titles, pages')
    BY <1>9
  <1>11. QED BY <1>2, <1>3, <1>7, <1>8, <1>9, <1>10 DEF m, p, before

\* The screen that is read at the end of a page.
LEMMA AtPageEnd ==
  ASSUME DInv, ReadInv, phase = "parse"
  PROVE  /\ LayoutInv /\ PlaceInv /\ TitleInv /\ FieldInv /\ PagesInv /\ SaidInv
         /\ TypesInv /\ Legend(screens) /\ OnScreen
         /\ 0 < current_screen /\ page_to_display = current_page + 1
         /\ \E n, m, p \in Nat : /\ n = Len(screens) /\ m = current_screen /\ p = current_page
                                 /\ 0 < m /\ m <= n /\ m \in 1..n /\ p <= Len(pages) /\ Len(pages) \in Nat
         /\ IsField(Now) => /\ FieldText(Now) /\ FieldParser(Now, parser) /\ parser.ret = "loop"
                            /\ current_page < current_screen =>
                                 parser.parsed = SubSeq(Now.text, 1, parser.pos)
         /\ current_screen < Len(screens) => Line(Now)
  <1>1. /\ LayoutInv /\ PlaceInv /\ TitleInv /\ FieldInv /\ PagesInv /\ SaidInv
        /\ TypesInv /\ CursorInv /\ Legend(screens) /\ Len(screens) \in Nat
    BY LayoutLegend DEF ReadInv, DInv
  <1>2. OnScreen /\ 0 < current_screen /\ page_to_display = current_page + 1
        /\ current_page <= Len(pages)
    BY <1>1 DEF PlaceInv, CursorInv, Seeking
  <1>3. \E n, m, p \in Nat : /\ n = Len(screens) /\ m = current_screen /\ p = current_page
                             /\ 0 < m /\ m <= n /\ m \in 1..n /\ p <= Len(pages) /\ Len(pages) \in Nat
    <2>1. current_screen \in Nat /\ current_page \in Nat /\ Len(pages) \in Nat
          /\ current_screen <= Len(screens)
      BY <1>1, LenIsNat DEF TypesInv
    <2>2. current_screen \in 1..Len(screens)
      BY <1>1, <1>2, <2>1
    <2>3. QED BY <1>1, <1>2, <2>1, <2>2
  <1>4. IsField(Now) => FieldText(Now)
    BY <1>1, <1>3, LegendField DEF Now
  <1>5. IsField(Now) => /\ FieldParser(Now, parser) /\ parser.ret = "loop"
                        /\ current_page < current_screen =>
                             parser.parsed = SubSeq(Now.text, 1, parser.pos)
    BY <1>1, <1>2 DEF FieldInv
  <1>6. current_screen < Len(screens) => Line(Now)
    <2>1. PICK n, m \in Nat : n = Len(screens) /\ m = current_screen /\ 0 < m
      BY <1>3
    <2>2. m < n => m \in 1..(n - 1)
      BY <2>1
    <2>3. QED BY <1>1, <2>1, <2>2 DEF Legend, Now
  <1>7. QED BY <1>1, <1>2, <1>3, <1>4, <1>5, <1>6

\* A field is read to its end, or to the end of the page.
LEMMA FieldReadOut ==
  ASSUME FieldText(Now), FieldParser(Now, parser), parser.ret = "loop", phase = "parse", ~Reading
  PROVE  /\ parser.pos \in Nat /\ Len(Now.text) \in Nat /\ 0 < Len(Now.text)
         /\ parser.pos <= Len(Now.text) /\ Len(parser.parsed) \in Nat
         /\ parser.pos = Len(Now.text) \/ Len(parser.parsed) >= W
  <1>1. Now.text \in Seq(Printable) /\ 0 < Len(Now.text) /\ parser.parsed \in Seq(Printable)
        /\ parser.pos \in Nat /\ parser.pos <= Len(Now.text) /\ parser.input = Now.text
    BY DEF FieldText, FieldParser
  <1>2. Len(Now.text) \in Nat /\ Len(parser.parsed) \in Nat
    BY <1>1
  <1>3. ~(parser.pos < Len(Now.text) /\ Len(parser.parsed) < W)
    BY <1>1 DEF Reading
  <1>4. QED BY <1>1, <1>2, <1>3, TextAssumption

\* A part is asked for.
LEMMA AsksForPart ==
  ASSUME DInv, ReadInv, phase = "parse", WantsPart, phase' = "await",
         UNCHANGED <<doc, part, screens, max_pages, current_screen, current_page, parser, pages>>
  PROVE  ReadInv'
  <1>1. /\ LayoutInv /\ PlaceInv /\ TitleInv /\ FieldInv /\ PagesInv /\ SaidInv
        /\ OnScreen /\ 0 < current_screen
        /\ current_screen < Len(screens) => Line(Now)
    BY AtPageEnd
  <1>2. PICK n, m \in Nat : n = Len(screens) /\ m = current_screen /\ m <= n
    BY AtPageEnd
  <1>3. current_screen = Len(screens)
    <2>1. CASE Now.is_multicall
      BY <1>1, <1>2, <2>1 DEF Line
    <2>2. CASE ~Now.is_multicall
      BY <2>2 DEF WantsPart, num_screens
    <2>3. QED BY <2>1, <2>2
  <1>4. PlaceInv'
    BY <1>1, <1>3 DEF PlaceInv, OnScreen
  <1>5. Now' = Now
    BY DEF Now
  <1>6. LayoutInv' /\ TitleInv' /\ FieldInv' /\ PagesInv' /\ SaidInv'
    BY <1>1, <1>5 DEF LayoutInv, TitleInv, FieldInv, PagesInv, SaidInv
  <1>7. QED BY <1>4, <1>6 DEF ReadInv

\* Nothing was read for the page of a screen: what was there is displayed again.
LEMMA NothingRead ==
  ASSUME DInv, ReadInv, phase = "parse", ~Reading, parser.parsed = <<>>,
         page_to_display <= Len(screens), Show(global_text),
         UNCHANGED <<doc, part, screens, max_pages, current_screen, current_page, parser>>
  PROVE  ReadInv'
  <1>1. /\ LayoutInv /\ PlaceInv /\ TitleInv /\ FieldInv /\ PagesInv /\ SaidInv /\ TypesInv
        /\ OnScreen /\ 0 < current_screen /\ page_to_display = current_page + 1
        /\ IsField(Now) => /\ FieldText(Now) /\ FieldParser(Now, parser) /\ parser.ret = "loop"
                           /\ current_page < current_screen =>
                                parser.parsed = SubSeq(Now.text, 1, parser.pos)
    BY AtPageEnd
  <1>2. PICK n, m, p \in Nat : n = Len(screens) /\ m = current_screen /\ p = current_page
    BY AtPageEnd
  <1>3. m = p + 1
    BY <1>1, <1>2 DEF OnScreen
  <1>4. ~IsField(Now)
    <2>1. SUFFICES ASSUME IsField(Now) PROVE FALSE
      OBVIOUS
    <2>2. p < m
      BY <1>3
    <2>3. SubSeq(Now.text, 1, parser.pos) = <<>>
      BY <1>1, <1>2, <2>1, <2>2
    <2>4. /\ parser.pos \in Nat /\ Len(Now.text) \in Nat /\ 0 < Len(Now.text)
          /\ parser.pos <= Len(Now.text)
          /\ parser.pos = Len(Now.text) \/ Len(parser.parsed) >= W
      BY <1>1, <2>1, FieldReadOut
    <2>5. Now.text \in Seq(Printable)
      BY <1>1, <2>1 DEF FieldText
    <2>6. Len(SubSeq(Now.text, 1, parser.pos)) = parser.pos
      BY <2>4, <2>5
    <2>7. Len(<<>>) = 0
      BY NothingTitled
    <2>8. QED BY <2>3, <2>4, <2>6, <2>7, TextAssumption
  <1>5. parser.title \notin Titles
    BY <1>1, <1>4 DEF TitleInv
  <1>6. /\ phase' = "idle" /\ Typed(Titles, pages') /\ Len(pages') = current_page + 1
        /\ pages'[current_page + 1][1] = parser.title
        /\ SubSeq(pages', 1, current_page) = SubSeq(pages, 1, current_page)
    BY <1>1, <1>5, PageShown
  <1>7. Now' = Now
    BY DEF Now
  <1>8. PlaceInv'
    BY <1>1, <1>2, <1>3, <1>4, <1>6, <1>7 DEF PlaceInv, Seeking, AfterScreen
  <1>9. PagesInv'
    <2>1. ASSUME NEW i \in (current_page + 1)..Len(pages') PROVE pages'[i][1] \notin Titles
      <3>1. i = current_page + 1
        BY <1>2, <1>6
      <3>2. QED BY <1>5, <1>6, <3>1
    <2>2. current_page <= Len(pages')
      BY <1>2, <1>6
    <2>3. QED BY <1>6, <2>1, <2>2 DEF PagesInv
  <1>10. LayoutInv' /\ TitleInv' /\ FieldInv'
    BY <1>1, <1>4, <1>7 DEF LayoutInv, TitleInv, FieldInv
  <1>11. SaidInv'
    <2>1. SUFFICES ASSUME NEW T \in SUBSET Titles
                   PROVE  Follows(T, pages', current_page, screens, current_screen, parser)
      BY DEF SaidInv
    <2>2. Follows(T, pages, current_page, screens, current_screen, parser)
      BY <1>1 DEF SaidInv
    <2>3. QED BY <1>6, <2>2 DEF Follows
  <1>12. QED BY <1>8, <1>9, <1>10, <1>11 DEF ReadInv

\* What the next page has of a text, and what is left of it.
Rest == SubSeq(parser.parsed, W + 1, Len(parser.parsed))

\* The page of a field has no dots.
LEMMA FieldPage ==
  ASSUME DInv, ReadInv, phase = "parse", IsField(Now)
  PROVE  /\ PageText(current_page + 1) \in Seq(Printable) /\ Rest \in Seq(Printable)
         /\ PageText(current_page + 1) \o Rest = parser.parsed
         /\ Len(parser.parsed) <= W => Rest = <<>>
  <1>1. /\ LayoutInv /\ OnScreen /\ 0 < current_screen
        /\ IsField(Now) => FieldParser(Now, parser)
    BY AtPageEnd
  <1>2. PICK n, m, p \in Nat : n = Len(screens) /\ m = current_screen /\ p = current_page /\ m <= n
    BY AtPageEnd
  <1>3. ~AtMaxPages(current_page + 1)
    <2>1. max_pages \in Nat
      BY <1>1 DEF LayoutInv
    <2>2. CASE m < n
      <3>1. p + 1 < n
        BY <1>1, <1>2, <2>2 DEF OnScreen
      <3>2. ~(p + 1 - n >= max_pages)
        BY <2>1, <3>1
      <3>3. QED BY <1>2, <3>2 DEF AtMaxPages, num_screens
    <2>3. CASE m = n
      <3>1. Now = LastScreen(screens)
        BY <1>2, <2>3 DEF Now, LastScreen
      <3>2. max_pages = 0
        BY <1>1, <3>1 DEF LayoutInv
      <3>3. QED BY <3>2 DEF AtMaxPages
    <2>4. QED BY <1>2, <2>2, <2>3
  <1>4. parser.parsed \in Seq(Printable)
    BY <1>1 DEF FieldParser
  <1> DEFINE s == SubSeq(parser.parsed, 1, Shorter(W, Len(parser.parsed)))
  <1>5. PageText(current_page + 1) = s
    BY <1>3 DEF PageText
  <1>6. W \in Nat
    BY TextAssumption
  <1>7. /\ s \in Seq(Printable) /\ Rest \in Seq(Printable) /\ s \o Rest = parser.parsed
        /\ Len(parser.parsed) <= W => Rest = <<>>
    BY <1>4, <1>6, SplitText DEF Rest
  <1>8. QED BY <1>5, <1>7

\* What was read is displayed.
LEMMA PageRead ==
  ASSUME DInv, ReadInv, HasFields(parser), phase = "parse", ~Reading, current_page' = current_page + 1,
         Show(PageText(current_page + 1)), parser' = [parser EXCEPT !.parsed = Rest],
         UNCHANGED <<doc, part, screens, max_pages, current_screen>>
  PROVE  ReadInv'
  <1>1. /\ LayoutInv /\ PlaceInv /\ TitleInv /\ FieldInv /\ PagesInv /\ SaidInv /\ TypesInv
        /\ Legend(screens) /\ OnScreen /\ 0 < current_screen /\ page_to_display = current_page + 1
        /\ IsField(Now) => /\ FieldText(Now) /\ FieldParser(Now, parser) /\ parser.ret = "loop"
                           /\ current_page < current_screen =>
                                parser.parsed = SubSeq(Now.text, 1, parser.pos)
        /\ current_screen < Len(screens) => Line(Now)
    BY AtPageEnd
  <1>2. PICK n, m, p \in Nat : /\ n = Len(screens) /\ m = current_screen /\ p = current_page
                               /\ 0 < m /\ m <= n
    BY AtPageEnd
  <1> DEFINE text == PageText(current_page + 1)
  <1>3. /\ parser'.title = parser.title /\ parser'.input = parser.input
        /\ parser'.pos = parser.pos /\ parser'.parsed = Rest
        /\ parser'.last_utf8_char = parser.last_utf8_char
        /\ parser'.in_hex = parser.in_hex /\ parser'.already_in_hex = parser.already_in_hex
    BY DEF HasFields
  <1>4. Now' = Now
    BY DEF Now
  <1>5. /\ parser.title \in Titles <=> IsField(Now)
        /\ IsField(Now) => parser.title = Now.title
    BY <1>1 DEF TitleInv
  <1>6. IsField(Now) => /\ text \in Seq(Printable) /\ Rest \in Seq(Printable)
                        /\ text \o Rest = parser.parsed
                        /\ Len(parser.parsed) <= W => Rest = <<>>
    BY FieldPage
  <1> HIDE DEF text
  <1>7. /\ phase' = "idle" /\ Typed(Titles, pages') /\ Len(pages') = current_page + 1
        /\ \A T \in SUBSET Titles :
             /\ Under(T, SubSeq(pages, 1, current_page)) \in Seq(Printable)
             /\ Under(T, SubSeq(pages', 1, current_page + 1))
                  = Under(T, SubSeq(pages, 1, current_page)) \o Said(T, <<parser.title, text>>)
    <2>1. Show(text) /\ (parser.title \in Titles => text \in Seq(Printable))
      BY <1>5, <1>6 DEF text
    <2>2. QED BY <1>1, <2>1, PageShown
  <1>8. (p < n /\ m = p + 1) \/ (p >= n /\ m = n)
    BY <1>1, <1>2 DEF OnScreen
  <1>9. PlaceInv'
    <2>1. (p + 1 < n /\ m = p + 1) \/ (p + 1 >= n /\ m = n)
      BY <1>2, <1>8
    <2>2. QED BY <1>2, <1>7, <2>1 DEF PlaceInv, Seeking, AfterScreen
  <1>10. LayoutInv' /\ TitleInv'
    BY <1>1, <1>3, <1>4 DEF LayoutInv, TitleInv
  <1>11. PagesInv'
    <2>1. \A i \in (current_page' + 1)..Len(pages') : pages'[i][1] \notin Titles
      BY <1>2, <1>7
    <2>2. current_page' <= Len(pages')
      BY <1>2, <1>7
    <2>3. QED BY <1>7, <2>1, <2>2 DEF PagesInv
  <1>12. FieldInv'
    <2>1. SUFFICES ASSUME IsField(Now)
                   PROVE  /\ FieldParser(Now, parser')
                          /\ current_screen < Len(screens) =>
                               parser'.pos = Len(Now.text) /\ parser'.parsed = <<>>
      <3>1. ~(current_page' < current_screen')
        BY <1>2, <1>8
      <3>2. QED BY <1>4, <1>7, <3>1 DEF FieldInv
    <2>2. FieldParser(Now, parser')
      BY <1>1, <1>3, <1>6, <2>1 DEF FieldParser
    <2>3. ASSUME current_screen < Len(screens)
          PROVE  parser'.pos = Len(Now.text) /\ parser'.parsed = <<>>
      <3>1. m = p + 1 /\ p < m
        BY <1>2, <1>8, <2>3
      <3>2. parser.parsed = SubSeq(Now.text, 1, parser.pos) /\ FieldText(Now)
        BY <1>1, <1>2, <2>1, <3>1
      <3>3. /\ parser.pos \in Nat /\ Len(Now.text) \in Nat /\ parser.pos <= Len(Now.text)
            /\ parser.pos = Len(Now.text) \/ Len(parser.parsed) >= W
        BY <1>1, <2>1, FieldReadOut
      <3>4. Len(Now.text) <= W /\ Now.text \in Seq(Printable)
        BY <1>1, <2>1, <2>3, <3>2 DEF Line, FieldText
      <3>5. Len(parser.parsed) = parser.pos
        BY <3>2, <3>3, <3>4
      <3>6. parser.pos = Len(Now.text) /\ Len(parser.parsed) <= W
        BY <3>3, <3>4, <3>5, TextAssumption
      <3>7. QED BY <1>3, <1>6, <2>1, <3>6
    <2>4. QED BY <2>2, <2>3
  <1>13. SaidInv'
    <2>1. SUFFICES ASSUME NEW T \in SUBSET Titles
                   PROVE  Follows(T, pages', current_page + 1, screens, current_screen, parser')
      BY DEF SaidInv
    <2> DEFINE shown == Under(T, SubSeq(pages, 1, current_page))
               now   == Under(T, SubSeq(pages', 1, current_page + 1))
               read  == Under(T, Entries(SubSeq(screens, 1, current_screen - 1)))
               page  == <<parser.title, text>>
    <2>2. shown \in Seq(Printable) /\ now = shown \o Said(T, page)
      BY <1>7
    <2>3. page[1] = parser.title /\ page[2] = text
      OBVIOUS
    <2>4. Follows(T, pages, current_page, screens, current_screen, parser)
      BY <1>1 DEF SaidInv
    <2> HIDE DEF shown, now, read, page
    <2>5. CASE Now.title \in T
      <3>1. IsField(Now) /\ parser.title \in T
        BY <1>5, <2>5 DEF IsField
      <3>2. now = shown \o text
        BY <2>2, <2>3, <3>1 DEF Said
      <3>3. shown \o parser.parsed = read \o SubSeq(Now.text, 1, parser.pos)
        BY <2>4, <2>5 DEF Follows, Now, shown, read
      <3>4. (shown \o text) \o Rest = shown \o (text \o Rest)
        <4>1. shown \in Seq(Printable) /\ text \in Seq(Printable) /\ Rest \in Seq(Printable)
          BY <1>6, <2>2, <3>1
        <4>2. QED BY ONLY <4>1, Associate
      <3>5. now \o parser'.parsed = read \o SubSeq(Now.text, 1, parser'.pos)
        BY <1>3, <1>6, <3>1, <3>2, <3>3, <3>4, Zenon
      <3>6. QED BY <2>5, <3>5 DEF Follows, Now, now, read
    <2>6. CASE Now.title \notin T
      <3>1. parser.title \notin T
        BY <1>5, <2>6 DEF IsField
      <3>2. Said(T, page) = <<>>
        BY <2>3, <3>1 DEF Said
      <3>3. shown \o <<>> = shown
        BY <2>2
      <3>4. now = shown /\ shown = read
        BY <2>2, <2>4, <2>6, <3>2, <3>3 DEF Follows, Now, shown, read
      <3>5. QED BY <2>6, <3>4 DEF Follows, Now, now, read
    <2>7. QED BY <2>5, <2>6
  <1>14. QED BY <1>9, <1>10, <1>11, <1>12, <1>13 DEF ReadInv

LEMMA EndOfPageRead ==
  ASSUME DInv, FInv, EndOfPage
  PROVE  FInv'
  <1>1. /\ phase = "parse" /\ ~Reading /\ Filled
        /\ UNCHANGED <<doc, part, screens, max_pages, current_screen>>
    BY DEF EndOfPage, documentVars, screenVars, Filled, Waiting
  <1>2. \/ WantsPart /\ phase' = "await" /\ UNCHANGED <<parser, current_page, pages>>
        \/ /\ parser.parsed = <<>> /\ page_to_display <= num_screens
           /\ Show(global_text) /\ UNCHANGED <<parser, current_page>>
        \/ /\ page_to_display > num_screens
           /\ SeekPage(parser, current_page, part) /\ UNCHANGED <<pages, current_page>>
        \/ /\ current_page' = current_page + 1 /\ Show(PageText(current_page + 1))
           /\ parser' = [parser EXCEPT !.parsed = Rest]
    BY DEF EndOfPage, Rest
  <1>3. HasFields(parser')
    <2>1. HasFields(parser)
      BY DEF FInv
    <2>2. QED BY <1>2, <2>1 DEF SeekPage, parse_next_page, HasFields
  <1>4. SUFFICES ASSUME Sound' PROVE ReadInv'
    BY <1>3 DEF FInv
  <1>5. ReadInv /\ HasFields(parser)
    BY <1>1, <1>4, SameScreens
  <1>6. CASE WantsPart /\ phase' = "await" /\ UNCHANGED <<parser, current_page, pages>>
    BY <1>1, <1>5, <1>6, AsksForPart
  <1>7. CASE /\ parser.parsed = <<>> /\ page_to_display <= num_screens
             /\ Show(global_text) /\ UNCHANGED <<parser, current_page>>
    BY <1>1, <1>5, <1>7, NothingRead DEF num_screens
  <1>8. CASE /\ page_to_display > num_screens
             /\ SeekPage(parser, current_page, part) /\ UNCHANGED <<pages, current_page>>
    <2>1. OnScreen /\ page_to_display = current_page + 1 /\ TypesInv
      BY <1>1, <1>5, AtPageEnd
    <2>2. PICK n, m, p \in Nat : n = Len(screens) /\ m = current_screen /\ p = current_page
                                 /\ p <= Len(pages)
      BY <1>1, <1>5, AtPageEnd
    <2>3. m = n /\ n <= p /\ p <= p
      BY <1>8, <2>1, <2>2 DEF OnScreen, num_screens
    <2>4. QED BY <1>1, <1>5, <1>8, <2>1, <2>2, <2>3, SeekRead
  <1>9. CASE /\ current_page' = current_page + 1 /\ Show(PageText(current_page + 1))
             /\ parser' = [parser EXCEPT !.parsed = Rest]
    BY <1>1, <1>5, <1>9, PageRead
  <1>10. QED BY <1>2, <1>6, <1>7, <1>8, <1>9

LEMMA InitRead == Init => FInv
  <1> SUFFICES ASSUME Init PROVE FInv
    OBVIOUS
  <1>1. HasFields(parser)
    BY DEF Init, HasFields, reset_text_parser
  <1>2. ~Filled
    BY DEF Init, Filled, Waiting
  <1>3. QED BY <1>1, <1>2 DEF FInv

LEMMA StopRead ==
  ASSUME FInv, UNCHANGED vars
  PROVE  FInv'
  <1>1. UNCHANGED <<doc, part, phase, sw, screens, max_pages, current_screen, current_page,
                    page_to_display, parser, global_text, pages, restarted>>
    BY DEF vars, documentVars, screenVars, pageVars, shownVars
  <1>2. /\ LayoutInv' = LayoutInv /\ PlaceInv' = PlaceInv /\ TitleInv' = TitleInv
        /\ FieldInv' = FieldInv /\ PagesInv' = PagesInv /\ SaidInv' = SaidInv
    BY <1>1 DEF LayoutInv, PlaceInv, TitleInv, FieldInv, PagesInv, SaidInv,
                OnScreen, AfterScreen, Seeking, IsDeploy, Now
  <1>3. Filled' = Filled /\ Sound' = Sound
    BY <1>1 DEF Filled, Waiting, IsDeploy, Sound, LastIsPayload, num_screens
  <1>4. QED BY <1>1, <1>2, <1>3 DEF FInv, ReadInv

LEMMA NextRead == DInv /\ FInv /\ [Next]_vars => (DInv /\ FInv)'
  <1> SUFFICES ASSUME DInv, FInv, [Next]_vars PROVE DInv' /\ FInv'
    OBVIOUS
  <1>1. DInv'
    BY NextDInv
  <1>2. CASE FirstPart \/ DeployPart
    BY <1>1, <1>2, FirstPartRead, DeployPartRead
  <1>3. CASE PayloadPart \/ NextPress
    BY <1>1, <1>3, PayloadPartRead, NextPressRead
  <1>4. CASE Parse
    BY <1>1, <1>4, ParseRead, EndOfPageRead DEF Parse
  <1>5. CASE UNCHANGED vars
    BY <1>1, <1>5, StopRead
  <1>6. QED BY <1>1, <1>2, <1>3, <1>4, <1>5 DEF Next, Stop

LEMMA ReadHolds == Spec => [](DInv /\ FInv)
  BY InitDInv, InitRead, NextRead, PTL DEF Spec

\* When the review is over the fields have been read to their end.
LEMMA AllRead ==
  ASSUME DInv, ReadInv, phase = "ended", NEW T \in SUBSET Titles
  PROVE  Under(T, pages) = Under(T, Entries(screens))
  <1>1. /\ LayoutInv /\ PlaceInv /\ FieldInv /\ PagesInv /\ SaidInv /\ Legend(screens)
        /\ TypesInv /\ T \subseteq Titles
    BY LayoutLegend DEF ReadInv, DInv
  <1>2. PICK n, p \in Nat : /\ n = Len(screens) /\ p = current_page
                            /\ 0 < n /\ p <= Len(pages) /\ Len(pages) \in Nat
    <2>1. Len(screens) \in Nat /\ 0 < Len(screens) /\ current_page \in Nat /\ Len(pages) \in Nat
          /\ current_page <= Len(pages)
      BY <1>1, LayoutLegend, LenIsNat DEF TypesInv, PagesInv
    <2>2. QED BY <2>1
  <1>3. current_screen = n /\ Now = LastScreen(screens) /\ 0 < current_screen
        /\ n \in 1..Len(screens)
    BY <1>1, <1>2 DEF PlaceInv, Now, LastScreen
  <1>4. Typed(Titles, pages) /\ \A i \in (p + 1)..Len(pages) : pages[i][1] \notin Titles
    BY <1>1, <1>2 DEF PagesInv
  <1>5. Follows(T, pages, p, screens, n, parser)
    BY <1>1, <1>2, <1>3 DEF SaidInv
  <1>6. screens[n].title \in T => parser.parsed = <<>> /\ parser.pos = Len(screens[n].text)
    BY <1>1, <1>3 DEF FieldInv, IsField, Now
  <1>7. Under(T, SubSeq(pages, 1, p)) = Read(T, screens, n)
    BY <1>1, <1>2, <1>3, <1>4, <1>5, <1>6, FollowsEnd
  <1>8. Read(T, screens, n) = Under(T, Entries(screens))
    <2>1. 0 < Len(screens)
      BY <1>2
    <2>2. Read(T, screens, Len(screens)) = Under(T, Entries(screens))
      BY ONLY <1>1, <2>1, ReadNext
    <2>3. QED BY <1>2, <2>2
  <1>9. Under(T, SubSeq(pages, 1, Len(pages))) = Under(T, SubSeq(pages, 1, p))
    <2>1. Len(pages) <= Len(pages)
      BY <1>2
    <2>2. QED BY <1>1, <1>2, <1>4, <2>1, BeyondFields
  <1>10. SubSeq(pages, 1, Len(pages)) = pages
    BY <1>2, <1>4, UnderFirst
  <1>11. QED BY <1>7, <1>8, <1>9, <1>10

\* Whatever the transaction, the parts it comes in and the width of the display,
\* a user who has gone through a review has read the whole amount and the whole
\* address: no character of theirs is missing, doubled or out of place, however
\* the fields are cut into lines and the lines into screens (selection.h:34).
THEOREM FieldsAreAlwaysShown == Spec => []FieldsAreShown
  <1>1. DInv /\ FInv => FieldsAreShown
    <2> SUFFICES ASSUME DInv, FInv, phase = "ended", CleanCut(doc), doc.t.address \in Seq(Printable)
                 PROVE  /\ ShowsAmount(doc.t) => Under(AmountTitles, pages) = doc.t.amount
                        /\ ShowsAddress(doc.t) => Under(AddressTitles, pages) = doc.t.address
      BY DEF FieldsAreShown, ShowsAmount, ShowsAddress
    <2>1. Filled /\ Sound
      BY DEF Filled, Waiting, Sound, CleanCut
    <2>2. ReadInv /\ LayoutInv
      BY <2>1 DEF FInv, ReadInv
    <2>3. /\ Under(AmountTitles, pages) = Under(AmountTitles, Entries(screens))
          /\ Under(AddressTitles, pages) = Under(AddressTitles, Entries(screens))
      BY <2>2, TwoTitles, AllRead
    <2>4. QED BY <2>2, <2>3 DEF LayoutInv
  <1>2. QED BY <1>1, ReadHolds, PTL

----------------------------------------------------------------------------
(***************************************************************************)
(* The pages of a text that comes in parts.  For a transfer or a           *)
(* governance transaction whose payload shows a text of ASCII characters   *)
(* (TextDocument), the invariant TextInv says what the pages displayed so  *)
(* far are, page by page (BookInv), and that the text parser has read a    *)
(* beginning of the payload and holds the glyphs of it that are not yet on *)
(* a page (Reads).  PagesAreOfWholeText follows at each press.             *)
(***************************************************************************)
ASCII == 0..127

Block(d)   == d.blocks[1]
Chars(d)   == Block(d).chars
Bytes(d)   == d.t.payload.bytes
Total(d)   == Len(Bytes(d))

\* The end of the payload is no text.
Trimmed(d) == d.t.type = "governance"

\* The bytes of the payload before the text.
Lead(d) == IF Trimmed(d) THEN ArgsAt(d.t) ELSE 0

Function(t) == Match(TableOf(t.recipient), t.payload.name)
TitleOf(d)  == IF Trimmed(d) THEN TableOf(d.t.recipient)[Function(d.t)].title ELSE "Payload"

\* A transfer, a normal transaction or one for a governance contract whose
\* payload, or the arguments in it, is a text of ASCII characters to be displayed
\* as it is.  The last two bytes of a governance payload are the end of its JSON.
TextDocument(d) ==
  /\ d.t.type \in {"transfer", "normal", "governance"}
  /\ d.t.payload # NoPayload /\ d.t.address \in Seq(Printable)
  /\ Len(d.blocks) = 1 /\ (Trimmed(d) => Function(d.t) # 0)
  /\ Block(d).format = "text" /\ Block(d).lead = <<>> /\ Block(d).title = TitleOf(d)
  /\ Chars(d) \in Seq(ASCII) /\ Chars(d) # <<>>
  /\ d.t.payload.name_len \in Nat
  /\ TitleOf(d) \notin {"Stake", "Unstake"}
  /\ Bytes(d) \in Seq(0..255)
  /\ Total(d) = Lead(d) + Len(Chars(d)) + (IF Trimmed(d) THEN 2 ELSE 0)
  /\ \A i \in 1..Len(Chars(d)) : Bytes(d)[Lead(d) + i] = Chars(d)[i]
  /\ Trimmed(d) => Bytes(d)[Lead(d) + Len(Chars(d)) + 1] \in ASCII

----------------------------------------------------------------------------
\* What character i of a text gives, with the bracket that opens or closes the
\* hexadecimal before it, and what the first k of them give.
TextGlyphs(cs, i) ==
  LET hex    == InHexAt(cs, i)
      before == i > 1 /\ InHexAt(cs, i - 1)
  IN  (IF hex = before THEN <<>> ELSE IF hex THEN <<60>> ELSE <<62>>) \o Glyphs(cs[i], hex)

Gl(cs, k) == FlattenSeq([i \in 1..k |-> TextGlyphs(cs, i)])
Full(cs) == Gl(cs, Len(cs))

\* The bytes of the payload before the text of part k, and that text.
Base(d, k) == IF k = 1 THEN Lead(d) ELSE d.cut[k-1]
Text(d, k) == SubSeq(Bytes(d), Base(d, k) + 1, d.cut[k])

\* The page of the text with the number m, dotted or not.
Slice(g, m) == SubSeq(g, From(m) + 1, To(m, g))
TextPage(d, m) ==
  LET q == <<Block(d).title, Slice(Full(Chars(d)), m)>>
  IN  IF max_pages > 0 /\ m > max_pages /\ Len(q[2]) > 5 THEN Dotted(q) ELSE q

\* No part ends between the two bytes that are trimmed.
Clean(d) == Trimmed(d) => \A k \in 1..(Len(d.cut) - 1) : d.cut[k] # Total(d) - 1

\* The bytes of the payload that t has passed in part k, and the characters
\* of the text among them.
Passage(d, k, t) == Base(d, k) + t.pos
Count(d, k, t)   == Shorter(Passage(d, k, t) - Lead(d), Len(Chars(d)))
AllHere(d, k, t) == k = Len(d.cut) /\ t.pos >= Len(t.input)

\* What is left of a text after its first a elements.
Left(x, a) == SubSeq(x, a + 1, Len(x))

\* The characters on m pages.
On(m) == m * W

\* t has read the text in part k, and m pages of it have been displayed.
Reads(d, k, t, m) ==
  LET g == Gl(Chars(d), Count(d, k, t))
      h == InHexAt(Chars(d), Count(d, k, t))
  IN  /\ t.input = Text(d, k) /\ t.pos \in Nat
      /\ t.pos <= Len(t.input) \/ (AllHere(d, k, t) /\ Passage(d, k, t) = Total(d) + 1)
      /\ Trimmed(d) => Passage(d, k, t) # Total(d) - 1
      /\ t.last_utf8_char = 0 /\ t.title = TitleOf(d)
      /\ t.in_hex = h /\ t.already_in_hex = h
      /\ t.parsed = Left(g, On(m))
      /\ On(m) <= Len(g) \/ AllHere(d, k, t)
      /\ t.ret # "loop" => AllHere(d, k, t)

\* A screen has what the code's structure has.
IsScreen(s) == {"title", "text", "in_hex", "is_call", "is_multicall", "trim_payload"} \subseteq DOMAIN s

\* The screens: fields, and the text.
TextLayout ==
  LET s == LastScreen(screens)
  IN  /\ 0 < Len(screens) /\ \A i \in 1..(Len(screens) - 1) : IsField(screens[i])
      /\ IsScreen(s)
      /\ s.in_hex = FALSE /\ s.is_multicall = FALSE /\ s.is_call = FALSE
      /\ s.trim_payload = Trimmed(doc)
      /\ s.title = TitleOf(doc)
      /\ s.text = Text(doc, part)
      /\ 0 < part /\ Lead(doc) <= doc.cut[1]

\* The pages of the text that have been displayed.
Turned == current_page - (Len(screens) - 1)

\* Where the parser is, on the text's screen: with the pages turned it has
\* displayed the text up to here, it asks for a part only when it has read the
\* one it has, and the review ends when nothing of the text is left.
TextRead ==
  /\ Turned \in Nat /\ (Turned > 0 => On(Turned - 1) < Len(Full(Chars(doc))))
  /\ AtMaxPages(current_page) =>
       current_page = Len(screens) + max_pages /\ phase # "parse"
  /\ ~AtMaxPages(current_page) =>
       /\ Reads(doc, part, parser, Turned)
       /\ phase = "await" => parser.pos >= Len(parser.input)
       /\ phase = "ended" => AllHere(doc, part, parser) /\ parser.parsed = <<>>

\* The page that ought to be the i-th.
PageOf(i) == IF i < Len(screens) THEN Entry(screens[i]) ELSE TextPage(doc, i - (Len(screens) - 1))

\* The pages displayed are those that ought to be.
BookInv ==
  /\ Len(pages) = current_page
  /\ 1 < part => current_screen = Len(screens)
  /\ phase = "idle" /\ current_page < Len(screens) => current_screen = current_page
  /\ \A i \in 1..Len(pages) : pages[i] = PageOf(i)
  /\ current_screen = Len(screens) => TextRead

TextInv ==
  Filled /\ TextDocument(doc) =>
    TextLayout /\ (~restarted /\ Clean(doc) => BookInv)

----------------------------------------------------------------------------
\* Whether the next character is in hexadecimal.
LEMMA InHexNext ==
  ASSUME NEW cs, NEW k \in Nat, cs[k + 1] \in ASCII
  PROVE  /\ InHexAt(cs, 0) = FALSE /\ InHexAt(cs, k) \in BOOLEAN /\ InHexAt(cs, k + 1) \in BOOLEAN
         /\ InHexAt(cs, k + 1) <=> IF IsBreak(cs[k + 1]) THEN InHexAt(cs, k) ELSE cs[k + 1] < 32
  <1>1. InHexAt(cs, 0) = FALSE
    BY DEF InHexAt
  <1>2. InHexAt(cs, k) \in BOOLEAN /\ InHexAt(cs, k + 1) \in BOOLEAN
    BY DEF InHexAt
  <1>3. CASE IsBreak(cs[k + 1])
    <2>1. ASSUME InHexAt(cs, k) PROVE InHexAt(cs, k + 1)
      <3>1. PICK j \in 1..k : IsControl(cs[j]) /\ \A i \in (j+1)..k : IsBreak(cs[i])
        BY <2>1 DEF InHexAt
      <3>2. \A i \in (j+1)..(k+1) : IsBreak(cs[i])
        <4>1. ASSUME NEW i \in (j+1)..(k+1) PROVE IsBreak(cs[i])
          <5>1. i \in (j+1)..k \/ i = k + 1
            OBVIOUS
          <5>2. QED BY <1>3, <3>1, <5>1
        <4>2. QED BY <4>1
      <3>3. j \in 1..(k+1)
        OBVIOUS
      <3>4. QED BY <3>1, <3>2, <3>3 DEF InHexAt
    <2>2. ASSUME InHexAt(cs, k + 1) PROVE InHexAt(cs, k)
      <3>1. PICK j \in 1..(k+1) : IsControl(cs[j]) /\ \A i \in (j+1)..(k+1) : IsBreak(cs[i])
        BY <2>2 DEF InHexAt
      <3>2. j # k + 1
        BY <1>3, <3>1 DEF IsControl
      <3>3. j \in 1..k /\ \A i \in (j+1)..k : i \in (j+1)..(k+1)
        BY <3>2
      <3>4. QED BY <3>1, <3>3 DEF InHexAt
    <2>3. InHexAt(cs, k + 1) <=> InHexAt(cs, k)
      BY <2>1, <2>2, Zenon
    <2>4. QED BY <1>1, <1>2, <1>3, <2>3
  <1>4. CASE ~IsBreak(cs[k + 1])
    <2>1. ASSUME cs[k + 1] < 32 PROVE InHexAt(cs, k + 1)
      <3>1. IsControl(cs[k + 1]) /\ k + 1 \in 1..(k+1)
        BY <1>4, <2>1 DEF IsControl
      <3>2. \A i \in ((k+1)+1)..(k+1) : IsBreak(cs[i])
        OBVIOUS
      <3>3. QED BY <3>1, <3>2 DEF InHexAt
    <2>2. ASSUME InHexAt(cs, k + 1) PROVE cs[k + 1] < 32
      <3>1. PICK j \in 1..(k+1) : IsControl(cs[j]) /\ \A i \in (j+1)..(k+1) : IsBreak(cs[i])
        BY <2>2 DEF InHexAt
      <3>2. j = k + 1
        <4>1. j < k + 1 => k + 1 \in (j+1)..(k+1)
          OBVIOUS
        <4>2. QED BY <1>4, <3>1, <4>1
      <3>3. QED BY <3>1, <3>2 DEF IsControl
    <2>3. InHexAt(cs, k + 1) <=> cs[k + 1] < 32
      BY <2>1, <2>2, Zenon
    <2>4. QED BY <1>1, <1>2, <1>4, <2>3
  <1>5. QED BY <1>3, <1>4

\* A character gives something.
LEMMA GlyphsType ==
  ASSUME NEW c \in ASCII, NEW h \in BOOLEAN
  PROVE  Glyphs(c, h) \in Seq(Nat) /\ 0 < Len(Glyphs(c, h))
  <1>1. \A x \in 0..15 : HexDigit(x) \in Nat
    BY DEF HexDigit
  <1>2. (c \div 16) % 16 \in 0..15 /\ c % 16 \in 0..15 /\ c \in Nat /\ ~(c > 127)
    BY DEF ASCII
  <1>3. CASE h
    <2>1. Glyphs(c, h) = <<HexDigit((c \div 16) % 16), HexDigit(c % 16)>>
      BY <1>3 DEF Glyphs
    <2>2. PICK x \in Nat, y \in Nat : x = HexDigit((c \div 16) % 16) /\ y = HexDigit(c % 16)
      BY <1>1, <1>2
    <2>3. Glyphs(c, h) = <<x, y>>
      BY <2>1, <2>2, Zenon
    <2>4. <<x, y>> \in Seq(Nat) /\ Len(<<x, y>>) = 2
      OBVIOUS
    <2>5. QED BY <2>3, <2>4
  <1>4. CASE ~h
    <2>1. Glyphs(c, h) \in {<<124>>, <<32>>, <<c>>}
      BY <1>2, <1>4 DEF Glyphs
    <2>2. \A x \in Nat : <<x>> \in Seq(Nat) /\ Len(<<x>>) = 1
      OBVIOUS
    <2>3. PICK x \in Nat : Glyphs(c, h) = <<x>>
      BY <1>2, <2>1, Zenon
    <2>4. QED BY <2>2, <2>3
  <1>5. QED BY <1>3, <1>4

\* A character of the text gives something to display.
LEMMA TextGlyphsType ==
  ASSUME NEW cs \in Seq(ASCII), NEW i \in 1..Len(cs)
  PROVE  TextGlyphs(cs, i) \in Seq(Nat) /\ 0 < Len(TextGlyphs(cs, i))
  <1> DEFINE hex == InHexAt(cs, i)
             before == i > 1 /\ InHexAt(cs, i - 1)
             d == IF hex = before THEN <<>> ELSE IF hex THEN <<60>> ELSE <<62>>
  <1>1. hex \in BOOLEAN /\ cs[i] \in ASCII
    BY DEF InHexAt
  <1>2. d \in Seq(Nat)
    <2>1. d \in {<<>>, <<60>>, <<62>>}
      OBVIOUS
    <2>2. <<>> \in Seq(Nat) /\ <<60>> \in Seq(Nat) /\ <<62>> \in Seq(Nat)
      OBVIOUS
    <2>3. QED BY <2>1, <2>2
  <1>3. Glyphs(cs[i], hex) \in Seq(Nat) /\ 0 < Len(Glyphs(cs[i], hex))
    BY <1>1, GlyphsType
  <1>4. TextGlyphs(cs, i) = d \o Glyphs(cs[i], hex)
    BY DEF TextGlyphs
  <1> HIDE DEF d, hex
  <1> DEFINE e == Glyphs(cs[i], hex)
  <1> HIDE DEF e
  <1>5. d \o e \in Seq(Nat) /\ 0 < Len(d \o e)
    BY <1>2, <1>3 DEF e
  <1>6. QED BY <1>4, <1>5 DEF e

\* What k characters give, and the next.
LEMMA GlStep ==
  ASSUME NEW cs \in Seq(ASCII), NEW k \in Nat, k < Len(cs)
  PROVE  /\ Gl(cs, 0) = <<>> /\ Gl(cs, k) \in Seq(Nat) /\ Gl(cs, k + 1) \in Seq(Nat)
         /\ Gl(cs, k + 1) = Gl(cs, k) \o TextGlyphs(cs, k + 1)
  <1> DEFINE f == [i \in 1..k |-> TextGlyphs(cs, i)]
             e == TextGlyphs(cs, k + 1)
             h == [i \in 1..(k+1) |-> TextGlyphs(cs, i)]
  <1>1. k + 1 \in 1..Len(cs) /\ \A i \in 1..k : i \in 1..Len(cs)
    OBVIOUS
  <1>2. f \in Seq(Seq(Nat)) /\ Len(f) = k /\ e \in Seq(Nat)
    <2>1. \A i \in 1..k : TextGlyphs(cs, i) \in Seq(Nat)
      BY <1>1, TextGlyphsType
    <2>2. e \in Seq(Nat)
      BY <1>1, TextGlyphsType
    <2>3. QED BY <2>1, <2>2
  <1>3. h = Append(f, e)
    BY <1>2
  <1>4. FlattenSeq(h) = FlattenSeq(f) \o e /\ FlattenSeq(f) \in Seq(Nat)
    BY <1>2, <1>3, FlattenAppend, FlattenType
  <1>5. [i \in 1..0 |-> TextGlyphs(cs, i)] = <<>>
    OBVIOUS
  <1>6. Gl(cs, 0) = <<>>
    BY <1>5, FlattenEmpty DEF Gl
  <1>7. Gl(cs, k) = FlattenSeq(f) /\ Gl(cs, k + 1) = FlattenSeq(h)
    BY DEF Gl
  <1> HIDE DEF f, e, h
  <1>8. Gl(cs, k) \o e \in Seq(Nat)
    BY <1>2, <1>4, <1>7
  <1>9. QED BY <1>4, <1>6, <1>7, <1>8 DEF e

\* The glyphs of a beginning begin those of the text.
LEMMA GlBegins ==
  ASSUME NEW cs \in Seq(ASCII), NEW j \in Nat, NEW k \in Nat, j <= k, k <= Len(cs)
  PROVE  /\ Gl(cs, k) \in Seq(Nat) /\ Gl(cs, j) \in Seq(Nat)
         /\ \E z \in Seq(Nat) : Gl(cs, k) = Gl(cs, j) \o z /\ (j < k => 0 < Len(z))
  <1> DEFINE x == Gl(cs, j)
             P(i) == \E z \in Seq(Nat) : Gl(cs, j + i) = x \o z /\ (0 < i => 0 < Len(z))
             S == {i \in Nat : j + i <= Len(cs) => P(i)}
  <1>1. PICK l \in Nat : l = Len(cs)
    OBVIOUS
  <1>2. x \in Seq(Nat)
    <2>1. CASE j < Len(cs)
      BY <2>1, GlStep
    <2>2. CASE j = Len(cs) /\ j # 0
      <3>1. PICK i \in Nat : j = i + 1 /\ i < Len(cs)
        <4>1. j - 1 \in Nat /\ j = (j - 1) + 1 /\ j - 1 < l
          BY <1>1, <2>2
        <4>2. QED BY <1>1, <4>1
      <3>2. Gl(cs, i + 1) \in Seq(Nat)
        BY <3>1, GlStep
      <3>3. QED BY <3>1, <3>2
    <2>3. CASE j = 0
      <3>1. [i \in 1..0 |-> TextGlyphs(cs, i)] = <<>>
        OBVIOUS
      <3>2. Gl(cs, 0) = <<>>
        BY <3>1, FlattenEmpty DEF Gl
      <3>3. Gl(cs, j) = <<>> /\ <<>> \in Seq(Nat)
        BY <2>3, <3>2
      <3>4. QED BY <3>3, Zenon
    <2>4. QED BY <1>1, <2>1, <2>2, <2>3
  <1> HIDE DEF x
  <1>3. 0 \in S
    <2>1. x \o <<>> = x /\ <<>> \in Seq(Nat) /\ j + 0 = j /\ ~(0 < 0)
      BY <1>2
    <2>2. Gl(cs, j + 0) = x
      BY <2>1 DEF x
    <2>3. Gl(cs, j + 0) = x \o <<>>
      BY <2>1, <2>2
    <2>4. P(0)
      BY <2>1, <2>3
    <2> HIDE DEF P
    <2>5. QED BY <2>4
  <1>4. ASSUME NEW i \in Nat, i \in S PROVE i + 1 \in S
    <2>1. SUFFICES ASSUME j + (i + 1) <= Len(cs) PROVE P(i + 1)
      <3> HIDE DEF P
      <3>1. i + 1 \in Nat
        OBVIOUS
      <3>2. QED BY <3>1
    <2>2. PICK z \in Seq(Nat) : Gl(cs, j + i) = x \o z
      <3>1. j + i <= Len(cs)
        BY <1>1, <2>1
      <3>2. QED BY <1>4, <3>1
    <2>3. PICK q \in Nat : q = j + i /\ q < Len(cs) /\ q + 1 = j + (i + 1)
      <3>1. j + i \in Nat /\ j + i < l /\ (j + i) + 1 = j + (i + 1)
        BY <1>1, <2>1
      <3>2. QED BY <1>1, <3>1
    <2>4. Gl(cs, q + 1) = Gl(cs, q) \o TextGlyphs(cs, q + 1)
      BY <2>3, GlStep
    <2>5. PICK e \in Seq(Nat) : e = TextGlyphs(cs, q + 1) /\ 0 < Len(e)
      <3>1. q + 1 \in 1..Len(cs)
        BY <2>3
      <3>2. QED BY <3>1, TextGlyphsType
    <2>6. (x \o z) \o e = x \o (z \o e)
      BY <1>2, Associate
    <2>7. z \o e \in Seq(Nat) /\ 0 < Len(z \o e)
      BY <2>5
    <2>8. Gl(cs, j + (i + 1)) = x \o (z \o e)
      BY <2>2, <2>3, <2>4, <2>5, <2>6
    <2> HIDE DEF S
    <2>9. QED BY <2>7, <2>8
  <1>5. \A i \in Nat : i \in S
    <2> HIDE DEF S
    <2>1. QED BY <1>3, <1>4, SetInduction
  <1>6. PICK i \in Nat : k = j + i /\ (j < k => 0 < i)
    <2>1. k - j \in Nat /\ k = j + (k - j) /\ (j < k => 0 < k - j)
      OBVIOUS
    <2>2. QED BY <2>1
  <1>7. P(i)
    <2>1. j + i <= Len(cs)
      BY <1>6
    <2>2. QED BY <1>5, <2>1
  <1>8. PICK z \in Seq(Nat) : Gl(cs, k) = x \o z /\ (j < k => 0 < Len(z))
    BY <1>6, <1>7
  <1>9. x \o z \in Seq(Nat)
    BY <1>2
  <1>10. QED BY <1>2, <1>8, <1>9 DEF x

\* A slice of a beginning.
LEMMA SliceOfBeginning ==
  ASSUME NEW S, NEW x \in Seq(S), NEW z \in Seq(S), NEW a \in Nat, 0 < a, NEW b \in Nat, b <= Len(x)
  PROVE  SubSeq(x \o z, a, b) = SubSeq(x, a, b)
  <1> DEFINE y == x \o z
  <1>1. y \in Seq(S) /\ Len(y) = Len(x) + Len(z) /\ \A i \in 1..Len(x) : y[i] = x[i]
    OBVIOUS
  <1> HIDE DEF y
  <1>2. CASE a <= b
    <2> DEFINE p == SubSeq(y, a, b)
               q == SubSeq(x, a, b)
    <2>1. /\ p \in Seq(S) /\ Len(p) = b - a + 1 /\ \A i \in 1..(b - a + 1) : p[i] = y[a + i - 1]
          /\ q \in Seq(S) /\ Len(q) = b - a + 1 /\ \A i \in 1..(b - a + 1) : q[i] = x[a + i - 1]
      BY <1>1, <1>2
    <2>2. \A i \in 1..(b - a + 1) : p[i] = q[i]
      <3>1. \A i \in 1..(b - a + 1) : a + i - 1 \in 1..Len(x)
        BY <1>2
      <3>2. QED BY <1>1, <2>1, <3>1
    <2> HIDE DEF p, q
    <2>3. p = q
      BY <2>1, <2>2
    <2>4. QED BY <2>3 DEF p, q, y
  <1>3. CASE b < a
    <2>1. SubSeq(y, a, b) = <<>> /\ SubSeq(x, a, b) = <<>>
      BY <1>1, <1>3
    <2>2. QED BY <2>1 DEF y
  <1>4. QED BY <1>2, <1>3

\* The rest of a text, when something is added to it.
LEMMA RestGrows ==
  ASSUME NEW S, NEW x \in Seq(S), NEW e \in Seq(S), NEW a \in Nat, a <= Len(x)
  PROVE  SubSeq(x \o e, a + 1, Len(x \o e)) = SubSeq(x, a + 1, Len(x)) \o e
  <1> DEFINE y == x \o e
             p == SubSeq(y, a + 1, Len(y))
             q == SubSeq(x, a + 1, Len(x))
  <1>1. PICK lx \in Nat, le \in Nat : lx = Len(x) /\ le = Len(e)
    OBVIOUS
  <1>2. /\ y \in Seq(S) /\ Len(y) = lx + le
        /\ \A i \in 1..lx : y[i] = x[i]
        /\ \A i \in 1..le : y[lx + i] = e[i]
    BY <1>1
  <1> HIDE DEF y
  <1>3. p \in Seq(S) /\ Len(p) = lx + le - a /\ \A i \in 1..(lx + le - a) : p[i] = y[a + i]
    BY <1>1, <1>2
  <1>4. q \in Seq(S) /\ Len(q) = lx - a /\ \A i \in 1..(lx - a) : q[i] = x[a + i]
    BY <1>1
  <1> HIDE DEF p, q
  <1>5. \A i \in 1..Len(q) : p[i] = q[i]
    <2>1. \A i \in 1..(lx - a) : i \in 1..(lx + le - a) /\ a + i \in 1..lx
      BY <1>1
    <2>2. QED BY <1>2, <1>3, <1>4, <2>1
  <1>6. \A i \in 1..Len(e) : p[Len(q) + i] = e[i]
    <2>1. ASSUME NEW i \in 1..le PROVE p[(lx - a) + i] = e[i]
      <3>1. (lx - a) + i \in 1..(lx + le - a) /\ a + ((lx - a) + i) = lx + i
        BY <1>1
      <3>2. QED BY <1>2, <1>3, <3>1
    <2>2. QED BY <1>1, <1>4, <2>1
  <1>7. Len(p) = Len(q) + Len(e)
    BY <1>1, <1>3, <1>4
  <1>8. p = q \o e
    BY <1>3, <1>4, <1>5, <1>6, <1>7, SequencesJoined
  <1>9. QED BY <1>8 DEF p, q, y

\* What is left of a text has the elements after those taken.
LEMMA LeftFacts ==
  ASSUME NEW S, NEW x \in Seq(S), NEW a \in Nat
  PROVE  /\ Left(x, a) \in Seq(S) /\ Len(Left(x, a)) \in Nat /\ Len(x) \in Nat
         /\ a <= Len(x) => Len(Left(x, a)) = Len(x) - a
         /\ a >= Len(x) => Left(x, a) = <<>> /\ Len(Left(x, a)) = 0
         /\ Left(x, a) = <<>> => a >= Len(x)
         /\ Left(x, 0) = x
         /\ \A i \in 1..(Len(x) - a) : Left(x, a)[i] = x[a + i]
  <1>1. PICK n \in Nat : n = Len(x)
    OBVIOUS
  <1>2. CASE a <= n
    <2>1. /\ Left(x, a) \in Seq(S) /\ Len(Left(x, a)) = n - a
          /\ \A i \in 1..(n - a) : Left(x, a)[i] = x[a + i]
      BY <1>1, <1>2 DEF Left
    <2>2. Left(x, 0) = x
      BY <1>1 DEF Left
    <2>3. Left(x, a) = <<>> => n - a = 0
      BY <2>1
    <2>4. a >= n => Left(x, a) = <<>>
      BY <1>1, <1>2, <2>1
    <2>5. n - a \in Nat /\ (a >= n => n - a = 0)
      BY <1>2
    <2>6. QED BY <1>1, <1>2, <2>1, <2>2, <2>3, <2>4, <2>5
  <1>3. CASE a > n
    <2>1. Left(x, a) = <<>> /\ Left(x, 0) = x
      BY <1>1, <1>3 DEF Left
    <2>2. <<>> \in Seq(S) /\ Len(<<>>) = 0
      OBVIOUS
    <2>3. (1..(n - a)) = {} /\ ~(a <= n)
      BY <1>3
    <2>4. QED BY <1>1, <1>3, <2>1, <2>2, <2>3
  <1>4. QED BY <1>1, <1>2, <1>3

\* What is left of what is left.
LEMMA LeftTwice ==
  ASSUME NEW S, NEW x \in Seq(S), NEW a \in Nat, NEW b \in Nat
  PROVE  Left(Left(x, a), b) = Left(x, a + b)
  <1> DEFINE y == Left(x, a)
             p == Left(y, b)
             q == Left(x, a + b)
  <1>1. PICK n \in Nat : n = Len(x)
    OBVIOUS
  <1>2. a + b \in Nat
    OBVIOUS
  <1>3. CASE a + b <= n
    <2>0. a <= n /\ b <= n - a
      BY <1>3
    <2>1. y \in Seq(S) /\ Len(y) = n - a /\ \A i \in 1..(n - a) : y[i] = x[a + i]
      BY <1>1, <2>0, LeftFacts
    <2> HIDE DEF y
    <2>2. /\ p \in Seq(S) /\ Len(p) = (n - a) - b
          /\ \A i \in 1..((n - a) - b) : p[i] = y[b + i]
      <3>1. PICK l \in Nat : l = n - a /\ l = Len(y) /\ b <= l
        BY <1>3, <2>0, <2>1
      <3>2. /\ p \in Seq(S) /\ Len(p) = Len(y) - b
            /\ \A i \in 1..(Len(y) - b) : p[i] = y[b + i]
        <4>1. y \in Seq(S) /\ b <= Len(y) /\ b \in Nat
          BY <2>1, <3>1
        <4>2. QED BY ONLY <4>1, LeftFacts
      <3>3. QED BY <3>1, <3>2
    <2>3. /\ q \in Seq(S) /\ Len(q) = n - (a + b)
          /\ \A i \in 1..(n - (a + b)) : q[i] = x[(a + b) + i]
      BY <1>1, <1>2, <1>3, LeftFacts
    <2> HIDE DEF p, q
    <2>4. ASSUME NEW i \in 1..(n - (a + b)) PROVE p[i] = q[i]
      <3>1. i \in 1..((n - a) - b) /\ b + i \in 1..(n - a) /\ a + (b + i) = (a + b) + i
        BY <1>3
      <3>2. QED BY <2>1, <2>2, <2>3, <3>1
    <2>5. Len(p) = Len(q)
      BY <2>2, <2>3
    <2>6. p = q
      BY <2>2, <2>3, <2>4, <2>5
    <2>7. QED BY <2>6 DEF p, q, y
  <1>4. CASE a + b > n
    <2>1. q = <<>>
      BY <1>1, <1>2, <1>4, LeftFacts
    <2>2. y \in Seq(S) /\ Len(y) \in Nat /\ b >= Len(y)
      <3>1. CASE a <= n
        <4>1. y \in Seq(S) /\ Len(y) = n - a
          BY <1>1, <3>1, LeftFacts
        <4>2. QED BY <1>4, <3>1, <4>1
      <3>2. CASE a > n
        <4>1. y \in Seq(S) /\ Len(y) = 0
          BY <1>1, <3>2, LeftFacts
        <4>2. QED BY <4>1
      <3>3. QED BY <3>1, <3>2
    <2> HIDE DEF y
    <2>3. p = <<>>
      BY <2>2, LeftFacts
    <2>4. QED BY <2>1, <2>3 DEF y
  <1>5. QED BY <1>3, <1>4

\* The beginning of what is left.
LEMMA LeftFront ==
  ASSUME NEW S, NEW x \in Seq(S), NEW a \in Nat, NEW k \in Nat, a + k <= Len(x)
  PROVE  SubSeq(Left(x, a), 1, k) = SubSeq(x, a + 1, a + k)
  <1> DEFINE y == Left(x, a)
             p == SubSeq(y, 1, k)
             q == SubSeq(x, a + 1, a + k)
  <1>1. PICK n \in Nat : n = Len(x) /\ a <= n /\ a + k <= n
    OBVIOUS
  <1>2. y \in Seq(S) /\ Len(y) = n - a /\ \A i \in 1..(n - a) : y[i] = x[a + i]
    BY <1>1, LeftFacts
  <1> HIDE DEF y
  <1>3. p \in Seq(S) /\ Len(p) = k /\ \A i \in 1..k : p[i] = y[i]
    BY <1>1, <1>2
  <1>4. q \in Seq(S) /\ Len(q) = k /\ \A i \in 1..k : q[i] = x[a + i]
    <2>1. CASE k = 0
      <3>1. q = <<>>
        BY <1>1, <2>1
      <3>2. QED BY <2>1, <3>1
    <2>2. CASE k # 0
      <3>1. /\ q \in Seq(S) /\ Len(q) = (a + k) - (a + 1) + 1
            /\ \A i \in 1..((a + k) - (a + 1) + 1) : q[i] = x[(a + 1) + i - 1]
        BY <1>1, <2>2
      <3>2. (a + k) - (a + 1) + 1 = k /\ \A i \in 1..k : (a + 1) + i - 1 = a + i
        OBVIOUS
      <3> HIDE DEF q
      <3>3. QED BY <3>1, <3>2
    <2>3. QED BY <2>1, <2>2
  <1> HIDE DEF p, q
  <1>5. \A i \in 1..k : i \in 1..(n - a)
    BY <1>1
  <1>6. p = q
    <2>1. \A i \in 1..k : p[i] = q[i]
      BY <1>2, <1>3, <1>4, <1>5
    <2>2. QED BY <1>3, <1>4, <2>1
  <1>7. QED BY <1>6 DEF p, q, y

\* The fields of q that a character leaves as they are in t.
Kept(q, t) ==
  /\ HasFields(q) /\ q.input = t.input /\ q.pos = t.pos /\ q.title = t.title
  /\ q.ret = t.ret /\ q.last_utf8_char = t.last_utf8_char

\* A character of the text, on the page.
LEMMA FormatText ==
  ASSUME NEW cs \in Seq(ASCII), NEW k \in Nat, k < Len(cs), NEW t, NEW s,
         HasFields(t), s.in_hex = FALSE, t.parsed \in Seq(Nat),
         t.in_hex = InHexAt(cs, k), t.already_in_hex = InHexAt(cs, k)
  PROVE  LET q == Format(t, s, cs[k + 1])
         IN  /\ Kept(q, t)
             /\ q.in_hex = InHexAt(cs, k + 1) /\ q.already_in_hex = InHexAt(cs, k + 1)
             /\ q.parsed = t.parsed \o TextGlyphs(cs, k + 1)
  <1> DEFINE c == cs[k + 1]
             hex == s.in_hex \/ (IF IsBreak(c) THEN t.in_hex ELSE c < 32)
             delimiter == CASE s.in_hex \/ hex = t.already_in_hex -> <<>>
                            [] OTHER -> IF hex THEN <<60>> ELSE <<62>>
             page == t.parsed \o delimiter \o Glyphs(c, hex)
             q == [t EXCEPT !.in_hex = hex,
                            !.already_in_hex = IF s.in_hex THEN @ ELSE hex,
                            !.parsed = page]
  <1>1. Format(t, s, c) = q
    <2>1. Format(t, s, c) = [t EXCEPT !.in_hex = hex,
                                      !.already_in_hex = IF s.in_hex THEN @ ELSE hex,
                                      !.parsed = @ \o delimiter \o Glyphs(c, hex)]
      BY DEF Format
    <2>2. QED BY <2>1
  <1>2. c \in ASCII
    OBVIOUS
  <1>3. /\ InHexAt(cs, 0) = FALSE /\ InHexAt(cs, k) \in BOOLEAN /\ InHexAt(cs, k + 1) \in BOOLEAN
        /\ InHexAt(cs, k + 1) <=> IF IsBreak(c) THEN InHexAt(cs, k) ELSE c < 32
    BY <1>2, InHexNext
  <1>4. hex = InHexAt(cs, k + 1)
    <2>1. (c < 32) \in BOOLEAN
      BY <1>2 DEF ASCII
    <2>2. hex <=> IF IsBreak(c) THEN InHexAt(cs, k) ELSE c < 32
      OBVIOUS
    <2>3. hex <=> InHexAt(cs, k + 1)
      BY <1>3, <2>2, Zenon
    <2>4. hex \in BOOLEAN
      OBVIOUS
    <2> HIDE DEF hex
    <2>5. QED BY <1>3, <2>3, <2>4
  <1> DEFINE before == k + 1 > 1 /\ InHexAt(cs, (k + 1) - 1)
             d == IF hex = before THEN <<>> ELSE IF hex THEN <<60>> ELSE <<62>>
  <1>5. before = InHexAt(cs, k)
    <2>1. (k + 1) - 1 = k /\ (k = 0 \/ k + 1 > 1)
      OBVIOUS
    <2>2. CASE k = 0
      <3>1. ~(k + 1 > 1)
        BY <2>2
      <3>2. QED BY <1>3, <2>2, <3>1
    <2>3. CASE k + 1 > 1
      BY <1>3, <2>1, <2>3
    <2>4. QED BY <2>1, <2>2, <2>3
  <1>6. delimiter = d
    BY <1>5
  <1>7. TextGlyphs(cs, k + 1) = d \o Glyphs(c, hex)
    BY <1>4 DEF TextGlyphs
  <1>8. d \in Seq(Nat) /\ Glyphs(c, hex) \in Seq(Nat)
    <2>1. d \in {<<>>, <<60>>, <<62>>}
      OBVIOUS
    <2>2. <<>> \in Seq(Nat) /\ <<60>> \in Seq(Nat) /\ <<62>> \in Seq(Nat)
      OBVIOUS
    <2>3. d \in Seq(Nat)
      BY <2>1, <2>2, Zenon
    <2> HIDE DEF hex
    <2>4. QED BY <1>2, <1>3, <1>4, <2>3, GlyphsType
  <1> HIDE DEF hex, delimiter, d, before
  <1> DEFINE e == Glyphs(c, hex)
  <1> HIDE DEF e
  <1>9. page = t.parsed \o (d \o e)
    <2>0. t.parsed \in Seq(Nat) /\ d \in Seq(Nat) /\ e \in Seq(Nat)
      BY <1>8 DEF e
    <2>1. (t.parsed \o d) \o e = t.parsed \o (d \o e)
      <3>1. PICK x, y, z \in Seq(Nat) : x = t.parsed /\ y = d /\ z = e
        BY <2>0
      <3>2. (x \o y) \o z = x \o (y \o z)
        BY Associate
      <3>3. QED BY <3>1, <3>2, Zenon
    <2>2. QED BY <1>6, <2>1 DEF e
  <1>10. page = t.parsed \o TextGlyphs(cs, k + 1)
    BY <1>7, <1>9 DEF e
  <1> HIDE DEF page
  <1>11. /\ HasFields(q) /\ q.input = t.input /\ q.pos = t.pos /\ q.title = t.title
         /\ q.ret = t.ret /\ q.last_utf8_char = t.last_utf8_char
         /\ q.in_hex = hex /\ q.already_in_hex = hex /\ q.parsed = page
    BY DEF HasFields
  <1> HIDE DEF q
  <1>12. Kept(q, t)
    BY <1>11 DEF Kept
  <1>13. QED BY <1>1, <1>4, <1>10, <1>11, <1>12

\* Each part has some bytes of the payload, and the last of them ends it.
LEMMA CutsGrow ==
  ASSUME NEW d \in Docs, NEW k \in 1..Len(d.cut)
  PROVE  /\ d.cut \in Seq(Nat) /\ Len(d.cut) \in Nat /\ d.cut[k] \in Nat
         /\ \A j \in k..Len(d.cut) : d.cut[j] \in Nat /\ d.cut[k] + (j - k) <= d.cut[j]
  <1>1. d.cut \in Seq(Nat)
    BY FieldAssumption
  <1>2. PICK n \in Nat : n = Len(d.cut)
    BY <1>1
  <1> DEFINE P(i) == d.cut[k] + i <= d.cut[k + i]
             S == {i \in Nat : k + i <= n => P(i)}
  <1>3. \A j \in 1..n : d.cut[j] \in Nat
    BY <1>1, <1>2
  <1>4. k \in Nat /\ d.cut[k] \in Nat /\ 0 < k
    BY <1>2, <1>3
  <1>5. 0 \in S
    <2>1. k + 0 = k /\ d.cut[k] + 0 <= d.cut[k]
      BY <1>4
    <2>2. P(0)
      BY <2>1
    <2> HIDE DEF P
    <2>3. QED BY <2>2
  <1>6. ASSUME NEW i \in Nat, i \in S PROVE i + 1 \in S
    <2>1. SUFFICES ASSUME k + (i + 1) <= n PROVE P(i + 1)
      <3> HIDE DEF P
      <3>1. i + 1 \in Nat
        OBVIOUS
      <3>2. QED BY <3>1
    <2>2. P(i)
      <3>1. k + i <= n
        BY <1>4, <2>1
      <3>2. QED BY <1>6, <3>1
    <2>3. PICK j \in Nat : j = k + (i + 1) /\ j - 1 = k + i /\ j \in 2..n /\ j - 1 \in 1..n
      <3>1. k + (i + 1) \in Nat /\ k + (i + 1) \in 2..n /\ (k + (i + 1)) - 1 = k + i
            /\ k + i \in 1..n
        BY <1>4, <2>1
      <3>2. QED BY <3>1
    <2>4. d.cut[j-1] < d.cut[j]
      BY <1>2, <2>3, DocAssumption
    <2>5. PICK x, y \in Nat : x = d.cut[j-1] /\ y = d.cut[j]
      BY <1>3, <2>3
    <2>6. d.cut[k] + i <= x
      BY <2>2, <2>3, <2>5
    <2>7. d.cut[k] + (i + 1) <= y
      BY <1>4, <2>4, <2>5, <2>6
    <2>8. QED BY <2>3, <2>5, <2>7
  <1>7. Nat \subseteq S
    <2> HIDE DEF S
    <2>1. QED BY <1>5, <1>6, SetInduction
  <1>8. ASSUME NEW j \in k..n PROVE d.cut[j] \in Nat /\ d.cut[k] + (j - k) <= d.cut[j]
    <2>1. PICK i \in Nat : i = j - k /\ k + i = j
      <3>1. j - k \in Nat /\ k + (j - k) = j
        BY <1>4, <1>8
      <3>2. QED BY <3>1
    <2>2. P(i)
      <3>1. k + i <= n
        BY <1>8, <2>1
      <3>2. QED BY <1>7, <3>1
    <2>3. j \in 1..n
      BY <1>4, <1>8
    <2>4. QED BY <1>3, <2>1, <2>2, <2>3
  <1>9. QED BY <1>1, <1>2, <1>4, <1>8

\* The text is a part of the payload.
LEMMA TextFacts ==
  ASSUME NEW d \in Docs, TextDocument(d)
  PROVE  \E n, l, w \in Nat :
           /\ n = Len(Chars(d)) /\ 0 < n /\ l = Lead(d) /\ w = Total(d) /\ Total(d) = Len(Bytes(d))
           /\ w = l + n + (IF Trimmed(d) THEN 2 ELSE 0)
           /\ Trimmed(d) \in BOOLEAN /\ (Trimmed(d) => 0 < l)
           /\ Chars(d) \in Seq(ASCII) /\ Bytes(d) \in Seq(0..255)
  <1>1. Chars(d) \in Seq(ASCII) /\ Chars(d) # <<>> /\ Bytes(d) \in Seq(0..255)
    BY DEF TextDocument
  <1>2. PICK n, w \in Nat : n = Len(Chars(d)) /\ w = Len(Bytes(d)) /\ w = Total(d) /\ 0 < n
    BY <1>1 DEF Total
  <1>3. PICK l \in Nat : l = Lead(d) /\ (Trimmed(d) => 0 < l)
    <2>1. PICK m \in Nat : m = d.t.payload.name_len
      BY DEF TextDocument
    <2>2. ArgsAt(d.t) = 9 + m + 10
      BY <2>1 DEF ArgsAt
    <2>3. ArgsAt(d.t) \in Nat /\ 0 < ArgsAt(d.t)
      BY <2>2
    <2>4. QED BY <2>3 DEF Lead
  <1>4. w = l + n + (IF Trimmed(d) THEN 2 ELSE 0)
    BY <1>2, <1>3 DEF TextDocument
  <1>5. QED BY <1>1, <1>2, <1>3, <1>4 DEF Trimmed

\* The parts of a payload follow one another, and the last ends it.
LEMMA CutFacts ==
  ASSUME NEW d \in Docs, TextDocument(d), NEW k \in 1..Len(d.cut)
  PROVE  /\ Len(d.cut) \in Nat /\ d.cut[k] \in Nat /\ d.cut[k] <= Total(d)
         /\ d.cut[Len(d.cut)] = Total(d)
         /\ k < Len(d.cut) => d.cut[k] < Total(d) /\ d.cut[k + 1] \in Nat /\ d.cut[k] < d.cut[k + 1]
         /\ Lead(d) <= d.cut[1] =>
              /\ Base(d, k) \in Nat /\ Lead(d) <= Base(d, k) /\ Base(d, k) <= d.cut[k]
              /\ k < Len(d.cut) => Base(d, k + 1) = d.cut[k]
  <1>1. PICK n \in Nat : n = Len(d.cut) /\ k \in 1..n
    BY CutsGrow
  <1>2. /\ \A j \in 1..n : d.cut[j] \in Nat
        /\ \A j \in k..n : d.cut[k] + (j - k) <= d.cut[j]
        /\ \A j \in 1..n : d.cut[1] + (j - 1) <= d.cut[j]
    <2>1. 1 \in 1..n
      BY <1>1
    <2>2. QED BY <1>1, <2>1, CutsGrow
  <1>3. d.cut[n] = Total(d)
    BY <1>1, DocAssumption DEF TextDocument, Total, Bytes
  <1>4. PICK w, x \in Nat : w = d.cut[n] /\ x = d.cut[k] /\ w = Total(d)
    BY <1>1, <1>2, <1>3
  <1>5. x + (n - k) <= w
    <2>1. n \in k..n
      BY <1>1
    <2>2. QED BY <1>2, <1>4, <2>1
  <1>6. ASSUME k < n PROVE d.cut[k + 1] \in Nat /\ x < d.cut[k + 1]
    <2>1. k + 1 \in k..n /\ (k + 1) - k = 1 /\ k + 1 \in 1..n
      BY <1>1, <1>6
    <2>2. PICK y \in Nat : y = d.cut[k + 1]
      BY <1>2, <2>1
    <2>3. x + 1 <= y
      BY <1>2, <1>4, <2>1, <2>2
    <2>4. QED BY <2>2, <2>3
  <1>7. ASSUME Lead(d) <= d.cut[1]
        PROVE  /\ Base(d, k) \in Nat /\ Lead(d) <= Base(d, k) /\ Base(d, k) <= d.cut[k]
               /\ k < n => Base(d, k + 1) = d.cut[k]
    <2>1. PICK l \in Nat : l = Lead(d)
      BY TextFacts
    <2>2. k < n => Base(d, k + 1) = d.cut[k]
      <3>1. k + 1 # 1 /\ (k + 1) - 1 = k
        BY <1>1
      <3>2. QED BY <3>1 DEF Base
    <2>3. CASE k = 1
      BY <1>4, <1>7, <2>1, <2>2, <2>3 DEF Base
    <2>4. CASE k # 1
      <3>1. PICK j \in 1..n : j = k - 1 /\ j + 1 = k /\ j < n /\ k \in j..n
        <4>1. k - 1 \in 1..n /\ (k - 1) + 1 = k /\ k - 1 < n /\ k \in (k-1)..n
          BY <1>1, <2>4
        <4>2. QED BY <4>1
      <3>2. Base(d, k) = d.cut[j]
        BY <2>4, <3>1 DEF Base
      <3>3. PICK a, b \in Nat : a = d.cut[1] /\ b = d.cut[j]
        <4>1. 1 \in 1..n
          BY <1>1
        <4>2. QED BY <1>2, <3>1, <4>1
      <3>4. a + (j - 1) <= b
        BY <1>2, <3>3
      <3>5. b + (k - j) <= x
        <4>1. j \in 1..Len(d.cut) /\ k \in j..Len(d.cut)
          BY <1>1, <3>1
        <4>2. \A q \in j..Len(d.cut) : d.cut[j] + (q - j) <= d.cut[q]
          BY <4>1, CutsGrow
        <4>3. d.cut[j] + (k - j) <= d.cut[k]
          BY ONLY <4>1, <4>2
        <4>4. QED BY <1>4, <3>3, <4>3
      <3>6. l <= b /\ b <= x
        <4>1. l <= a
          BY <1>7, <2>1, <3>3, Zenon
        <4>2. k \in Nat /\ j \in Nat /\ 1 <= j /\ j <= k
          BY <1>1, <3>1
        <4>3. QED BY ONLY <4>1, <4>2, <3>4, <3>5, l \in Nat, a \in Nat, b \in Nat, x \in Nat
      <3>7. QED BY <1>4, <2>1, <2>2, <3>2, <3>3, <3>6
    <2>5. QED BY <2>3, <2>4
  <1>8. x <= w /\ (k < n => x < w)
    BY <1>1, <1>5
  <1>9. QED BY <1>1, <1>3, <1>4, <1>6, <1>7, <1>8

----------------------------------------------------------------------------
\* The screens before the text are those of the fields.

FieldsOnly(ss) == IsSeq(ss) /\ \A i \in 1..Len(ss) : IsField(ss[i])

\* The lines of an amount or of an address are fields.
LEMMA PiecesFields ==
  ASSUME NEW title \in Titles, NEW text \in Seq(Printable), Len(text) <= 52
  PROVE  FieldsOnly(Pieces(title, text))
  <1> DEFINE ps == Pieces(title, text)
  <1>1. /\ AllLines(ps) /\ Len(ps) = Lines(text)
        /\ \A i \in 1..Lines(text) :
             Entry(ps[i]) = <<title, SubSeq(text, From(i) + 1, To(i, text))>>
    BY PiecesAre
  <1> HIDE DEF ps
  <1>2. ASSUME NEW i \in 1..Len(ps) PROVE IsField(ps[i])
    <2>1. Entry(ps[i])[1] = title
      BY <1>1, <1>2
    <2>2. QED BY <2>1 DEF Entry, IsField
  <1>3. QED BY <1>1, <1>2 DEF FieldsOnly, AllLines, Titled, ps

\* Fields after fields are fields.
LEMMA FieldsConcat ==
  ASSUME NEW a, NEW b, FieldsOnly(a), FieldsOnly(b)
  PROVE  FieldsOnly(a \o b)
  <1>1. IsSeq(a \o b) /\ Len(a \o b) = Len(a) + Len(b)
    BY ConcatIsSeq DEF FieldsOnly
  <1>2. PICK S, T : a \in Seq(S) /\ b \in Seq(T)
    BY DEF FieldsOnly, IsSeq
  <1>3. a \in Seq(S \cup T) /\ b \in Seq(S \cup T)
    BY <1>2
  <1>4. PICK m, n \in Nat : m = Len(a) /\ n = Len(b)
    BY <1>3
  <1>5. ASSUME NEW i \in 1..(m + n) PROVE IsField((a \o b)[i])
    <2>1. CASE i <= m
      <3>1. (a \o b)[i] = a[i] /\ i \in 1..Len(a)
        BY <1>3, <1>4, <1>5, <2>1
      <3>2. QED BY <3>1 DEF FieldsOnly
    <2>2. CASE i > m
      <3>1. PICK j \in 1..Len(b) : (a \o b)[i] = b[j]
        <4>1. (a \o b)[i] = b[i - m] /\ i - m \in 1..Len(b)
          BY <1>3, <1>4, <1>5, <2>2
        <4>2. QED BY <4>1
      <3>2. QED BY <3>1, Zenon DEF FieldsOnly
    <2>3. i <= m \/ i > m
      BY <1>4, <1>5
    <2>4. QED BY <2>1, <2>2, <2>3, Zenon
  <1>6. QED BY <1>1, <1>4, <1>5 DEF FieldsOnly

\* No screens are fields.
LEMMA NoFields == FieldsOnly(<<>>)
  <1>1. IsSeq(<<>>) /\ Len(<<>>) = 0
    BY TuplesAreSeqs
  <1>2. \A i \in 1..0 : FALSE
    OBVIOUS
  <1>3. QED BY <1>1, <1>2 DEF FieldsOnly

\* The screens of the amount and of the recipient are fields.
LEMMA AmountFields ==
  ASSUME NEW t, Legible(t)
  PROVE  /\ FieldsOnly(AmountScreens(t)) /\ FieldsOnly(Pieces("Amount", t.amount))
         /\ FieldsOnly(Pieces("Recipient", t.address))
  <1>1. "Amount" \in Titles /\ "Recipient" \in Titles
    BY DEF Titles, AmountTitles, AddressTitles
  <1>2. FieldsOnly(Pieces("Amount", t.amount)) /\ FieldsOnly(Pieces("Recipient", t.address))
    BY <1>1, PiecesFields DEF Legible
  <1>3. QED BY <1>2, NoFields DEF AmountScreens

\* After the fields ss comes the screen s of the text, with the bytes of the first part.
TextScreen(d, ss, s, size) ==
  /\ FieldsOnly(ss) /\ IsScreen(s)
  /\ s.in_hex = FALSE /\ s.is_multicall = FALSE /\ s.is_call = FALSE /\ s.trim_payload = Trimmed(d)
  /\ s.title = TitleOf(d) /\ s.text = SubSeq(Bytes(d), Lead(d) + 1, size)

LaidOut(d, r, size) ==
  r.sw = 0 => \E ss, s : r.screens = Append(ss, s) /\ TextScreen(d, ss, s, size) /\ Lead(d) <= size

\* The payload of a transfer is the text of the last screen
\* (selection.h:49, 246).
LEMMA PlainLaidOut ==
  ASSUME NEW d \in Docs, TextDocument(d), ~Trimmed(d), NEW ss, FieldsOnly(ss), NEW size \in Nat
  PROVE  /\ LaidOut(d, PayloadScreens(d.t, ss, size), size)
         /\ PayloadScreens(d.t, ss, size).screens # <<>>
  <1> DEFINE s == Screen("Payload", PayloadFrom(d.t, 0, size))
             r == PayloadScreens(d.t, ss, size)
  <1>1. d.t.payload # NoPayload /\ Lead(d) = 0 /\ TitleOf(d) = "Payload"
    BY DEF TextDocument, Lead, TitleOf
  <1>2. r.screens = Append(ss, s)
    BY <1>1 DEF PayloadScreens, Shown
  <1>3. /\ s.title = "Payload" /\ s.text = SubSeq(d.t.payload.bytes, 0 + 1, size)
        /\ s.in_hex = FALSE /\ s.is_call = FALSE /\ s.is_multicall = FALSE /\ s.trim_payload = FALSE /\ IsScreen(s)
    BY DEF Screen, PayloadFrom, IsScreen
  <1> HIDE DEF s, r
  <1>4. TextScreen(d, ss, s, size)
    BY <1>1, <1>3 DEF TextScreen, Bytes, Trimmed
  <1>5. 0 <= size
    OBVIOUS
  <1>6. LaidOut(d, r, size)
    BY <1>1, <1>2, <1>4, <1>5 DEF LaidOut
  <1>7. r.screens # <<>>
    <2>1. PICK S : ss \in Seq(S)
      BY DEF FieldsOnly, IsSeq
    <2>2. ss \in Seq(S \cup {s}) /\ s \in S \cup {s}
      BY <2>1
    <2>3. Len(Append(ss, s)) = Len(ss) + 1 /\ Len(ss) \in Nat
      BY <2>2
    <2>4. QED BY <1>2, <2>3
  <1>8. QED BY <1>6, <1>7 DEF r

\* So are the arguments of a governance transaction, and the end of the payload
\* is to be trimmed (selection.h:126).
LEMMA ArgsLaidOut ==
  ASSUME NEW d \in Docs, TextDocument(d), Trimmed(d), NEW ss, FieldsOnly(ss), NEW size,
         HasArgs(d.t, size)
  PROVE  LaidOut(d, ArgsScreen(d.t, ss, TitleOf(d), size), size)
  <1> DEFINE s == [Screen(TitleOf(d), PayloadFrom(d.t, ArgsAt(d.t), size)) EXCEPT !.trim_payload = TRUE]
             r == ArgsScreen(d.t, ss, TitleOf(d), size)
  <1>1. r.screens = Append(ss, s)
    BY DEF ArgsScreen, Shown
  <1>2. /\ s.title = TitleOf(d) /\ s.text = SubSeq(d.t.payload.bytes, ArgsAt(d.t) + 1, size)
        /\ s.in_hex = FALSE /\ s.is_call = FALSE /\ s.is_multicall = FALSE /\ s.trim_payload = TRUE /\ IsScreen(s)
    BY DEF Screen, PayloadFrom, IsScreen
  <1> HIDE DEF s, r
  <1>3. Lead(d) = ArgsAt(d.t) /\ Trimmed(d) = TRUE
    BY DEF Lead, Trimmed
  <1>4. TextScreen(d, ss, s, size)
    BY <1>2, <1>3 DEF TextScreen, Bytes
  <1>5. Lead(d) <= size
    <2>1. PICK l \in Nat : l = Lead(d)
      BY TextFacts
    <2>2. size >= ArgsAt(d.t)
      BY DEF HasArgs
    <2>3. QED BY <1>3, <2>2
  <1>6. QED BY <1>1, <1>4, <1>5 DEF LaidOut, r

\* A transaction refused is laid out in no way.
LEMMA InvalidLaidOut ==
  ASSUME NEW d, NEW pos \in Nat, NEW ss, NEW size
  PROVE  LaidOut(d, Invalid(pos, ss), size)
  <1>1. Invalid(pos, ss).sw = 26432 + pos
    BY DEF Invalid
  <1>2. QED BY <1>1 DEF LaidOut

\* The functions of the contract aergo.system that show a text.
LEMMA SystemLaidOut ==
  ASSUME NEW d \in Docs, TextDocument(d), Trimmed(d), d.t.recipient = "system",
         NEW ss, FieldsOnly(ss), Legible(d.t), NEW size
  PROVE  LaidOut(d, system(d.t, ss, size), size)
  <1> DEFINE f == Match(SystemFunctions, d.t.payload.name)
             all == ss \o IF d.t.amount # ZeroAmount THEN Pieces("Amount", d.t.amount) ELSE <<>>
             r == system(d.t, ss, size)
  <1>1. SystemFunctions \in Tables /\ TableOf(d.t.recipient) = SystemFunctions
    BY DEF Tables, TableOf
  <1>2. f \in 0..4 /\ f # 0 /\ TitleOf(d) = SystemFunctions[f].title
    <2>1. f \in 0..4
      BY <1>1, MatchIsPrefix, SystemRows
    <2>2. QED BY <1>1, <2>1 DEF TextDocument, Function, TitleOf
  <1>3. f \in {3, 4}
    <2>1. f \notin {1, 2}
      BY <1>2, TableTitles DEF TextDocument
    <2>2. QED BY <1>2, <2>1
  <1>4. FieldsOnly(all)
    BY AmountFields, FieldsConcat, NoFields
  <1>5. CASE ~HasArgs(d.t, size)
    <2>1. r = Invalid(5, ss)
      BY <1>3, <1>5 DEF system
    <2>2. QED BY <2>1, InvalidLaidOut
  <1>6. CASE HasArgs(d.t, size)
    <2>1. r = ArgsScreen(d.t, all, TitleOf(d), size)
      BY <1>2, <1>3, <1>6 DEF system
    <2> HIDE DEF all, r
    <2>2. LaidOut(d, r, size)
      BY <1>4, <1>6, <2>1, ArgsLaidOut
    <2>3. QED BY <2>2 DEF r
  <1>7. QED BY <1>5, <1>6

\* The functions of the contracts aergo.name and aergo.enterprise.
LEMMA ConfigurationLaidOut ==
  ASSUME NEW d \in Docs, TextDocument(d), Trimmed(d),
         NEW ss, FieldsOnly(ss), NEW size, NEW pos \in Nat
  PROVE  LaidOut(d, configuration(d.t, ss, size, TableOf(d.t.recipient), pos), size)
  <1> DEFINE table == TableOf(d.t.recipient)
             f == Match(table, d.t.payload.name)
             r == configuration(d.t, ss, size, table, pos)
  <1>1. f # 0 /\ TitleOf(d) = table[f].title
    BY DEF TextDocument, Function, TitleOf
  <1>2. CASE ~HasArgs(d.t, size)
    <2>1. r = Invalid(pos, ss)
      BY <1>2 DEF configuration
    <2>2. QED BY <2>1, InvalidLaidOut
  <1>3. CASE HasArgs(d.t, size)
    <2>1. r = ArgsScreen(d.t, ss, TitleOf(d), size)
      BY <1>1, <1>3 DEF configuration
    <2>2. QED BY <1>3, <2>1, ArgsLaidOut
  <1>4. QED BY <1>2, <1>3

\* Whatever the type, the text is on the last screen, and fields on the others.
LEMMA TextLaidOut ==
  ASSUME NEW d \in Docs, TextDocument(d), NEW size \in Nat
  PROVE  LaidOut(d, display_transaction(d.t, size), size)
  <1> DEFINE t  == d.t
             ss == AmountScreens(d.t)
             r  == display_transaction(d.t, size)
  <1>1. Legible(d.t) /\ FieldsOnly(ss)
    <2>1. Legible(d.t)
      BY DocLegible DEF TextDocument
    <2>2. QED BY <2>1, AmountFields
  <1>2. CASE d.t.type = "transfer"
    <2> DEFINE before == IF ss = <<>> THEN Pieces("Amount", t.amount) ELSE ss
               all == before \o Pieces("Recipient", t.address)
    <2>1. r = PayloadScreens(d.t, all, size)
      BY <1>2 DEF display_transaction, transfer
    <2>2. FieldsOnly(before)
      BY <1>1, AmountFields
    <2> HIDE DEF before
    <2>3. FieldsOnly(all)
      BY <1>1, <2>2, AmountFields, FieldsConcat
    <2> HIDE DEF all
    <2>4. ~Trimmed(d)
      BY <1>2 DEF Trimmed
    <2>5. QED BY <2>1, <2>3, <2>4, PlainLaidOut
  <1>3. CASE d.t.type = "normal"
    <2> DEFINE all == ss \o Pieces("Recipient", t.address)
               p == PayloadScreens(d.t, all, size)
    <2>1. r = IF p.screens = <<>> THEN Invalid(14, <<>>) ELSE p
      BY <1>3 DEF display_transaction, normal
    <2>2. FieldsOnly(all)
      BY <1>1, AmountFields, FieldsConcat
    <2> HIDE DEF all
    <2>3. ~Trimmed(d)
      BY <1>3 DEF Trimmed
    <2>4. LaidOut(d, p, size) /\ p.screens # <<>>
      BY <2>2, <2>3, PlainLaidOut
    <2> HIDE DEF p, r
    <2>5. LaidOut(d, r, size)
      BY <2>1, <2>4
    <2>6. QED BY <2>5 DEF r
  <1>4. CASE d.t.type = "governance"
    <2>1. r = governance(d.t, ss, size) /\ Trimmed(d)
      BY <1>4 DEF display_transaction, Trimmed
    <2>2. \/ r \in {Invalid(4, ss), Invalid(11, ss)}
          \/ d.t.recipient = "system" /\ r = system(d.t, ss, size)
          \/ r = configuration(d.t, ss, size, TableOf(d.t.recipient), 7)
          \/ r = configuration(d.t, ss, size, TableOf(d.t.recipient), 9)
      BY <2>1 DEF governance, TableOf
    <2> HIDE DEF r
    <2>3. LaidOut(d, r, size)
      BY <1>1, <2>1, <2>2, InvalidLaidOut, SystemLaidOut, ConfigurationLaidOut
    <2>4. QED BY <2>3 DEF r
  <1>5. QED BY <1>2, <1>3, <1>4 DEF TextDocument

\* The characters on m pages and on one more.
LEMMA OnPages ==
  ASSUME NEW m \in Nat
  PROVE  /\ On(m) \in Nat /\ On(0) = 0 /\ On(m + 1) = On(m) + W /\ W \in Nat /\ 13 <= W
         /\ From(m + 1) = On(m) /\ (\A g : To(m + 1, g) = Shorter(On(m) + W, Len(g)))
         /\ (m + 1) - 1 = m
  <1>1. W \in Nat /\ 13 <= W
    BY TextAssumption, FieldAssumption
  <1>2. m * W \in Nat /\ 0 * W = 0 /\ (m + 1) * W = m * W + W /\ (m + 1) - 1 = m
    BY <1>1
  <1>3. QED BY <1>1, <1>2 DEF On, From, To

\* The elements of a slice.
LEMMA SliceElements ==
  ASSUME NEW S, NEW s \in Seq(S), NEW a \in Nat, NEW b \in Nat, a <= b, b <= Len(s)
  PROVE  /\ SubSeq(s, a + 1, b) \in Seq(S) /\ Len(SubSeq(s, a + 1, b)) = b - a
         /\ \A i \in 1..(b - a) : SubSeq(s, a + 1, b)[i] = s[a + i]
  <1> DEFINE q == SubSeq(s, a + 1, b)
  <1>1. CASE a = b
    <2>1. q = <<>>
      BY <1>1
    <2>2. (1..(b - a)) = {} /\ b - a = 0 /\ <<>> \in Seq(S) /\ Len(<<>>) = 0
      BY <1>1
    <2> HIDE DEF q
    <2>3. q \in Seq(S) /\ Len(q) = b - a /\ \A i \in 1..(b - a) : q[i] = s[a + i]
      BY <2>1, <2>2
    <2>4. QED BY <2>3 DEF q
  <1>2. CASE a < b
    <2>1. /\ q \in Seq(S) /\ Len(q) = b - (a + 1) + 1
          /\ \A i \in 1..(b - (a + 1) + 1) : q[i] = s[(a + 1) + i - 1]
      BY <1>2
    <2>2. b - (a + 1) + 1 = b - a /\ \A i \in 1..(b - a) : (a + 1) + i - 1 = a + i
      OBVIOUS
    <2> HIDE DEF q
    <2>3. q \in Seq(S) /\ Len(q) = b - a /\ \A i \in 1..(b - a) : q[i] = s[a + i]
      BY <2>1, <2>2
    <2>4. QED BY <2>3 DEF q
  <1>3. QED BY <1>1, <1>2

\* The numbers of bytes: before the text, in all, before the part's text and its
\* end, passed in the part and in all, and in the part.
Located(d, k, t, n, l, w, b, c, p, x, i) ==
  /\ n = Len(Chars(d)) /\ 0 < n /\ l = Lead(d) /\ w = Total(d) /\ w = Len(Bytes(d))
  /\ w = l + n + (IF Trimmed(d) THEN 2 ELSE 0) /\ Trimmed(d) \in BOOLEAN
  /\ Trimmed(d) => 0 < l
  /\ b = Base(d, k) /\ l <= b /\ b <= c /\ c = d.cut[k] /\ c <= w
  /\ i = Len(t.input) /\ i = c - b
  /\ p = t.pos /\ x = Passage(d, k, t) /\ x = b + p
  /\ Count(d, k, t) = Shorter(x - l, n)
  /\ k = Len(d.cut) => c = w
  /\ k < Len(d.cut) => c < w /\ p <= i
  /\ p <= i \/ (k = Len(d.cut) /\ x = w + 1)
  /\ AllHere(d, k, t) <=> k = Len(d.cut) /\ p >= i
  /\ \A j \in 1..i : t.input[j] = Bytes(d)[b + j]

\* Where the parser of a text is.
LEMMA PassageFacts ==
  ASSUME NEW d \in Docs, TextDocument(d), NEW k \in 1..Len(d.cut), Lead(d) <= d.cut[1],
         NEW t, NEW m, Reads(d, k, t, m)
  PROVE  \E n, l, w, b, c, p, x, i \in Nat : Located(d, k, t, n, l, w, b, c, p, x, i)
  <1>1. PICK n, l, w \in Nat :
           /\ n = Len(Chars(d)) /\ 0 < n /\ l = Lead(d) /\ w = Total(d) /\ Total(d) = Len(Bytes(d))
           /\ w = l + n + (IF Trimmed(d) THEN 2 ELSE 0)
           /\ Trimmed(d) \in BOOLEAN /\ (Trimmed(d) => 0 < l)
           /\ Chars(d) \in Seq(ASCII) /\ Bytes(d) \in Seq(0..255)
    BY TextFacts
  <1>2. /\ Len(d.cut) \in Nat /\ d.cut[k] \in Nat /\ d.cut[k] <= Total(d)
        /\ d.cut[Len(d.cut)] = Total(d)
        /\ k < Len(d.cut) => d.cut[k] < Total(d)
        /\ Base(d, k) \in Nat /\ Lead(d) <= Base(d, k) /\ Base(d, k) <= d.cut[k]
    BY CutFacts
  <1>3. PICK b, c \in Nat : b = Base(d, k) /\ c = d.cut[k]
    BY <1>2
  <1>4. l <= b /\ b <= c /\ c <= w
    BY <1>1, <1>2, <1>3
  <1>5. /\ t.input = SubSeq(Bytes(d), b + 1, c) /\ t.pos \in Nat
        /\ t.pos <= Len(t.input) \/ (AllHere(d, k, t) /\ Passage(d, k, t) = Total(d) + 1)
    BY <1>3 DEF Reads, Text
  <1>6. /\ Len(t.input) = c - b /\ \A j \in 1..(c - b) : t.input[j] = Bytes(d)[b + j]
    <2>1. Bytes(d) \in Seq(0..255) /\ b \in Nat /\ c \in Nat /\ b <= c /\ c <= Len(Bytes(d))
      BY <1>1, <1>4
    <2> DEFINE bytes == Bytes(d)
               r == SubSeq(bytes, b + 1, c)
    <2>2. t.input = r
      BY <1>5
    <2>3. bytes \in Seq(0..255) /\ b <= c /\ c <= Len(bytes)
      BY <2>1
    <2> HIDE DEF bytes
    <2>4. Len(r) = c - b /\ \A j \in 1..(c - b) : r[j] = bytes[b + j]
      BY <2>3, SliceElements
    <2> HIDE DEF r
    <2>5. Len(t.input) = c - b /\ \A j \in 1..(c - b) : t.input[j] = bytes[b + j]
      BY <2>2, <2>4
    <2>6. QED BY <2>5 DEF bytes
  <1>7. PICK p, x, i \in Nat : p = t.pos /\ x = b + p /\ i = c - b
    <2>1. t.pos \in Nat /\ b + t.pos \in Nat /\ c - b \in Nat
      BY <1>4, <1>5
    <2>2. QED BY <2>1
  <1>8. x = Passage(d, k, t) /\ Count(d, k, t) = Shorter(x - l, n)
    BY <1>1, <1>3, <1>7 DEF Passage, Count
  <1>9. AllHere(d, k, t) <=> k = Len(d.cut) /\ p >= i
    BY <1>6, <1>7 DEF AllHere
  <1>10. /\ k = Len(d.cut) => c = w
         /\ k < Len(d.cut) => c < w
    BY <1>1, <1>2, <1>3
  <1>11. p <= i \/ (k = Len(d.cut) /\ x = w + 1)
    BY <1>1, <1>5, <1>6, <1>7, <1>8, <1>9
  <1>12. k < Len(d.cut) => p <= i
    BY <1>2, <1>11
  <1>13. i = Len(t.input) /\ \A j \in 1..i : t.input[j] = Bytes(d)[b + j]
    BY <1>6, <1>7
  <1>14. Located(d, k, t, n, l, w, b, c, p, x, i)
    BY <1>1, <1>3, <1>4, <1>7, <1>8, <1>9, <1>10, <1>11, <1>12, <1>13 DEF Located
  <1>15. QED BY <1>14

\* What is next in the text: a character, or the two bytes that are trimmed.
LEMMA NextOfText ==
  ASSUME NEW d \in Docs, TextDocument(d), NEW k \in 1..Len(d.cut), Lead(d) <= d.cut[1],
         NEW t, NEW m, Reads(d, k, t, m), t.pos < Len(t.input)
  PROVE  /\ ~AllHere(d, k, t) /\ t.input[t.pos + 1] \in ASCII
         /\ \/ /\ Passage(d, k, t) < Lead(d) + Len(Chars(d))
               /\ Count(d, k, t) = Passage(d, k, t) - Lead(d)
               /\ t.input[t.pos + 1] = Chars(d)[Count(d, k, t) + 1]
               /\ ~(Trimmed(d) /\ Passage(d, k, t) = Total(d) - 2)
            \/ Trimmed(d) /\ Passage(d, k, t) = Total(d) - 2
  <1>00. PICK n, l, w, b, c, p, x, i \in Nat : Located(d, k, t, n, l, w, b, c, p, x, i)
    BY PassageFacts
  <1>0. /\ l <= b /\ b <= c /\ c <= w /\ i = c - b /\ x = b + p /\ p = t.pos
        /\ n = Len(Chars(d)) /\ l = Lead(d) /\ w = Total(d)
        /\ Count(d, k, t) = Shorter(x - l, n) /\ x = Passage(d, k, t)
        /\ Trimmed(d) => w = l + n + 2
        /\ ~Trimmed(d) => w = l + n + 0
        /\ AllHere(d, k, t) <=> k = Len(d.cut) /\ p >= i
        /\ \A j \in 1..i : t.input[j] = Bytes(d)[b + j]
        /\ i = Len(t.input)
    BY <1>00, Zenon DEF Located
  <1>p. p < i
    BY <1>0, Zenon
  <1>1. l <= x /\ x < c /\ x < w
    <2>1. /\ l <= b /\ b <= c /\ c <= w /\ i = c - b /\ x = b + p
      BY <1>0
    <2>2. QED BY ONLY <2>1, l \in Nat, w \in Nat, b \in Nat, c \in Nat, p \in Nat, x \in Nat, i \in Nat, <1>p
  <1>2. ~AllHere(d, k, t)
    <2>1. ~(p >= i)
      BY <1>p
    <2>2. QED BY <1>0, <2>1, Zenon
  <1>3. t.input[t.pos + 1] = Bytes(d)[x + 1]
    <2>1. p + 1 \in 1..i
      BY <1>p
    <2>2. b + (p + 1) = x + 1
      <3>1. x = b + p
        BY <1>0
      <3>2. QED BY ONLY <3>1, b \in Nat, p \in Nat
    <2>3. t.input[p + 1] = Bytes(d)[b + (p + 1)]
      BY <1>0, <2>1, Zenon
    <2>4. QED BY <1>0, <2>2, <2>3, Zenon
  <1>4. CASE x < l + n
    <2>1. PICK j \in 1..n : j = (x - l) + 1 /\ l + j = x + 1
      <3>1. (x - l) + 1 \in 1..n /\ l + ((x - l) + 1) = x + 1
        BY ONLY <1>1, <1>4, x \in Nat, l \in Nat, n \in Nat
      <3>2. QED BY <3>1
    <2>2. j \in 1..Len(Chars(d)) /\ Chars(d) \in Seq(ASCII) /\ Bytes(d)[Lead(d) + j] = Chars(d)[j]
      <3>1. j \in 1..Len(Chars(d))
        BY <1>0, <2>1, Zenon
      <3>2. QED BY <3>1, Zenon DEF TextDocument
    <2>3. Chars(d)[j] \in ASCII
      BY <2>2
    <2>4. t.input[t.pos + 1] = Chars(d)[(x - l) + 1]
      BY <1>0, <1>3, <2>1, <2>2, Zenon
    <2>5. Shorter(x - l, n) = x - l
      BY ONLY <1>1, <1>4, x \in Nat, l \in Nat, n \in Nat DEF Shorter
    <2>6. Count(d, k, t) = x - l
      BY <1>0, <2>5, Zenon
    <2>7. t.input[t.pos + 1] \in ASCII
      BY <2>1, <2>3, <2>4, Zenon
    <2>8. ~(Trimmed(d) /\ x = w - 2)
      <3>1. w = l + n + 2 => x # w - 2
        BY ONLY <1>4, x \in Nat, l \in Nat, n \in Nat, w \in Nat
      <3>2. QED BY <1>0, <3>1, Zenon
    <2>9. QED BY <1>0, <1>2, <1>4, <2>4, <2>6, <2>7, <2>8, Zenon
  <1>5. CASE ~(x < l + n)
    <2>1. Trimmed(d) /\ w = l + n + 2
      <3>1. ~(w = l + n + 0)
        BY ONLY <1>1, <1>5, x \in Nat, l \in Nat, n \in Nat, w \in Nat
      <3>2. QED BY <1>0, <3>1, Zenon
    <2>2. x # w - 1
      BY <1>0, <2>1, Zenon DEF Reads
    <2>3. x = w - 2 /\ x + 1 = l + n + 1
      BY ONLY <1>1, <1>5, <2>1, <2>2, x \in Nat, l \in Nat, n \in Nat, w \in Nat
    <2>4. Bytes(d)[l + n + 1] \in ASCII
      BY <1>0, <2>1, Zenon DEF TextDocument
    <2>5. t.input[t.pos + 1] \in ASCII
      BY <1>3, <2>3, <2>4, Zenon
    <2>6. QED BY <1>0, <1>2, <2>1, <2>3, <2>5, Zenon
  <1>6. QED BY <1>4, <1>5, Zenon

\* The parser of a text reads a byte, and passes the end of the payload.
LEMMA TextTurn ==
  ASSUME doc \in Docs, TextDocument(doc), part \in 1..Len(doc.cut), TextLayout,
         HasFields(parser), parse_page_text, current_screen = Len(screens),
         NEW m, Reads(doc, part, parser, m)
  PROVE  /\ parser.pos < Len(parser.input) /\ parser.ret = "loop" /\ Now.in_hex = FALSE
         /\ LET t == [parser EXCEPT !.pos = parser.pos + 1, !.last_utf8_char = 0]
            IN  IF Trimmed(doc) /\ Passage(doc, part, parser) = Total(doc) - 2
                THEN parser' = [t EXCEPT !.pos = parser.pos + 3,
                                         !.ret = IF parser.pos + 3 >= Len(t.input) THEN "yes" ELSE "no"]
                ELSE parser' = Format(t, Now, parser.input[parser.pos + 1])
  <1>1. Now = LastScreen(screens) /\ Reading
    BY DEF Now, LastScreen, parse_page_text
  <1>2. /\ Now.in_hex = FALSE /\ Now.is_call = FALSE /\ Now.trim_payload = Trimmed(doc)
        /\ Now.is_multicall = FALSE /\ Lead(doc) <= doc.cut[1] /\ Trimmed(doc) \in BOOLEAN
    BY <1>1 DEF TextLayout, Trimmed
  <1>00. PICK n, l, w, b, c, p, x, i \in Nat : Located(doc, part, parser, n, l, w, b, c, p, x, i)
    BY <1>2, PassageFacts
  <1>0. /\ p = parser.pos /\ w = Len(Bytes(doc)) /\ x = b + p /\ w = Total(doc)
        /\ l = Lead(doc) /\ b = Base(doc, part) /\ l <= b /\ (Trimmed(doc) => 0 < l)
        /\ x = Passage(doc, part, parser)
    BY <1>00, Zenon DEF Located
  <1>3. parser.pos < Len(parser.input) /\ parser.ret = "loop"
    BY <1>1 DEF Reading
  <1> DEFINE byte == parser.input[parser.pos + 1]
             r == [c |-> byte, pos |-> p + 1, is_utf8 |-> FALSE]
             t == [parser EXCEPT !.pos = p + 1, !.last_utf8_char = 0]
  <1>4. byte \in ASCII
    BY <1>2, <1>3, NextOfText
  <1>5. ReadChar(parser, Now.in_hex) = r
    <2>1. parser.last_utf8_char = 0
      BY DEF Reads
    <2>2. ~(byte >= 192)
      <3>1. \A y \in ASCII : ~(y >= 192)
        BY DEF ASCII
      <3>2. QED BY <1>4, <3>1, Zenon
    <2>3. READ_UTF8(parser.input, parser.pos) = r
      BY <1>0, <2>2 DEF READ_UTF8
    <2> HIDE DEF r
    <2>4. QED BY <1>2, <2>1, <2>3 DEF ReadChar
  <1>6. ~Held(t, r, has_partial_payload(part)) /\ ~EndsFunction(t, Now, r) /\ ~Skips(t, Now)
    BY <1>2 DEF Held, EndsFunction, Skips
  <1>7. Trims(t, Now, r, PayloadInfo) <=> Trimmed(doc) /\ x = w - 2
    <2>1. CASE ~Trimmed(doc)
      BY <1>2, <2>1 DEF Trims
    <2>2. CASE Trimmed(doc)
      <3> DEFINE e == [payload_len |-> Len(doc.t.payload.bytes),
                       part_offset |-> IF part = 1 THEN 0 ELSE doc.cut[part-1],
                       text_offset |-> ArgsAt(doc.t)]
      <3>1. PayloadInfo = e
        BY <1>2, <2>2 DEF PayloadInfo
      <3>2. e.payload_len = w /\ w = Len(doc.t.payload.bytes)
        BY <1>0 DEF Bytes
      <3>3. (IF e.part_offset # 0 THEN e.part_offset ELSE e.text_offset) = b
        <4>1. b = Base(doc, part) /\ l = Lead(doc) /\ Lead(doc) = ArgsAt(doc.t) /\ 0 < l /\ l <= b
          BY <1>0, <2>2 DEF Lead
        <4>2. CASE part = 1
          BY <4>1, <4>2 DEF Base
        <4>3. CASE part # 1
          <5>1. e.part_offset = b /\ b # 0
            BY <4>1, <4>3 DEF Base
          <5>2. QED BY <5>1
        <4>4. QED BY <4>2, <4>3
      <3>4. r.pos = p + 1 /\ x = b + p
        BY <1>0
      <3> HIDE DEF e, r
      <3>5. Trims(t, Now, r, e) <=> b + r.pos - 1 = w - 2
        BY <1>2, <2>2, <3>2, <3>3 DEF Trims
      <3>6. b + r.pos - 1 = x
        BY <3>4
      <3>7. QED BY <2>2, <3>1, <3>5, <3>6
    <2>3. QED BY <1>2, <2>1, <2>2
  <1>8. IF Trims(t, Now, r, PayloadInfo) THEN parser' = TrimEnd(t, r) ELSE parser' = Format(t, Now, byte)
    <2>1. PICK rr \in {ReadChar(parser, Now.in_hex)} :
            LET u == [parser EXCEPT !.pos = rr.pos, !.last_utf8_char = 0]
                held     == Held(u, rr, has_partial_payload(part))
                function == EndsFunction(u, Now, rr)
                skips    == Skips(u, Now)
                trims    == Trims(u, Now, rr, PayloadInfo)
            IN  \/ held /\ parser' = [u EXCEPT !.last_utf8_char = rr.c, !.ret = "yes"]
                \/ ~held /\ function /\ parser' = FunctionEnds(u, rr)
                \/ ~held /\ ~function /\ skips /\ parser' = SkipToArgs(u, rr)
                \/ ~held /\ ~function /\ ~skips /\ trims /\ parser' = TrimEnd(u, rr)
                \/ ~held /\ ~function /\ ~skips /\ ~trims /\ parser' = Format(u, Now, rr.c)
      BY DEF parse_page_text
    <2>2. rr = r /\ r.c = byte /\ r.pos = p + 1
      BY <1>5, <2>1
    <2>3. [parser EXCEPT !.pos = rr.pos, !.last_utf8_char = 0] = t
      BY <2>2
    <2> HIDE DEF r, t, byte
    <2>4. QED BY <1>6, <2>1, <2>2, <2>3
  <1>9. TrimEnd(t, r) = [t EXCEPT !.pos = p + 3, !.ret = IF p + 3 >= Len(t.input) THEN "yes" ELSE "no"]
    <2>1. r.pos + 2 = p + 3
      OBVIOUS
    <2> HIDE DEF r, t
    <2>2. QED BY <2>1 DEF TrimEnd
  <1>10. QED
    <2> HIDE DEF r
    <2> DEFINE q == [t EXCEPT !.pos = p + 3, !.ret = IF p + 3 >= Len(t.input) THEN "yes" ELSE "no"]
    <2>2. IF Trimmed(doc) /\ x = w - 2 THEN parser' = q ELSE parser' = Format(t, Now, byte)
      BY <1>7, <1>8, <1>9
    <2> HIDE DEF q, t, byte
    <2>3. IF Trimmed(doc) /\ Passage(doc, part, parser) = Total(doc) - 2 THEN parser' = q
          ELSE parser' = Format(t, Now, byte)
      BY <1>0, <2>2, Zenon
    <2>4. QED BY <1>0, <1>2, <1>3, <2>3, Zenon DEF q, t, byte

\* The two bytes are passed over when all parts are there.
LEMMA TextTrimmed ==
  ASSUME doc \in Docs, TextDocument(doc), Clean(doc), part \in 1..Len(doc.cut), Lead(doc) <= doc.cut[1],
         HasFields(parser), NEW m, Reads(doc, part, parser, m), parser.pos < Len(parser.input),
         Trimmed(doc), Passage(doc, part, parser) = Total(doc) - 2,
         NEW q, HasFields(q), q.input = parser.input, q.pos = parser.pos + 3, q.title = parser.title,
         q.last_utf8_char = 0, q.in_hex = parser.in_hex, q.already_in_hex = parser.already_in_hex,
         q.parsed = parser.parsed
  PROVE  Reads(doc, part, q, m)
  <1>00. PICK n, l, w, b, c, p, x, i \in Nat : Located(doc, part, parser, n, l, w, b, c, p, x, i)
    BY PassageFacts
  <1>0. /\ p = parser.pos /\ x = b + p /\ w = Total(doc) /\ n = Len(Chars(doc))
        /\ l = Lead(doc) /\ b = Base(doc, part) /\ l <= b /\ c = doc.cut[part]
        /\ x = Passage(doc, part, parser) /\ i = Len(parser.input) /\ i = c - b
        /\ w = l + n + 2 /\ Count(doc, part, parser) = Shorter(x - l, n)
        /\ part = Len(doc.cut) => c = w
        /\ part < Len(doc.cut) => c < w
    BY <1>00, Zenon DEF Located
  <1>1. x = w - 2 /\ p < i
    BY <1>0, Zenon
  <1>2. part = Len(doc.cut)
    <2>1. SUFFICES ASSUME part # Len(doc.cut) PROVE FALSE
      OBVIOUS
    <2>2. part \in 1..(Len(doc.cut) - 1) /\ part < Len(doc.cut)
      <3>1. Len(doc.cut) \in Nat
        BY CutFacts
      <3>2. QED BY <2>1, <3>1
    <2>3. c # w - 1 /\ c < w
      BY <1>0, <2>2, Zenon DEF Clean
    <2>4. x < c
      <3>1. x = b + p /\ i = c - b
        BY <1>0
      <3>2. QED
        BY ONLY <3>1, <1>1, x \in Nat, b \in Nat, c \in Nat, p \in Nat, i \in Nat
    <2>5. QED
      BY ONLY <1>1, <2>3, <2>4, x \in Nat, w \in Nat, c \in Nat
  <1>3. c = w
    BY <1>0, <1>2, Zenon
  <1>4. /\ b + (p + 3) = w + 1 /\ p + 3 >= i /\ p + 3 \in Nat
        /\ Shorter(x - l, n) = n /\ Shorter((w + 1) - l, n) = n /\ w + 1 # w - 1
    <2>1. x = b + p /\ i = c - b /\ w = l + n + 2
      BY <1>0
    <2>2. QED
      BY ONLY <2>1, <1>1, <1>3, x \in Nat, w \in Nat, c \in Nat, b \in Nat, p \in Nat, i \in Nat,
              l \in Nat, n \in Nat DEF Shorter
  <1>5. /\ Passage(doc, part, q) = Total(doc) + 1 /\ q.pos \in Nat
        /\ AllHere(doc, part, q)
    <2>1. q.pos = p + 3 /\ Len(q.input) = i
      BY <1>0
    <2>2. Passage(doc, part, q) = b + (p + 3)
      BY <1>0, <2>1 DEF Passage
    <2>3. QED BY <1>0, <1>2, <1>4, <2>1, <2>2 DEF AllHere
  <1>6. Count(doc, part, q) = Count(doc, part, parser)
    <2>1. Count(doc, part, q) = Shorter((w + 1) - l, n)
      BY <1>0, <1>5 DEF Count
    <2>2. QED BY <1>0, <1>4, <2>1
  <1>7. Total(doc) + 1 # Total(doc) - 1
    BY <1>0, <1>4, Zenon
  <1>8. QED
    <2> DEFINE g == Gl(Chars(doc), Count(doc, part, parser))
               h == InHexAt(Chars(doc), Count(doc, part, parser))
    <2>1. /\ parser.input = Text(doc, part) /\ parser.title = TitleOf(doc)
          /\ parser.in_hex = h /\ parser.already_in_hex = h
          /\ parser.parsed = Left(g, On(m))
      BY DEF Reads
    <2> HIDE DEF g, h
    <2>2. /\ q.input = Text(doc, part) /\ q.title = TitleOf(doc) /\ q.last_utf8_char = 0
          /\ q.in_hex = h /\ q.already_in_hex = h /\ q.parsed = Left(g, On(m))
      BY <2>1
    <2>3. QED BY <1>5, <1>6, <1>7, <2>2, Zenon DEF Reads, g, h

\* The next character is on the page.
LEMMA TextAdded ==
  ASSUME doc \in Docs, TextDocument(doc), part \in 1..Len(doc.cut), Lead(doc) <= doc.cut[1],
         HasFields(parser), NEW m \in Nat, Reads(doc, part, parser, m), parser.pos < Len(parser.input),
         ~(Trimmed(doc) /\ Passage(doc, part, parser) = Total(doc) - 2), parser.ret = "loop",
         NEW s, s.in_hex = FALSE,
         NEW q, q = Format([parser EXCEPT !.pos = parser.pos + 1, !.last_utf8_char = 0], s,
                           parser.input[parser.pos + 1])
  PROVE  Reads(doc, part, q, m)
  <1> DEFINE cs == Chars(doc)
             k == Count(doc, part, parser)
             t == [parser EXCEPT !.pos = parser.pos + 1, !.last_utf8_char = 0]
             g == Gl(cs, k)
  <1>1. /\ ~AllHere(doc, part, parser)
        /\ Passage(doc, part, parser) < Lead(doc) + Len(Chars(doc))
        /\ Count(doc, part, parser) = Passage(doc, part, parser) - Lead(doc)
        /\ parser.input[parser.pos + 1] = cs[k + 1]
    BY NextOfText
  <1>00. PICK n, l, w, b, c, p, x, i \in Nat : Located(doc, part, parser, n, l, w, b, c, p, x, i)
    BY PassageFacts
  <1>0. /\ p = parser.pos /\ x = b + p /\ w = Total(doc) /\ n = Len(Chars(doc))
        /\ l = Lead(doc) /\ b = Base(doc, part) /\ l <= b /\ c = doc.cut[part]
        /\ x = Passage(doc, part, parser) /\ i = Len(parser.input)
        /\ Trimmed(doc) => w = l + n + 2
    BY <1>00, Zenon DEF Located
  <1>2. k = x - l /\ x < l + n /\ p < i /\ l <= x /\ k \in Nat /\ k < n
    <2>1. k = x - l /\ x < l + n /\ p < i
      BY <1>0, <1>1, Zenon
    <2>2. x = b + p /\ l <= b
      BY <1>0
    <2> HIDE DEF k
    <2>3. QED
      BY ONLY <2>1, <2>2, x \in Nat, b \in Nat, p \in Nat, i \in Nat, l \in Nat, n \in Nat
  <1>3. cs \in Seq(ASCII) /\ k < Len(cs)
    <2>1. cs \in Seq(ASCII)
      BY DEF TextDocument
    <2>2. QED BY <1>0, <1>2, <2>1, Zenon
  <1>4. /\ parser.input = Text(doc, part) /\ parser.title = TitleOf(doc)
        /\ parser.in_hex = InHexAt(cs, k) /\ parser.already_in_hex = InHexAt(cs, k)
        /\ parser.parsed = Left(g, On(m)) /\ (On(m) <= Len(g) \/ AllHere(doc, part, parser))
    BY Zenon DEF Reads
  <1>5. /\ t.input = parser.input /\ t.pos = parser.pos + 1 /\ t.title = parser.title
        /\ t.ret = parser.ret /\ t.last_utf8_char = 0 /\ t.in_hex = parser.in_hex
        /\ t.already_in_hex = parser.already_in_hex /\ t.parsed = parser.parsed /\ HasFields(t)
    BY DEF HasFields
  <1> HIDE DEF k, cs, t
  <1>6. g \in Seq(Nat) /\ Gl(cs, k + 1) \in Seq(Nat) /\ Gl(cs, k + 1) = g \o TextGlyphs(cs, k + 1)
        /\ TextGlyphs(cs, k + 1) \in Seq(Nat)
    <2>1. k + 1 \in 1..Len(cs)
      BY <1>2, <1>3
    <2>2. TextGlyphs(cs, k + 1) \in Seq(Nat)
      BY <1>3, <2>1, TextGlyphsType
    <2>3. QED BY <1>2, <1>3, <2>2, GlStep
  <1> HIDE DEF g
  <1>7. On(m) \in Nat /\ On(m) <= Len(g)
    BY <1>1, <1>4, OnPages
  <1>8. t.parsed = Left(g, On(m)) /\ t.parsed \in Seq(Nat)
    BY <1>4, <1>5, <1>6, <1>7, LeftFacts
  <1>9. /\ HasFields(q) /\ q.input = t.input /\ q.pos = t.pos /\ q.title = t.title
        /\ q.ret = t.ret /\ q.last_utf8_char = t.last_utf8_char
        /\ q.in_hex = InHexAt(cs, k + 1) /\ q.already_in_hex = InHexAt(cs, k + 1)
        /\ q.parsed = t.parsed \o TextGlyphs(cs, k + 1)
    <2>1. t.in_hex = InHexAt(cs, k) /\ t.already_in_hex = InHexAt(cs, k)
      BY <1>4, <1>5
    <2>2. q = Format(t, s, cs[k + 1])
      BY <1>1 DEF t, cs, k
    <2>3. HasFields(t) /\ k \in Nat /\ t.parsed \in Seq(Nat)
      BY <1>2, <1>5, <1>8
    <2> HIDE DEF t, cs, k
    <2>4. k < Len(cs) /\ cs \in Seq(ASCII) /\ s.in_hex = FALSE
      BY <1>3
    <2>5. /\ Kept(q, t) /\ q.in_hex = InHexAt(cs, k + 1) /\ q.already_in_hex = InHexAt(cs, k + 1)
          /\ q.parsed = t.parsed \o TextGlyphs(cs, k + 1)
      BY ONLY <2>1, <2>2, <2>3, <2>4, FormatText
    <2>6. QED BY <2>5 DEF Kept
  <1>10. q.parsed = Left(Gl(cs, k + 1), On(m)) /\ On(m) <= Len(Gl(cs, k + 1))
    <2>1. PICK e \in Seq(Nat) : e = TextGlyphs(cs, k + 1)
      BY <1>6
    <2>2. SubSeq(g \o e, On(m) + 1, Len(g \o e)) = SubSeq(g, On(m) + 1, Len(g)) \o e
      BY <1>6, <1>7, RestGrows
    <2>3. Left(Gl(cs, k + 1), On(m)) = Left(g, On(m)) \o e
      BY <1>6, <2>1, <2>2 DEF Left
    <2>4. On(m) <= Len(g \o e)
      BY <1>6, <1>7
    <2>5. QED BY <1>6, <1>8, <1>9, <2>1, <2>3, <2>4
  <1>11. /\ Passage(doc, part, q) = x + 1 /\ Count(doc, part, q) = k + 1
         /\ q.pos \in Nat /\ q.pos <= Len(q.input) /\ (Trimmed(doc) => x + 1 # Total(doc) - 1)
    <2>1. q.pos = p + 1 /\ Len(q.input) = i
      BY <1>0, <1>5, <1>9
    <2>2. Passage(doc, part, q) = b + (p + 1) /\ b + (p + 1) = x + 1
      <3>1. b + (p + 1) = x + 1
        BY <1>0
      <3>2. QED BY <1>0, <2>1, <3>1 DEF Passage
    <2>3. Shorter((x + 1) - l, n) = k + 1
      BY <1>2 DEF Shorter
    <2>4. Count(doc, part, q) = k + 1
      BY <1>0, <2>2, <2>3 DEF Count
    <2>5. w = l + n + 2 => x + 1 # w - 1
      BY <1>2
    <2>6. p + 1 \in Nat /\ p + 1 <= i
      BY ONLY <1>2, p \in Nat, i \in Nat
    <2>7. QED BY <1>0, <2>1, <2>2, <2>4, <2>5, <2>6, Zenon
  <1>12. q.ret = "loop" /\ q.input = Text(doc, part) /\ q.title = TitleOf(doc) /\ q.last_utf8_char = 0
    BY <1>4, <1>5, <1>9
  <1>13. QED
    BY <1>9, <1>10, <1>11, <1>12, Zenon DEF Reads, cs

\* A step of the parser at the end of its input, or before it, reads the text on
\* (display_text.h:162).
LEMMA TextParsed ==
  ASSUME doc \in Docs, TextDocument(doc), Clean(doc), part \in 1..Len(doc.cut), TextLayout,
         HasFields(parser), parse_page_text, current_screen = Len(screens),
         NEW m \in Nat, Reads(doc, part, parser, m)
  PROVE  Reads(doc, part, parser', m)
  <1> DEFINE t == [parser EXCEPT !.pos = parser.pos + 1, !.last_utf8_char = 0]
             r == IF parser.pos + 3 >= Len(t.input) THEN "yes" ELSE "no"
             q == [t EXCEPT !.pos = parser.pos + 3, !.ret = r]
  <1>1. /\ parser.pos < Len(parser.input) /\ parser.ret = "loop" /\ Now.in_hex = FALSE
        /\ IF Trimmed(doc) /\ Passage(doc, part, parser) = Total(doc) - 2
           THEN parser' = q ELSE parser' = Format(t, Now, parser.input[parser.pos + 1])
    BY TextTurn
  <1>2. Lead(doc) <= doc.cut[1]
    BY DEF TextLayout
  <1>3. CASE Trimmed(doc) /\ Passage(doc, part, parser) = Total(doc) - 2
    <2>1. parser' = q
      BY <1>1, <1>3, Zenon
    <2>2. /\ HasFields(q) /\ q.input = parser.input /\ q.pos = parser.pos + 3 /\ q.title = parser.title
          /\ q.last_utf8_char = 0 /\ q.in_hex = parser.in_hex
          /\ q.already_in_hex = parser.already_in_hex /\ q.parsed = parser.parsed
      <3> HIDE DEF r
      <3>1. QED BY DEF HasFields
    <2> HIDE DEF q
    <2>3. QED BY <1>1, <1>2, <1>3, <2>1, <2>2, TextTrimmed
  <1>4. CASE ~(Trimmed(doc) /\ Passage(doc, part, parser) = Total(doc) - 2)
    <2>1. parser' = Format(t, Now, parser.input[parser.pos + 1])
      BY <1>1, <1>4, Zenon
    <2>2. QED BY <1>1, <1>2, <1>4, <2>1, TextAdded
  <1>5. QED BY <1>3, <1>4

\* The parser goes on.
LEMMA ReadsAgain ==
  ASSUME NEW d, NEW k, NEW t, NEW m, HasFields(t), Reads(d, k, t, m)
  PROVE  /\ HasFields([t EXCEPT !.ret = "loop"]) /\ Reads(d, k, [t EXCEPT !.ret = "loop"], m)
         /\ [t EXCEPT !.ret = "loop"].parsed = t.parsed
  <1> DEFINE q == [t EXCEPT !.ret = "loop"]
  <1>1. /\ HasFields(q) /\ q.input = t.input /\ q.pos = t.pos /\ q.title = t.title /\ q.ret = "loop"
        /\ q.last_utf8_char = t.last_utf8_char /\ q.in_hex = t.in_hex
        /\ q.already_in_hex = t.already_in_hex /\ q.parsed = t.parsed
    BY DEF HasFields
  <1> HIDE DEF q
  <1>2. /\ Passage(d, k, q) = Passage(d, k, t) /\ AllHere(d, k, q) = AllHere(d, k, t)
        /\ Count(d, k, q) = Count(d, k, t)
    BY <1>1 DEF Passage, AllHere, Count
  <1>3. Reads(d, k, q, m)
    BY <1>1, <1>2, Zenon DEF Reads
  <1>4. QED BY <1>1, <1>3 DEF q

\* The next part goes on where the part ended.
LEMMA ReadsPart ==
  ASSUME NEW d \in Docs, TextDocument(d), NEW k \in 1..Len(d.cut), k < Len(d.cut), Lead(d) <= d.cut[1],
         NEW t, NEW m, HasFields(t), Reads(d, k, t, m), t.pos >= Len(t.input),
         NEW q, q = [t EXCEPT !.input = Text(d, k + 1), !.pos = 0]
  PROVE  HasFields(q) /\ Reads(d, k + 1, q, m)
  <1>00. PICK n, l, w, b, c, p, x, i \in Nat : Located(d, k, t, n, l, w, b, c, p, x, i)
    BY PassageFacts
  <1>0. /\ p = t.pos /\ x = b + p /\ c = d.cut[k] /\ i = Len(t.input) /\ i = c - b /\ b <= c
        /\ x = Passage(d, k, t) /\ p <= i /\ ~AllHere(d, k, t)
    <2>1. /\ p = t.pos /\ x = b + p /\ c = d.cut[k] /\ i = Len(t.input) /\ i = c - b /\ b <= c
          /\ x = Passage(d, k, t) /\ p <= i
      BY <1>00, Zenon DEF Located
    <2>2. k # Len(d.cut)
      BY CutFacts
    <2>3. QED BY <2>1, <2>2 DEF AllHere
  <1>1. /\ HasFields(q) /\ q.input = Text(d, k + 1) /\ q.pos = 0 /\ q.title = t.title /\ q.ret = t.ret
        /\ q.last_utf8_char = t.last_utf8_char /\ q.in_hex = t.in_hex
        /\ q.already_in_hex = t.already_in_hex /\ q.parsed = t.parsed
    BY DEF HasFields
  <1>2. Base(d, k + 1) = c
    BY <1>0, CutFacts
  <1>3. Passage(d, k + 1, q) = Passage(d, k, t) /\ Count(d, k + 1, q) = Count(d, k, t)
    <2>1. x = c
      <3>1. p >= i /\ i = c - b /\ x = b + p /\ p <= i
        BY <1>0
      <3>2. QED BY ONLY <3>1, x \in Nat, c \in Nat, b \in Nat, p \in Nat, i \in Nat
    <2>2. c + 0 = c
      OBVIOUS
    <2>3. Passage(d, k + 1, q) = Passage(d, k, t)
      BY <1>0, <1>1, <1>2, <2>1, <2>2 DEF Passage
    <2>4. QED BY <2>3 DEF Count
  <1>4. q.pos \in Nat /\ q.pos <= Len(q.input)
    <2>1. PICK z \in Nat : z = Len(q.input)
      <3>1. Bytes(d) \in Seq(0..255)
        BY DEF TextDocument
      <3>2. k + 1 \in 1..Len(d.cut)
        BY CutFacts
      <3>3. PICK e \in Nat : e = d.cut[k + 1]
        BY CutFacts
      <3>4. PICK f \in Nat : f = Len(Bytes(d)) /\ e <= f
        <4>1. d.cut[k + 1] <= Total(d)
          BY <3>2, CutFacts
        <4>2. QED BY <3>1, <3>3, <4>1 DEF Total
      <3>5. c <= e
        <4>1. d.cut[k] < d.cut[k + 1]
          BY CutFacts
        <4>2. c < e
          BY <1>0, <3>3, <4>1, Zenon
        <4>3. QED BY ONLY <4>2, c \in Nat, e \in Nat
      <3>6. Len(SubSeq(Bytes(d), c + 1, e)) = e - c
        BY <3>1, <3>4, <3>5, SliceElements
      <3>7. e - c \in Nat
        BY <3>5
      <3>8. QED BY <1>1, <1>2, <3>3, <3>6, <3>7 DEF Text
    <2>2. QED BY <1>1, <2>1
  <1>5. QED
    <2> DEFINE g == Gl(Chars(d), Count(d, k, t))
               h == InHexAt(Chars(d), Count(d, k, t))
    <2>1. /\ t.last_utf8_char = 0 /\ t.title = TitleOf(d) /\ t.in_hex = h /\ t.already_in_hex = h
          /\ t.parsed = Left(g, On(m)) /\ (On(m) <= Len(g) \/ AllHere(d, k, t))
          /\ (t.ret # "loop" => AllHere(d, k, t)) /\ (Trimmed(d) => Passage(d, k, t) # Total(d) - 1)
      BY Zenon DEF Reads
    <2> HIDE DEF g, h
    <2>2. /\ q.last_utf8_char = 0 /\ q.title = TitleOf(d) /\ q.in_hex = h /\ q.already_in_hex = h
          /\ q.parsed = Left(g, On(m)) /\ On(m) <= Len(g) /\ q.ret = "loop"
      BY <1>0, <1>1, <2>1
    <2>3. Reads(d, k + 1, q, m)
      BY <1>1, <1>3, <1>4, <2>1, <2>2, Zenon DEF Reads, g, h
    <2>4. QED BY <1>1, <2>3

\* The pager goes on to the next page of the text.
LEMMA TextSought ==
  ASSUME doc \in Docs, NEW t, HasFields(t), NEW page \in Nat, NEW k \in 1..Len(doc.cut),
         SeekPage(t, page, k), NEW m,
         ~AtMaxPages(page) => Reads(doc, k, t, m)
  PROVE  /\ phase' \in {"ended", "await", "parse"}
         /\ AtMaxPages(page) => phase' # "parse"
         /\ ~AtMaxPages(page) =>
              /\ Reads(doc, k, parser', m) /\ phase' # "await"
              /\ phase' = "ended" => AllHere(doc, k, parser') /\ parser'.parsed = <<>>
  <1>1. k < Len(doc.cut) \/ k = Len(doc.cut)
    <2>1. Len(doc.cut) \in Nat
      BY CutsGrow
    <2>2. QED BY <2>1
  <1>2. CASE on_last_page(t, page, k) /\ phase' = "ended" /\ parser' = t
    <2>1. k = Len(doc.cut) /\ (AtMaxPages(page) \/ (t.pos >= Len(t.input) /\ t.parsed = <<>>))
      BY <1>1, <1>2 DEF on_last_page, txn_is_complete, has_partial_payload
    <2>2. QED BY <1>2, <2>1 DEF AllHere
  <1>3. CASE ~on_last_page(t, page, k) /\ parse_next_page(t, page, k)
    <2>1. /\ phase' = IF AtMaxPages(page) /\ ~txn_is_complete(k) THEN "await" ELSE "parse"
          /\ parser' = [t EXCEPT !.ret = "loop"]
      BY <1>3 DEF parse_next_page
    <2>2. AtMaxPages(page) => phase' = "await"
      BY <1>3, <2>1 DEF on_last_page
    <2>3. ~AtMaxPages(page) => Reads(doc, k, parser', m) /\ phase' = "parse"
      BY <2>1, ReadsAgain
    <2>4. QED BY <2>1, <2>2, <2>3
  <1>4. QED BY <1>2, <1>3 DEF SeekPage

\* How many characters have been read.
LEMMA CountFacts ==
  ASSUME NEW d \in Docs, TextDocument(d), NEW k \in 1..Len(d.cut), Lead(d) <= d.cut[1],
         NEW t, NEW m, Reads(d, k, t, m)
  PROVE  /\ Count(d, k, t) \in Nat /\ Count(d, k, t) <= Len(Chars(d)) /\ Len(Chars(d)) \in Nat
         /\ AllHere(d, k, t) => Count(d, k, t) = Len(Chars(d))
         /\ Chars(d) \in Seq(ASCII) /\ 0 < Len(Chars(d))
  <1>00. PICK n, l, w, b, c, p, x, i \in Nat : Located(d, k, t, n, l, w, b, c, p, x, i)
    BY PassageFacts
  <1>0. /\ x = b + p /\ i = c - b /\ l <= b /\ n = Len(Chars(d)) /\ 0 < n
        /\ Count(d, k, t) = Shorter(x - l, n)
        /\ k = Len(d.cut) => c = w
        /\ Trimmed(d) => w = l + n + 2
        /\ ~Trimmed(d) => w = l + n + 0
        /\ AllHere(d, k, t) <=> k = Len(d.cut) /\ p >= i
    BY <1>00, Zenon DEF Located
  <1>1. Shorter(x - l, n) \in Nat /\ Shorter(x - l, n) <= n
    <2>1. x = b + p /\ l <= b
      BY <1>0
    <2>2. QED BY ONLY <2>1, x \in Nat, b \in Nat, l \in Nat, p \in Nat, n \in Nat DEF Shorter
  <1>2. ASSUME AllHere(d, k, t) PROVE Shorter(x - l, n) = n
    <2>1. p >= i /\ c = w /\ x = b + p /\ i = c - b /\ (w = l + n + 2 \/ w = l + n + 0)
      BY <1>0, <1>2, Zenon
    <2>2. QED
      BY ONLY <2>1, x \in Nat, b \in Nat, l \in Nat, p \in Nat, n \in Nat, c \in Nat, w \in Nat, i \in Nat
         DEF Shorter
  <1>3. Chars(d) \in Seq(ASCII)
    BY DEF TextDocument
  <1>4. QED BY <1>0, <1>1, <1>2, <1>3

\* The text as far as it has been read begins the text.
LEMMA GlyphFacts ==
  ASSUME NEW d \in Docs, TextDocument(d), NEW k \in 1..Len(d.cut), Lead(d) <= d.cut[1],
         NEW t, NEW m, Reads(d, k, t, m)
  PROVE  \E g, z \in Seq(Nat) :
           /\ g = Gl(Chars(d), Count(d, k, t)) /\ Full(Chars(d)) = g \o z
           /\ AllHere(d, k, t) => Full(Chars(d)) = g
           /\ Full(Chars(d)) \in Seq(Nat) /\ 0 < Len(Full(Chars(d)))
           /\ t.parsed = Left(g, On(m)) /\ (On(m) <= Len(g) \/ AllHere(d, k, t))
  <1> DEFINE cs == Chars(d)
             j  == Count(d, k, t)
  <1>1. /\ j \in Nat /\ j <= Len(cs) /\ Len(cs) \in Nat /\ cs \in Seq(ASCII) /\ 0 < Len(cs)
        /\ AllHere(d, k, t) => j = Len(cs)
    BY CountFacts
  <1> HIDE DEF cs, j
  <1>2. /\ Gl(cs, j) \in Seq(Nat) /\ Full(cs) \in Seq(Nat)
        /\ \E z \in Seq(Nat) : Full(cs) = Gl(cs, j) \o z
    <2>1. Len(cs) <= Len(cs)
      BY <1>1
    <2>2. QED BY <1>1, <2>1, GlBegins DEF Full
  <1>3. 0 < Len(Full(cs))
    <2>1. 0 \in Nat /\ 0 <= Len(cs) /\ Len(cs) <= Len(cs)
      BY <1>1
    <2>2. /\ Gl(cs, 0) \in Seq(Nat)
          /\ \E z \in Seq(Nat) : Full(cs) = Gl(cs, 0) \o z /\ (0 < Len(cs) => 0 < Len(z))
      BY <1>1, <2>1, GlBegins DEF Full
    <2>3. PICK z \in Seq(Nat) : Full(cs) = Gl(cs, 0) \o z /\ 0 < Len(z)
      BY <1>1, <2>2
    <2>4. QED BY <2>2, <2>3
  <1>4. AllHere(d, k, t) => Full(cs) = Gl(cs, j)
    BY <1>1 DEF Full
  <1>5. t.parsed = Left(Gl(cs, j), On(m)) /\ (On(m) <= Len(Gl(cs, j)) \/ AllHere(d, k, t))
    BY Zenon DEF Reads, cs, j
  <1>6. QED BY <1>2, <1>3, <1>4, <1>5 DEF cs, j

\* When nothing is left of a text that is all here, as many pages have it.
LEMMA TextEnds ==
  ASSUME NEW d \in Docs, TextDocument(d), NEW k \in 1..Len(d.cut), Lead(d) <= d.cut[1],
         NEW t, NEW m \in Nat, Reads(d, k, t, m), AllHere(d, k, t), t.parsed = <<>>
  PROVE  Len(Full(Chars(d))) <= On(m) /\ m # 0
  <1>1. PICK g \in Seq(Nat) : /\ Full(Chars(d)) = g /\ 0 < Len(g) /\ t.parsed = Left(g, On(m))
    BY GlyphFacts
  <1>2. On(m) \in Nat /\ On(0) = 0
    BY OnPages
  <1>3. On(m) >= Len(g)
    BY <1>1, <1>2, LeftFacts
  <1>4. QED BY <1>1, <1>2, <1>3

\* The next page of a text, and what is left for the one after it.
LEMMA TextPaged ==
  ASSUME NEW d \in Docs, TextDocument(d), NEW k \in 1..Len(d.cut), Lead(d) <= d.cut[1],
         NEW t, NEW m \in Nat, HasFields(t), Reads(d, k, t, m), t.parsed # <<>>,
         Len(t.parsed) < W => AllHere(d, k, t),
         NEW q, q = [t EXCEPT !.parsed = SubSeq(t.parsed, W + 1, Len(t.parsed))]
  PROVE  /\ Reads(d, k, q, m + 1)
         /\ SubSeq(t.parsed, 1, Shorter(W, Len(t.parsed))) = Slice(Full(Chars(d)), m + 1)
         /\ On(m) < Len(Full(Chars(d)))
  <1> DEFINE full == Full(Chars(d))
             s == SubSeq(t.parsed, 1, Shorter(W, Len(t.parsed)))
  <1>1. PICK g, z \in Seq(Nat) :
           /\ g = Gl(Chars(d), Count(d, k, t)) /\ full = g \o z
           /\ AllHere(d, k, t) => full = g
           /\ full \in Seq(Nat) /\ 0 < Len(full)
           /\ t.parsed = Left(g, On(m)) /\ (On(m) <= Len(g) \/ AllHere(d, k, t))
    BY GlyphFacts
  <1>2. PICK a, v \in Nat : /\ a = On(m) /\ v = W /\ On(m + 1) = a + v
                            /\ From(m + 1) = a /\ To(m + 1, full) = Shorter(a + v, Len(full))
    BY OnPages
  <1> HIDE DEF full
  <1>3. PICK lg, lf \in Nat : lg = Len(g) /\ lf = Len(full) /\ lg <= lf /\ (AllHere(d, k, t) => lf = lg)
    <2>1. Len(g \o z) = Len(g) + Len(z) /\ Len(g) \in Nat /\ Len(z) \in Nat
      OBVIOUS
    <2>2. full = g \o z
      BY <1>1
    <2>3. Len(full) \in Nat /\ Len(g) <= Len(full)
      BY ONLY <2>1, <2>2
    <2>4. AllHere(d, k, t) => Len(full) = Len(g)
      BY ONLY <1>1, Zenon
    <2>5. QED BY ONLY <2>1, <2>3, <2>4, Zenon
  <1>4. a < lg /\ t.parsed = Left(g, a) /\ Len(t.parsed) = lg - a
    <2>1. t.parsed = Left(g, a)
      BY <1>1, <1>2
    <2>2. ~(a >= lg)
      BY <1>3, <2>1, LeftFacts
    <2>3. a <= Len(g)
      BY <1>3, <2>2
    <2>4. Len(Left(g, a)) = Len(g) - a
      BY <2>3, LeftFacts
    <2>5. QED BY <1>3, <2>1, <2>2, <2>4
  <1>5. Slice(full, m + 1) = SubSeq(full, a + 1, Shorter(a + v, lf))
    BY <1>2, <1>3 DEF Slice
  <1>6. s = Slice(full, m + 1)
    <2>1. CASE v <= lg - a
      <3>1. Shorter(v, lg - a) = v /\ Shorter(a + v, lf) = a + v /\ a + v <= lg
        BY ONLY <2>1, <1>3, v \in Nat, lg \in Nat, lf \in Nat, a \in Nat DEF Shorter
      <3>2. W = v /\ Len(t.parsed) = lg - a /\ lg = Len(g)
        BY <1>2, <1>3, <1>4
      <3>3. Shorter(W, Len(t.parsed)) = v /\ a + v <= Len(g)
        BY ONLY <3>1, <3>2, Zenon
      <3>4. a + v \in Nat /\ a + 1 \in Nat /\ 0 < a + 1
        BY ONLY v \in Nat, a \in Nat
      <3>5. SubSeq(Left(g, a), 1, v) = SubSeq(g, a + 1, a + v)
        BY ONLY <3>3, g \in Seq(Nat), a \in Nat, v \in Nat, LeftFront
      <3>6. SubSeq(g \o z, a + 1, a + v) = SubSeq(g, a + 1, a + v)
        BY ONLY <3>3, <3>4, g \in Seq(Nat), z \in Seq(Nat), SliceOfBeginning
      <3>7. s = SubSeq(Left(g, a), 1, v)
        BY ONLY <1>4, <3>3, Zenon DEF s
      <3>8. Slice(full, m + 1) = SubSeq(full, a + 1, a + v) /\ full = g \o z
        BY ONLY <1>1, <1>5, <3>1, Zenon
      <3>9. QED BY ONLY <3>5, <3>6, <3>7, <3>8, Zenon
    <2>2. CASE ~(v <= lg - a)
      <3>1. AllHere(d, k, t) /\ full = g /\ lf = lg
        <4>1. Len(t.parsed) < W
          <5>1. W = v /\ Len(t.parsed) = lg - a /\ ~(v <= lg - a)
            BY <1>2, <1>4, <2>2
          <5>2. QED BY ONLY <5>1, v \in Nat, lg \in Nat, a \in Nat
        <4>2. AllHere(d, k, t)
          BY <4>1
        <4>3. QED BY <1>1, <1>3, <4>2, Zenon
      <3>2. Shorter(v, lg - a) = lg - a /\ Shorter(a + v, lg) = lg
        BY ONLY <2>2, v \in Nat, lg \in Nat, a \in Nat DEF Shorter
      <3>3. Shorter(W, Len(t.parsed)) = lg - a /\ Shorter(a + v, lf) = lg
        <4>1. W = v /\ Len(t.parsed) = lg - a /\ lf = lg
          BY <1>2, <1>4, <3>1
        <4>2. QED BY ONLY <3>2, <4>1, Zenon
      <3>4. lg - a \in Nat /\ a + (lg - a) = lg
        BY ONLY <1>4, lg \in Nat, a \in Nat
      <3>5. SubSeq(Left(g, a), 1, lg - a) = SubSeq(g, a + 1, a + (lg - a))
        <4>1. lg <= Len(g)
          BY <1>3
        <4>2. a + (lg - a) <= Len(g)
          BY ONLY <3>4, <4>1, Zenon
        <4>3. QED BY ONLY <3>4, <4>2, g \in Seq(Nat), a \in Nat, LeftFront
      <3>6. s = SubSeq(Left(g, a), 1, lg - a)
        BY ONLY <1>4, <3>3, Zenon DEF s
      <3>7. Slice(full, m + 1) = SubSeq(g, a + 1, lg)
        BY ONLY <1>5, <3>1, <3>3, Zenon
      <3>8. QED BY ONLY <3>4, <3>5, <3>6, <3>7, Zenon
    <2>3. QED BY <2>1, <2>2
  <1>7. Reads(d, k, q, m + 1)
    <2>1. /\ HasFields(q) /\ q.input = t.input /\ q.pos = t.pos /\ q.title = t.title /\ q.ret = t.ret
          /\ q.last_utf8_char = t.last_utf8_char /\ q.in_hex = t.in_hex
          /\ q.already_in_hex = t.already_in_hex /\ q.parsed = Left(t.parsed, W)
      BY DEF HasFields, Left
    <2>2. /\ Passage(d, k, q) = Passage(d, k, t) /\ AllHere(d, k, q) = AllHere(d, k, t)
          /\ Count(d, k, q) = Count(d, k, t)
      BY <2>1 DEF Passage, AllHere, Count
    <2>3. q.parsed = Left(g, On(m + 1))
      <3>1. Left(Left(g, a), v) = Left(g, a + v)
        BY LeftTwice
      <3>2. QED BY <1>2, <1>4, <2>1, <3>1
    <2>4. On(m + 1) <= Len(g) \/ AllHere(d, k, t)
      <3>1. v <= lg - a \/ AllHere(d, k, t)
        <4>1. ~(v <= lg - a) => Len(t.parsed) < W
          BY <1>2, <1>3, <1>4
        <4>2. QED BY <4>1
      <3>2. v <= lg - a => a + v <= lg
        OBVIOUS
      <3>3. QED BY <1>2, <1>3, <3>1, <3>2
    <2>5. g = Gl(Chars(d), Count(d, k, t))
      BY <1>1
    <2>6. QED BY <2>1, <2>2, <2>3, <2>4, <2>5, Zenon DEF Reads
  <1>8. a < lf
    BY <1>3, <1>4
  <1>9. QED BY <1>2, <1>3, <1>6, <1>7, <1>8 DEF full

\* The title of a text is not a field's.
LEMMA TextTitle ==
  ASSUME NEW d, TextDocument(d)
  PROVE  TitleOf(d) \notin Titles
  <1>1. CASE ~Trimmed(d)
    <2>1. TitleOf(d) = "Payload"
      BY <1>1 DEF TitleOf
    <2>2. QED BY <2>1 DEF Titles, AmountTitles, AddressTitles
  <1>2. CASE Trimmed(d)
    <2> DEFINE table == TableOf(d.t.recipient)
               f == Match(table, d.t.payload.name)
    <2>1. f = Function(d.t) /\ f # 0 /\ TitleOf(d) = table[f].title /\ TitleOf(d) \notin {"Stake", "Unstake"}
      BY <1>2 DEF TextDocument, Function, TitleOf
    <2>2. table \in Tables
      BY DEF Tables, TableOf
    <2>3. f \in 0..Len(table)
      BY <2>2, MatchIsPrefix
    <2>4. Len(table) \in Nat
      BY <2>2, TableRows
    <2>5. f \in 1..Len(table)
      BY <2>1, <2>3, <2>4
    <2>6. table \in {SystemFunctions, NameFunctions, EnterpriseFunctions}
      BY <2>2 DEF Tables
    <2> HIDE DEF table, f
    <2>7. CASE table = SystemFunctions
      <3>1. f \in {1, 2, 3, 4}
        BY <2>5, <2>7, SystemRows
      <3>2. f \in {3, 4}
        BY <2>1, <2>7, <3>1, TableTitles
      <3>3. TitleOf(d) \in {"BP Vote", "DAO Vote"}
        BY <2>1, <2>7, <3>2, TableTitles
      <3>4. QED BY <3>3 DEF Titles, AmountTitles, AddressTitles
    <2>8. CASE table = NameFunctions \/ table = EnterpriseFunctions
      BY <2>1, <2>5, <2>8, TableTitles
    <2>9. QED BY <2>6, <2>7, <2>8
  <1>3. QED BY <1>1, <1>2

\* What is known of a review of a text.
LEMMA TextState ==
  ASSUME DInv, FInv, TextInv, Filled, TextDocument(doc)
  PROVE  /\ TextLayout /\ ReadInv /\ HasFields(parser) /\ TypesInv /\ PartsInv /\ CursorInv
         /\ LayoutInv /\ PlaceInv /\ TitleInv
         /\ doc \in Docs /\ ~IsDeploy /\ part \in 1..Len(doc.cut) /\ Len(doc.cut) \in Nat
         /\ Lead(doc) <= doc.cut[1] /\ max_pages \in Nat
         /\ \E n, p, m \in Nat : /\ n = Len(screens) /\ 0 < n /\ p = current_page
                                 /\ m = current_screen /\ m <= n
  <1>1. TextLayout /\ TypesInv /\ PartsInv /\ CursorInv /\ HasFields(parser) /\ doc \in Docs
    BY DEF TextInv, DInv, TypesInv, FInv
  <1>2. Sound
    <2>1. LastScreen(screens).title = TitleOf(doc)
      BY <1>1 DEF TextLayout
    <2>2. TitleOf(doc) \notin {"Stake", "Unstake"} /\ doc.t.address \in Seq(Printable)
      BY DEF TextDocument
    <2>3. QED BY <2>1, <2>2 DEF Sound, LastIsPayload, num_screens, LastScreen
  <1>3. ReadInv /\ LayoutInv /\ PlaceInv /\ TitleInv
    BY <1>2 DEF FInv, ReadInv
  <1>4. ~IsDeploy
    BY DEF TextDocument, IsDeploy
  <1>5. Len(doc.cut) \in Nat
    BY <1>1, DocFields
  <1>6. 0 < part /\ Lead(doc) <= doc.cut[1] /\ part \in Nat /\ part <= Len(doc.cut)
    BY <1>1 DEF TextLayout, TypesInv
  <1>7. part \in 1..Len(doc.cut)
    BY <1>5, <1>6
  <1>8. /\ Len(screens) \in Nat /\ 0 < Len(screens) /\ current_page \in Nat /\ current_screen \in Nat
        /\ current_screen <= Len(screens)
    BY <1>1, <1>3, LayoutLegend DEF TypesInv
  <1>9. max_pages \in Nat
    BY <1>3 DEF LayoutInv
  <1>10. QED BY <1>1, <1>3, <1>4, <1>5, <1>6, <1>7, <1>8, <1>9

\* The parser at the beginning of a text.
LEMMA ReadsStart ==
  ASSUME NEW d \in Docs, TextDocument(d), Lead(d) <= d.cut[1],
         NEW t, t.input = Text(d, 1), t.pos = 0, t.last_utf8_char = 0, t.title = TitleOf(d),
         t.in_hex = FALSE, t.already_in_hex = FALSE, t.parsed = <<>>, t.ret = "loop"
  PROVE  Reads(d, 1, t, 0)
  <1>1. PICK n, l, w \in Nat :
          /\ n = Len(Chars(d)) /\ 0 < n /\ l = Lead(d) /\ w = Total(d) /\ Total(d) = Len(Bytes(d))
          /\ w = l + n + (IF Trimmed(d) THEN 2 ELSE 0)
          /\ Trimmed(d) \in BOOLEAN /\ Chars(d) \in Seq(ASCII) /\ Bytes(d) \in Seq(0..255)
    BY TextFacts
  <1>2. 1 \in 1..Len(d.cut)
    <2>1. Len(d.cut) \in Nat /\ 0 < Len(d.cut)
      BY DocFields
    <2>2. QED BY <2>1
  <1>3. PICK c \in Nat : c = d.cut[1] /\ c <= w /\ l <= c
    BY <1>1, <1>2, CutFacts
  <1>4. Base(d, 1) = l
    BY <1>1 DEF Base
  <1>5. Passage(d, 1, t) = l /\ Count(d, 1, t) = 0
    <2>1. l + 0 = l /\ Shorter(l - l, n) = 0
      BY <1>1 DEF Shorter
    <2>2. Passage(d, 1, t) = l
      BY <1>4, <2>1 DEF Passage
    <2>3. QED BY <1>1, <2>1, <2>2 DEF Count
  <1>6. Gl(Chars(d), 0) = <<>> /\ InHexAt(Chars(d), 0) = FALSE
    <2>1. [i \in 1..0 |-> TextGlyphs(Chars(d), i)] = <<>>
      OBVIOUS
    <2>2. Gl(Chars(d), 0) = <<>>
      BY <2>1, FlattenEmpty DEF Gl
    <2>3. InHexAt(Chars(d), 0) = FALSE
      BY DEF InHexAt
    <2>4. QED BY <2>2, <2>3
  <1>7. On(0) = 0 /\ Left(<<>>, 0) = <<>> /\ Len(<<>>) = 0
    <2>1. <<>> \in Seq(Nat) /\ Len(<<>>) = 0
      OBVIOUS
    <2>2. QED BY <2>1, OnPages, LeftFacts
  <1>8. t.pos \in Nat /\ t.pos <= Len(t.input)
    <2>1. Len(SubSeq(Bytes(d), l + 1, c)) = c - l
      BY <1>1, <1>3, SliceElements
    <2>2. 0 <= c - l
      BY <1>3
    <2>3. QED BY <1>3, <1>4, <2>1, <2>2 DEF Text
  <1>9. Trimmed(d) => Passage(d, 1, t) # Total(d) - 1
    <2>1. l # (l + n + 2) - 1
      BY <1>1
    <2>2. QED BY <1>1, <1>5, <2>1
  <1>10. /\ Gl(Chars(d), Count(d, 1, t)) = <<>> /\ InHexAt(Chars(d), Count(d, 1, t)) = FALSE
         /\ On(0) <= Len(<<>>) /\ <<>> = Left(<<>>, On(0))
    <2>1. 0 <= 0
      OBVIOUS
    <2>2. QED BY <1>5, <1>6, <1>7, <2>1
  <1>11. On(0) <= Len(Gl(Chars(d), Count(d, 1, t))) /\ t.parsed = Left(Gl(Chars(d), Count(d, 1, t)), On(0))
    BY ONLY <1>10, t.parsed = <<>>, Zenon
  <1>12. t.in_hex = InHexAt(Chars(d), Count(d, 1, t)) /\ t.already_in_hex = InHexAt(Chars(d), Count(d, 1, t))
    BY <1>10, Zenon
  <1>13. QED BY <1>8, <1>9, <1>11, <1>12, Zenon DEF Reads

\* A text that is not all here has a full page, when the page is complete.
LEMMA TextAllHere ==
  ASSUME DInv, FInv, TextInv, Filled, TextDocument(doc), phase = "parse", ~Reading, ~WantsPart,
         current_screen = Len(screens), NEW m, Reads(doc, part, parser, m)
  PROVE  Len(parser.parsed) < W => AllHere(doc, part, parser)
  <1>1. /\ TextLayout /\ part \in 1..Len(doc.cut) /\ Len(doc.cut) \in Nat /\ Lead(doc) <= doc.cut[1]
        /\ doc \in Docs
    BY TextState
  <1>2. ~Now.is_multicall
    BY <1>1 DEF TextLayout, Now, LastScreen
  <1>3. SUFFICES ASSUME Len(parser.parsed) < W PROVE AllHere(doc, part, parser)
    OBVIOUS
  <1>4. PICK p, i \in Nat : p = parser.pos /\ i = Len(parser.input)
    <2>1. PICK n, l, w, b, c, p, x, i \in Nat : Located(doc, part, parser, n, l, w, b, c, p, x, i)
      BY <1>1, PassageFacts
    <2>2. p = parser.pos /\ i = Len(parser.input)
      BY <2>1, Zenon DEF Located
    <2>3. QED BY <2>2
  <1>5. CASE parser.ret # "loop"
    BY <1>5 DEF Reads
  <1>6. CASE parser.ret = "loop"
    <2>1. p >= i
      BY <1>3, <1>4, <1>6 DEF Reading
    <2>2. txn_is_complete(part)
      BY <1>2, <1>3, <1>4, <1>6, <2>1 DEF WantsPart, num_screens
    <2>3. part = Len(doc.cut)
      BY <1>1, <2>2 DEF txn_is_complete, has_partial_payload
    <2>4. QED BY <1>4, <2>1, <2>3 DEF AllHere
  <1>7. QED BY <1>5, <1>6

\* What the pages ought to be depends on the screens and on the limit.
LEMMA SamePlan ==
  ASSUME UNCHANGED <<doc, part, screens, max_pages>>
  PROVE  /\ TextLayout' <=> TextLayout
         /\ \A i : PageOf(i)' = PageOf(i)
         /\ \A page : AtMaxPages(page)' <=> AtMaxPages(page)
  BY DEF TextLayout, PageOf, TextPage, AtMaxPages, num_screens

\* The screens are filled.
LEMMA FirstPartText ==
  ASSUME DInv, FInv, TextInv, FirstPart
  PROVE  TextInv'
  <1>1. /\ phase = "start" /\ part' = 1 /\ UNCHANGED <<doc, pageVars, parser, shownVars>>
        /\ doc \in Docs
    BY DEF FirstPart, DInv, TypesInv
  <1>2. Blank
    BY <1>1 DEF DInv, ScreensInv, Waiting
  <1>3. SUFFICES ASSUME Filled', TextDocument(doc) PROVE TextLayout' /\ BookInv'
    BY <1>1 DEF TextInv
  <1>4. Select(doc.cut[1])
    BY <1>3 DEF FirstPart, TextDocument, IsDeploy
  <1> DEFINE size == doc.cut[1]
             r == display_transaction(doc.t, size)
  <1>5. /\ screens' = r.screens /\ max_pages' = r.max_pages
        /\ phase' = CASE Len(r.screens) > MaxScreens -> "overrun"
                      [] Len(r.screens) <= MaxScreens /\ r.sw = 0 -> "idle"
                      [] OTHER -> "refused"
    BY <1>4 DEF Select
  <1>6. phase' \notin {"refused", "overrun"}
    BY <1>3 DEF Filled
  <1>7. size \in Nat
    <2>1. 1 \in 1..Len(doc.cut)
      <3>1. Len(doc.cut) \in Nat /\ 0 < Len(doc.cut)
        BY <1>1, DocFields
      <3>2. QED BY <3>1
    <2>2. QED BY <1>1, <2>1, CutsGrow
  <1>8. LaidOut(doc, r, size)
    BY <1>1, <1>3, <1>7, TextLaidOut
  <1> HIDE DEF r
  <1>9. phase' = "idle" /\ r.sw = 0
    BY <1>5, <1>6
  <1>10. PICK ss, s : screens' = Append(ss, s) /\ TextScreen(doc, ss, s, size) /\ Lead(doc) <= size
    BY <1>5, <1>8, <1>9 DEF LaidOut
  <1>11. IsSeq(ss) /\ \A i \in 1..Len(ss) : IsField(ss[i])
    BY <1>10 DEF TextScreen, FieldsOnly
  <1>12. PICK S, n : ss \in Seq(S) /\ n \in Nat /\ n = Len(ss)
    BY <1>11 DEF IsSeq
  <1>13. /\ Len(screens') = n + 1 /\ screens'[n + 1] = s
         /\ \A i \in 1..n : screens'[i] = ss[i]
    BY <1>10, <1>12
  <1>14. TextLayout'
    <2>1. LastScreen(screens') = s /\ 0 < Len(screens') /\ Len(screens') - 1 = n
      BY <1>12, <1>13 DEF LastScreen
    <2>2. \A i \in 1..n : IsField(screens'[i])
      BY <1>11, <1>12, <1>13
    <2>3. s.text = Text(doc, 1)
      BY <1>10 DEF TextScreen, Text, Base
    <2>4. 0 < 1
      OBVIOUS
    <2>5. QED BY <1>1, <1>10, <2>1, <2>2, <2>3, <2>4 DEF TextLayout, TextScreen
  <1>15. BookInv'
    <2>1. /\ current_screen' = 0 /\ current_page' = 0 /\ pages' = <<>>
      BY <1>1, <1>2 DEF Blank, pageVars, shownVars
    <2>2. 0 # n + 1 /\ ~(1 < 1) /\ Len(<<>>) = 0
      BY <1>12
    <2>3. QED BY <1>1, <1>13, <2>1, <2>2 DEF BookInv
  <1>16. QED BY <1>14, <1>15

\* The pager looks for the next page of the text.
LEMMA BookSought ==
  ASSUME DInv, FInv, TextInv, Filled, TextDocument(doc), BookInv, current_screen = Len(screens),
         SeekPage(parser, current_page, part),
         UNCHANGED <<doc, part, screens, max_pages, current_screen, current_page, pages>>
  PROVE  BookInv'
  <1>1. /\ doc \in Docs /\ HasFields(parser) /\ part \in 1..Len(doc.cut)
        /\ current_page \in Nat
    BY TextState DEF TypesInv
  <1>2. TextRead
    BY DEF BookInv
  <1>3. ~AtMaxPages(current_page) => Reads(doc, part, parser, Turned)
    BY <1>2, Zenon DEF TextRead
  <1>4. /\ phase' \in {"ended", "await", "parse"}
        /\ AtMaxPages(current_page) => phase' # "parse"
        /\ ~AtMaxPages(current_page) =>
             /\ Reads(doc, part, parser', Turned) /\ phase' # "await"
             /\ phase' = "ended" => AllHere(doc, part, parser') /\ parser'.parsed = <<>>
    BY <1>1, <1>3, TextSought
  <1>5. Turned' = Turned /\ (AtMaxPages(current_page)' <=> AtMaxPages(current_page))
    BY DEF Turned, AtMaxPages, num_screens
  <1>6. TextRead'
    BY <1>2, <1>4, <1>5 DEF TextRead
  <1>7. \A i : PageOf(i)' = PageOf(i)
    BY SamePlan
  <1>8. phase' # "idle"
    BY <1>4
  <1>9. QED BY <1>6, <1>7, <1>8 DEF BookInv

\* The user goes on to the next page.
LEMMA NextPressText ==
  ASSUME DInv, FInv, TextInv, NextPress
  PROVE  TextInv'
  <1>1. /\ phase = "idle" /\ UNCHANGED <<doc, part, screens, max_pages, pages, restarted>>
        /\ Filled
    BY DEF NextPress, documentVars, screenVars, shownVars, Filled, Waiting
  <1>2. \/ After < num_screens /\ prepare_screen(screens, After + 1, part)
        \/ /\ After >= num_screens
           /\ SeekPage(parser, After, part)
           /\ current_page' = After
           /\ UNCHANGED current_screen
    BY DEF NextPress, After
  <1>3. SUFFICES ASSUME TextDocument(doc) PROVE TextLayout' /\ (~restarted /\ Clean(doc) => BookInv')
    BY <1>1 DEF TextInv
  <1>4. /\ TextLayout /\ CursorInv /\ PlaceInv /\ doc \in Docs /\ part \in 1..Len(doc.cut)
        /\ Lead(doc) <= doc.cut[1] /\ max_pages \in Nat
    BY <1>1, <1>3, TextState
  <1>5. PICK n, p, m \in Nat : n = Len(screens) /\ 0 < n /\ p = current_page /\ m = current_screen /\ m <= n
    BY <1>1, <1>3, TextState
  <1>6. TextLayout'
    BY <1>1, <1>4, SamePlan
  <1>7. SUFFICES ASSUME ~restarted, Clean(doc) PROVE BookInv'
    BY <1>6
  <1>8. BookInv
    BY <1>1, <1>3, <1>7 DEF TextInv
  <1>9. Len(pages) = p
    BY <1>5, <1>8 DEF BookInv
  <1>10. After = p
    <2>1. p = 0 => current_screen = Len(pages)
      BY <1>1, <1>4, <1>5 DEF CursorInv
    <2>2. QED BY <1>5, <1>9, <2>1 DEF After
  <1>11. CASE p < n /\ prepare_screen(screens, p + 1, part)
    <2>1. part = 1
      <3>1. p < n => m = p
        BY <1>1, <1>5, <1>8 DEF BookInv
      <3>2. 1 < part => m = n
        BY <1>5, <1>8 DEF BookInv
      <3>3. ~(1 < part)
        BY <1>5, <1>11, <3>1, <3>2
      <3>4. part \in Nat /\ 0 < part
        BY <1>4
      <3>5. QED BY <3>3, <3>4
    <2>2. ~AtMaxPages(p)
      BY <1>4, <1>5, <1>11 DEF AtMaxPages, num_screens
    <2> DEFINE t == [reset_text_parser EXCEPT !.title = screens[p + 1].title, !.input = screens[p + 1].text]
    <2>3. /\ current_screen' = p + 1 /\ current_page' = p
          /\ phase' = "parse" /\ parser' = [t EXCEPT !.ret = "loop"]
      <3>1. p = (p + 1) - 1
        BY <1>5
      <3>2. ~AtMaxPages((p + 1) - 1)
        BY <2>2, <3>1
      <3>3. /\ current_screen' = p + 1 /\ current_page' = (p + 1) - 1
            /\ phase' = "parse" /\ parser' = [t EXCEPT !.ret = "loop"]
        BY <1>11, <3>2 DEF prepare_screen, parse_next_page
      <3>4. QED BY <3>1, <3>3
    <2>4. /\ parser'.title = screens[p + 1].title /\ parser'.input = screens[p + 1].text
          /\ parser'.pos = 0 /\ parser'.parsed = <<>> /\ parser'.ret = "loop"
          /\ parser'.last_utf8_char = 0 /\ parser'.in_hex = FALSE /\ parser'.already_in_hex = FALSE
      BY <2>3 DEF reset_text_parser
    <2> HIDE DEF t
    <2>5. ASSUME p + 1 = n PROVE TextRead'
      <3>1. Turned' = 0
        BY <1>1, <1>5, <2>3, <2>5 DEF Turned
      <3>2. AtMaxPages(current_page)' <=> AtMaxPages(p)
        BY <1>1, <2>3, SamePlan DEF AtMaxPages
      <3>3. screens[p + 1] = LastScreen(screens)
        BY <1>5, <2>5 DEF LastScreen
      <3>4. parser'.input = Text(doc, 1) /\ parser'.title = TitleOf(doc)
        BY <1>4, <2>1, <2>4, <3>3 DEF TextLayout
      <3>5. Reads(doc, 1, parser', 0)
        BY <1>3, <1>4, <2>4, <3>4, ReadsStart
      <3>6. 0 \in Nat /\ ~(0 > 0)
        OBVIOUS
      <3>7. QED BY <1>1, <2>1, <2>2, <2>3, <3>1, <3>2, <3>5, <3>6 DEF TextRead
    <2>6. \A i : PageOf(i)' = PageOf(i)
      BY <1>1, SamePlan
    <2>7. ~(1 < 1)
      OBVIOUS
    <2>8. Len(pages') = current_page' /\ \A i \in 1..Len(pages') : pages'[i] = PageOf(i)'
      BY <1>1, <1>8, <1>9, <2>3, <2>6 DEF BookInv
    <2>9. current_screen' = Len(screens') => p + 1 = n
      BY <1>1, <1>5, <2>3
    <2>10. QED BY <1>1, <2>1, <2>3, <2>5, <2>7, <2>8, <2>9 DEF BookInv
  <1>12. CASE /\ p >= n /\ SeekPage(parser, p, part) /\ current_page' = p /\ UNCHANGED current_screen
    <2>1. m = n
      <3>1. AfterScreen
        BY <1>1, <1>4 DEF PlaceInv
      <3>2. QED BY <1>5, <1>12, <3>1 DEF AfterScreen
    <2>2. SeekPage(parser, current_page, part) /\ UNCHANGED current_page /\ current_screen = Len(screens)
      BY <1>5, <1>12, <2>1
    <2>3. QED BY <1>1, <1>3, <1>8, <1>12, <2>2, BookSought
  <1>13. QED BY <1>2, <1>5, <1>10, <1>11, <1>12 DEF num_screens

\* A part of the payload arrives.
LEMMA PayloadPartText ==
  ASSUME DInv, FInv, TextInv, PayloadPart
  PROVE  TextInv'
  <1>1. /\ phase = "await" /\ ~IsDeploy /\ part' = part + 1
        /\ UNCHANGED <<doc, max_pages, pages, page_to_display>>
        /\ screens' = [screens EXCEPT ![Len(screens)].text = PartBytes(doc, part + 1)]
        /\ Filled
    BY DEF PayloadPart, Filled, Waiting, num_screens
  <1>2. \/ restarted' = TRUE
        \/ /\ page_to_display > num_screens
           /\ SeekPage([parser EXCEPT !.input = PartBytes(doc, part + 1), !.pos = 0], current_page, part + 1)
           /\ UNCHANGED <<current_screen, current_page, restarted>>
    BY DEF PayloadPart
  <1>3. SUFFICES ASSUME TextDocument(doc) PROVE TextLayout' /\ (~restarted' /\ Clean(doc) => BookInv')
    BY <1>1 DEF TextInv
  <1>4. /\ TextLayout /\ PartsInv /\ PlaceInv /\ doc \in Docs /\ part \in 1..Len(doc.cut)
        /\ Lead(doc) <= doc.cut[1] /\ Len(doc.cut) \in Nat /\ HasFields(parser) /\ LayoutInv
    BY <1>1, <1>3, TextState
  <1>5. PICK n, p, m \in Nat : n = Len(screens) /\ 0 < n /\ p = current_page /\ m = current_screen /\ m <= n
    BY <1>1, <1>3, TextState
  <1>6. part < Len(doc.cut) /\ part + 1 \in 1..Len(doc.cut) /\ part \in Nat /\ 0 < part + 1
    <2>1. part < Len(doc.cut)
      BY <1>1, <1>4 DEF PartsInv
    <2>2. QED BY <1>4, <2>1
  <1>7. PartBytes(doc, part + 1) = Text(doc, part + 1)
    <2>1. (part + 1) - 1 = part /\ part + 1 # 1
      BY <1>4
    <2>2. QED BY <2>1 DEF PartBytes, Text, Base, Bytes
  <1>8. Len(screens') = Len(screens) /\ \A i \in 1..(n - 1) : screens'[i] = screens[i]
    <2>1. IsSeq(screens)
      BY <1>4, LayoutLegend DEF Legend, Titled
    <2>2. PICK S : screens \in Seq(S)
      BY <2>1 DEF IsSeq
    <2>3. QED BY <1>1, <1>5, <2>2
  <1>9. /\ LastScreen(screens').in_hex = LastScreen(screens).in_hex
        /\ LastScreen(screens').is_multicall = LastScreen(screens).is_multicall
        /\ LastScreen(screens').is_call = LastScreen(screens).is_call
        /\ LastScreen(screens').trim_payload = LastScreen(screens).trim_payload
        /\ LastScreen(screens').title = LastScreen(screens).title
        /\ LastScreen(screens').text = Text(doc, part + 1) /\ IsScreen(LastScreen(screens'))
    <2>1. n \in DOMAIN screens
      <3>1. IsSeq(screens)
        BY <1>4, LayoutLegend DEF Legend, Titled
      <3>2. PICK S : screens \in Seq(S)
        BY <3>1 DEF IsSeq
      <3>3. QED BY <1>5, <3>2
    <2>2. IsScreen(screens[n])
      BY <1>4, <1>5 DEF TextLayout, LastScreen
    <2>3. screens'[n] = [screens[n] EXCEPT !.text = Text(doc, part + 1)]
      BY <1>1, <1>5, <1>7, <2>1
    <2>4. LastScreen(screens') = screens'[n] /\ LastScreen(screens) = screens[n]
      BY <1>5, <1>8 DEF LastScreen
    <2> DEFINE a == screens[n]
               b == screens'[n]
    <2> HIDE DEF a, b
    <2>5. b = [a EXCEPT !.text = Text(doc, part + 1)] /\ IsScreen(a)
      BY <2>2, <2>3 DEF a, b
    <2>6. IsScreen(b) /\ b.in_hex = a.in_hex /\ b.is_multicall = a.is_multicall /\ b.is_call = a.is_call
          /\ b.trim_payload = a.trim_payload /\ b.title = a.title /\ b.text = Text(doc, part + 1)
      BY ONLY <2>5 DEF IsScreen
    <2>7. QED BY <2>4, <2>6 DEF a, b
  <1>10. TextLayout'
    <2>1. /\ IsScreen(LastScreen(screens))
          /\ LastScreen(screens).in_hex = FALSE /\ LastScreen(screens).is_multicall = FALSE
          /\ LastScreen(screens).is_call = FALSE /\ LastScreen(screens).trim_payload = Trimmed(doc)
          /\ LastScreen(screens).title = TitleOf(doc)
          /\ \A i \in 1..(n - 1) : IsField(screens[i])
      BY <1>4, <1>5 DEF TextLayout
    <2>2. /\ 0 < Len(screens') /\ \A i \in 1..(Len(screens') - 1) : IsField(screens'[i])
      BY <1>5, <1>8, <2>1
    <2>3. /\ LastScreen(screens').in_hex = FALSE /\ LastScreen(screens').is_multicall = FALSE
          /\ LastScreen(screens').is_call = FALSE /\ LastScreen(screens').trim_payload = Trimmed(doc)
          /\ LastScreen(screens').title = TitleOf(doc)
      BY ONLY <1>9, <2>1, Zenon
    <2>4. /\ 0 < part' /\ LastScreen(screens').text = Text(doc, part') /\ doc' = doc
          /\ Lead(doc) <= doc.cut[1] /\ IsScreen(LastScreen(screens'))
      BY <1>1, <1>4, <1>6, <1>9
    <2>5. QED BY <2>2, <2>3, <2>4, Zenon DEF TextLayout
  <1>11. SUFFICES ASSUME ~restarted', Clean(doc) PROVE BookInv'
    BY <1>10
  <1>12. /\ page_to_display > num_screens
         /\ SeekPage([parser EXCEPT !.input = PartBytes(doc, part + 1), !.pos = 0], current_page, part + 1)
         /\ UNCHANGED <<current_screen, current_page, restarted>>
    BY <1>2, <1>11
  <1>13. BookInv
    BY <1>1, <1>3, <1>11, <1>12 DEF TextInv
  <1>14. m = n
    BY <1>1, <1>4, <1>5 DEF PlaceInv
  <1>15. TextRead
    BY <1>5, <1>13, <1>14 DEF BookInv
  <1> DEFINE t == [parser EXCEPT !.input = Text(doc, part + 1), !.pos = 0]
  <1>16. HasFields(t) /\ (~AtMaxPages(p) => Reads(doc, part + 1, t, Turned))
    <2>1. HasFields(t)
      BY <1>4 DEF HasFields
    <2>2. ASSUME ~AtMaxPages(p) PROVE Reads(doc, part + 1, t, Turned)
      <3>1. Reads(doc, part, parser, Turned) /\ parser.pos >= Len(parser.input)
        BY <1>1, <1>5, <1>15, <2>2 DEF TextRead
      <3>2. QED BY <1>3, <1>4, <1>6, <3>1, ReadsPart
    <2>3. QED BY <2>1, <2>2
  <1>17. SeekPage(t, p, part + 1)
    BY <1>5, <1>7, <1>12
  <1> HIDE DEF t
  <1>18. /\ phase' \in {"ended", "await", "parse"}
         /\ AtMaxPages(p) => phase' # "parse"
         /\ ~AtMaxPages(p) =>
              /\ Reads(doc, part + 1, parser', Turned) /\ phase' # "await"
              /\ phase' = "ended" => AllHere(doc, part + 1, parser') /\ parser'.parsed = <<>>
    BY <1>4, <1>6, <1>16, <1>17, TextSought
  <1>19. TextRead'
    <2>1. Turned' = Turned /\ (AtMaxPages(current_page)' <=> AtMaxPages(p))
      BY <1>1, <1>5, <1>8, <1>12 DEF Turned, AtMaxPages, num_screens
    <2>2. /\ Turned \in Nat /\ (Turned > 0 => On(Turned - 1) < Len(Full(Chars(doc))))
          /\ AtMaxPages(p) => p = Len(screens) + max_pages
      BY <1>5, <1>15 DEF TextRead
    <2>3. QED BY <1>1, <1>5, <1>8, <1>12, <1>18, <2>1, <2>2 DEF TextRead
  <1>20. \A i \in 1..Len(pages) : PageOf(i)' = PageOf(i)
    <2>1. ASSUME NEW i \in 1..Len(pages) PROVE PageOf(i)' = PageOf(i)
      <3>1. CASE i < n
        <4>1. screens'[i] = screens[i]
          <5>1. Len(pages) \in Nat
            BY <1>5, <1>13 DEF BookInv
          <5>2. i \in 1..(n - 1)
            BY <3>1, <5>1
          <5>3. QED BY <1>8, <5>2
        <4>2. QED BY <1>5, <1>8, <3>1, <4>1 DEF PageOf
      <3>2. CASE ~(i < n)
        BY <1>1, <1>5, <1>8, <3>2 DEF PageOf, TextPage
      <3>3. QED BY <3>1, <3>2
    <2>2. QED BY <2>1
  <1>21. current_screen' = Len(screens') /\ phase' # "idle"
    BY <1>5, <1>8, <1>12, <1>14, <1>18
  <1>22. QED BY <1>1, <1>12, <1>13, <1>19, <1>20, <1>21 DEF BookInv

\* A character is read.
LEMMA ParseText ==
  ASSUME DInv, FInv, TextInv, phase = "parse", parse_page_text \/ parse_multicall_page
  PROVE  TextInv'
  <1>1. UNCHANGED <<doc, part, phase, screens, max_pages, current_screen, current_page, pages, restarted>>
    BY DEF parse_page_text, parse_multicall_page, documentVars, screenVars, pageVars, shownVars
  <1>2. Filled
    BY DEF Filled, Waiting
  <1>3. SUFFICES ASSUME TextDocument(doc) PROVE TextLayout' /\ (~restarted /\ Clean(doc) => BookInv')
    BY <1>1, <1>2 DEF TextInv
  <1>4. /\ TextLayout /\ doc \in Docs /\ part \in 1..Len(doc.cut) /\ HasFields(parser)
    BY <1>2, <1>3, TextState
  <1>5. TextLayout'
    BY <1>1, <1>4, SamePlan
  <1>6. SUFFICES ASSUME ~restarted, Clean(doc) PROVE BookInv'
    BY <1>5
  <1>7. BookInv
    BY <1>2, <1>3, <1>6 DEF TextInv
  <1>8. ASSUME current_screen = Len(screens) PROVE TextRead'
    <2>1. TextRead
      BY <1>7, <1>8 DEF BookInv
    <2>2. ~Now.is_multicall
      BY <1>4, <1>8 DEF TextLayout, Now, LastScreen
    <2>3. parse_page_text
      BY <2>2 DEF parse_multicall_page
    <2>4. ~AtMaxPages(current_page) /\ Reads(doc, part, parser, Turned) /\ Turned \in Nat
      BY <2>1 DEF TextRead
    <2>5. Reads(doc, part, parser', Turned)
      BY <1>3, <1>4, <1>6, <1>8, <2>3, <2>4, TextParsed
    <2>6. Turned' = Turned /\ (AtMaxPages(current_page)' <=> AtMaxPages(current_page))
      BY <1>1 DEF Turned, AtMaxPages, num_screens
    <2>7. QED BY <1>1, <2>1, <2>4, <2>5, <2>6 DEF TextRead
  <1>9. \A i : PageOf(i)' = PageOf(i)
    BY <1>1, SamePlan
  <1>10. QED BY <1>1, <1>7, <1>8, <1>9 DEF BookInv

\* A page of a field has the text of its screen.
LEMMA FieldShown ==
  ASSUME DInv, FInv, TextInv, Filled, TextDocument(doc), phase = "parse", ~Reading,
         current_screen < Len(screens)
  PROVE  /\ PageText(current_page + 1) = Now.text /\ parser.title = Now.title
         /\ parser.parsed # <<>>
  <1>1. /\ TextLayout /\ ReadInv /\ OnScreen /\ TitleInv
    BY TextState DEF PlaceInv, Seeking
  <1>2. PICK n, p, m \in Nat : n = Len(screens) /\ 0 < n /\ p = current_page /\ m = current_screen /\ m <= n
    BY TextState
  <1>3. 0 < m /\ m \in 1..(n - 1) /\ p < m
    <2>1. 0 < current_screen
      BY <1>1, AtPageEnd
    <2>2. m < n
      BY <1>2
    <2>3. p < m
      BY <1>1, <1>2, <2>2 DEF OnScreen
    <2>4. QED BY <1>2, <2>1, <2>2, <2>3
  <1>4. IsField(Now)
    BY <1>1, <1>2, <1>3 DEF TextLayout, Now
  <1>5. /\ FieldText(Now) /\ FieldParser(Now, parser) /\ parser.ret = "loop" /\ Line(Now)
        /\ parser.parsed = SubSeq(Now.text, 1, parser.pos)
    BY <1>1, <1>2, <1>3, <1>4, AtPageEnd
  <1>6. /\ parser.pos \in Nat /\ Len(Now.text) \in Nat /\ 0 < Len(Now.text) /\ parser.pos <= Len(Now.text)
        /\ parser.pos = Len(Now.text) \/ Len(parser.parsed) >= W
    BY <1>5, FieldReadOut
  <1>7. Len(Now.text) <= W /\ Now.text \in Seq(Printable)
    BY <1>4, <1>5 DEF Line, FieldText
  <1>8. Len(parser.parsed) = parser.pos
    BY <1>5, <1>6, <1>7
  <1>9. parser.pos = Len(Now.text)
    BY <1>6, <1>7, <1>8, TextAssumption
  <1>10. parser.parsed = Now.text
    BY <1>5, <1>7, <1>9
  <1>11. /\ PageText(current_page + 1) \in Seq(Printable)
         /\ PageText(current_page + 1) \o Rest = parser.parsed /\ Rest = <<>>
    BY <1>1, <1>4, <1>7, <1>10, FieldPage
  <1>12. PageText(current_page + 1) = Now.text
    <2> DEFINE x == PageText(current_page + 1)
    <2> HIDE DEF x
    <2>1. x \in Seq(Printable) /\ x \o <<>> = Now.text
      BY <1>10, <1>11 DEF x
    <2>2. x \o <<>> = x
      BY <2>1
    <2>3. QED BY <2>1, <2>2 DEF x
  <1>13. parser.title = Now.title
    BY <1>2, <1>3, <1>4, <1>1 DEF TitleInv
  <1>14. parser.parsed # <<>>
    BY <1>6, <1>10
  <1>15. QED BY <1>12, <1>13, <1>14

\* The page of a text that is shown, and the parser after it.
LEMMA TextShown ==
  ASSUME DInv, FInv, TextInv, Filled, TextDocument(doc), phase = "parse", ~Reading, ~WantsPart,
         current_screen = Len(screens), TextRead, parser.parsed # <<>>,
         NEW q, q = [parser EXCEPT !.parsed = SubSeq(parser.parsed, W + 1, Len(parser.parsed))]
  PROVE  /\ Reads(doc, part, q, Turned + 1) /\ On(Turned) < Len(Full(Chars(doc)))
         /\ <<parser.title, PageText(current_page + 1)>> = TextPage(doc, Turned + 1)
         /\ AtMaxPages(current_page + 1) => current_page + 1 = Len(screens) + max_pages
  <1>1. /\ TextLayout /\ HasFields(parser) /\ doc \in Docs /\ part \in 1..Len(doc.cut)
        /\ Lead(doc) <= doc.cut[1] /\ max_pages \in Nat
    BY TextState
  <1>2. PICK n, p, m \in Nat : n = Len(screens) /\ 0 < n /\ p = current_page /\ m = current_screen /\ m <= n
    BY TextState
  <1>3. Turned \in Nat /\ ~AtMaxPages(current_page) /\ Reads(doc, part, parser, Turned)
    BY DEF TextRead
  <1>4. Len(parser.parsed) < W => AllHere(doc, part, parser)
    BY <1>3, TextAllHere
  <1> DEFINE s == SubSeq(parser.parsed, 1, Shorter(W, Len(parser.parsed)))
             x == Slice(Full(Chars(doc)), Turned + 1)
  <1>5. /\ Reads(doc, part, q, Turned + 1) /\ On(Turned) < Len(Full(Chars(doc)))
        /\ s = x
    BY <1>1, <1>3, <1>4, TextPaged
  <1>6. parser.title = Block(doc).title
    BY <1>3 DEF Reads, TextDocument
  <1> HIDE DEF s, x
  <1>7. AtMaxPages(current_page + 1) <=> max_pages > 0 /\ Turned + 1 > max_pages
    <2>1. Turned = p - (n - 1)
      BY <1>2 DEF Turned
    <2>2. (p + 1) - n >= max_pages <=> (p - (n - 1)) + 1 > max_pages
      BY <1>1
    <2>3. QED BY <1>2, <2>1, <2>2 DEF AtMaxPages, num_screens
  <1>8. PageText(current_page + 1) =
          IF AtMaxPages(current_page + 1) /\ Len(s) > 5
          THEN SubSeq(s, 1, Len(s) - 3) \o <<46, 46, 46>> ELSE s
    BY DEF PageText, s
  <1>9. TextPage(doc, Turned + 1) =
          IF max_pages > 0 /\ Turned + 1 > max_pages /\ Len(x) > 5
          THEN <<Block(doc).title, SubSeq(x, 1, Len(x) - 3) \o <<46, 46, 46>> >>
          ELSE <<Block(doc).title, x>>
    BY DEF TextPage, Dotted, x
  <1>10. <<parser.title, PageText(current_page + 1)>> = TextPage(doc, Turned + 1)
    <2>1. CASE AtMaxPages(current_page + 1) /\ Len(x) > 5
      <3>1. max_pages > 0 /\ Turned + 1 > max_pages
        BY <1>7, <2>1
      <3>2. TextPage(doc, Turned + 1) = <<Block(doc).title, SubSeq(x, 1, Len(x) - 3) \o <<46, 46, 46>> >>
        BY ONLY <1>9, <2>1, <3>1, Zenon
      <3>3. PageText(current_page + 1) = SubSeq(x, 1, Len(x) - 3) \o <<46, 46, 46>>
        BY ONLY <1>5, <1>8, <2>1, Zenon
      <3>4. QED BY ONLY <1>6, <3>2, <3>3, Zenon
    <2>2. CASE ~(AtMaxPages(current_page + 1) /\ Len(x) > 5)
      <3>1. ~(max_pages > 0 /\ Turned + 1 > max_pages /\ Len(x) > 5)
        BY ONLY <1>7, <2>2, Zenon
      <3>2. TextPage(doc, Turned + 1) = <<Block(doc).title, x>>
        BY ONLY <1>9, <3>1, Zenon
      <3>3. PageText(current_page + 1) = x
        BY ONLY <1>5, <1>8, <2>2, Zenon
      <3>4. QED BY ONLY <1>6, <3>2, <3>3, Zenon
    <2>3. QED BY ONLY <2>1, <2>2, Zenon
  <1>11. AtMaxPages(current_page + 1) => current_page + 1 = Len(screens) + max_pages
    <2>1. SUFFICES ASSUME AtMaxPages(current_page + 1) PROVE p + 1 = n + max_pages
      BY <1>2
    <2>2. max_pages > 0 /\ (p + 1) - n >= max_pages
      BY <1>2, <2>1 DEF AtMaxPages, num_screens
    <2>3. ~(p - n >= max_pages)
      BY <1>2, <1>3, <2>2 DEF AtMaxPages, num_screens
    <2>4. max_pages \in Nat
      BY <1>1
    <2>5. QED BY ONLY <2>2, <2>3, <2>4, p \in Nat, n \in Nat
  <1>12. QED BY <1>5, <1>10, <1>11

\* A page of the book is displayed.
LEMMA BookGrows ==
  ASSUME DInv, FInv, TextInv, Filled, TextDocument(doc), BookInv, phase = "parse", ~Reading, ~WantsPart,
         parser.parsed # <<>>,
         current_page' = current_page + 1, Show(PageText(current_page + 1)),
         parser' = [parser EXCEPT !.parsed = SubSeq(parser.parsed, W + 1, Len(parser.parsed))],
         UNCHANGED <<doc, part, screens, max_pages, current_screen>>
  PROVE  BookInv'
  <1>1. /\ TextLayout /\ ReadInv /\ OnScreen /\ PlaceInv /\ CursorInv /\ TypesInv
    BY TextState DEF PlaceInv, Seeking
  <1>2. PICK n, p, m \in Nat : n = Len(screens) /\ 0 < n /\ p = current_page /\ m = current_screen /\ m <= n
    BY TextState
  <1> DEFINE e == <<parser.title, PageText(current_page + 1)>>
  <1>3. /\ phase' = "idle" /\ pages' = Append(SubSeq(pages, 1, p), e)
    <2>1. page_to_display - 1 = p
      BY <1>1, <1>2 DEF CursorInv, Seeking
    <2>2. QED BY <2>1 DEF Show
  <1>4. Len(pages) = p /\ \A i \in 1..p : pages[i] = PageOf(i)
    BY <1>2 DEF BookInv
  <1> HIDE DEF e
  <1>5. Len(pages') = p + 1 /\ pages'[p + 1] = e /\ \A i \in 1..p : pages'[i] = pages[i]
    <2>1. IsSeq(pages)
      BY <1>1 DEF TypesInv
    <2>2. PICK S : pages \in Seq(S)
      BY <2>1 DEF IsSeq
    <2>3. SubSeq(pages, 1, p) = pages
      BY <1>4, <2>2
    <2>4. pages \in Seq(S \cup {e}) /\ e \in S \cup {e}
      BY <2>2
    <2>5. QED BY <1>3, <1>4, <2>3, <2>4
  <1>6. (p < n /\ m = p + 1) \/ (p >= n /\ m = n)
    BY <1>1, <1>2 DEF OnScreen
  <1>7. e = PageOf(p + 1) /\ (m = n => TextRead')
    <2>1. CASE m < n
      <3>1. m = p + 1
        BY <1>2, <1>6, <2>1
      <3>2. e = <<Now.title, Now.text>> /\ Now = screens[p + 1]
        BY <1>2, <2>1, <3>1, FieldShown DEF e, Now
      <3>3. p + 1 < n
        BY <2>1, <3>1
      <3>4. QED BY <1>2, <2>1, <3>2, <3>3 DEF PageOf, Entry
    <2>2. CASE m = n
      <3>1. TextRead
        BY <1>2, <2>2 DEF BookInv
      <3>2. /\ Reads(doc, part, parser', Turned + 1) /\ On(Turned) < Len(Full(Chars(doc)))
            /\ e = TextPage(doc, Turned + 1)
            /\ AtMaxPages(p + 1) => p + 1 = n + max_pages
        BY <1>2, <2>2, <3>1, TextShown DEF e
      <3>3. p >= n - 1 /\ Turned = p - (n - 1)
        BY <1>2, <1>6, <2>2 DEF Turned
      <3>4. e = PageOf(p + 1)
        <4>1. ~(p + 1 < n) /\ (p + 1) - (n - 1) = Turned + 1
          BY <1>2, <3>3
        <4>2. QED BY <1>2, <3>2, <4>1 DEF PageOf
      <3>5. TextRead'
        <4>1. Turned' = Turned + 1 /\ Turned + 1 \in Nat /\ (Turned + 1) - 1 = Turned
          <5>1. Turned' = (p + 1) - (n - 1)
            BY <1>2 DEF Turned
          <5>2. QED BY <1>2, <3>3, <5>1
        <4>2. AtMaxPages(current_page)' <=> AtMaxPages(p + 1)
          BY <1>2 DEF AtMaxPages, num_screens
        <4>3. On(Turned' - 1) < Len(Full(Chars(doc)))
          BY <3>2, <4>1
        <4>4. AtMaxPages(p + 1) => current_page' = Len(screens') + max_pages'
          BY <1>2, <3>2
        <4>5. Reads(doc', part', parser', Turned')
          BY <3>2, <4>1
        <4>6. QED BY <1>3, <4>1, <4>2, <4>3, <4>4, <4>5 DEF TextRead
      <3>6. QED BY <3>4, <3>5
    <2>3. QED BY <1>2, <2>1, <2>2
  <1>8. \A i : PageOf(i)' = PageOf(i)
    BY SamePlan
  <1>9. Len(pages') = current_page' /\ \A i \in 1..Len(pages') : pages'[i] = PageOf(i)'
    <2>1. ASSUME NEW i \in 1..(p + 1) PROVE pages'[i] = PageOf(i)
      <3>1. i \in 1..p \/ i = p + 1
        BY <1>2
      <3>2. QED BY <1>4, <1>5, <1>7, <3>1
    <2>2. QED BY <1>2, <1>5, <1>8, <2>1
  <1>10. 1 < part' => current_screen' = Len(screens')
    BY DEF BookInv
  <1>11. current_page' < Len(screens') => current_screen' = current_page'
    BY <1>2, <1>6
  <1>12. current_screen' = Len(screens') => TextRead'
    BY <1>2, <1>7
  <1>13. QED BY <1>9, <1>10, <1>11, <1>12 DEF BookInv

\* The page ends.
LEMMA EndOfPageText ==
  ASSUME DInv, FInv, TextInv, DInv', FInv', EndOfPage
  PROVE  TextInv'
  <1>1. /\ phase = "parse" /\ ~Reading /\ Filled
        /\ UNCHANGED <<doc, part, screens, max_pages, current_screen, restarted>>
    BY DEF EndOfPage, documentVars, screenVars, Filled, Waiting
  <1>2. \/ WantsPart /\ phase' = "await" /\ UNCHANGED <<parser, current_page, pages>>
        \/ /\ ~WantsPart /\ parser.parsed = <<>> /\ page_to_display <= num_screens
        \/ /\ page_to_display > num_screens
           /\ SeekPage(parser, current_page, part) /\ UNCHANGED <<pages, current_page>>
        \/ /\ ~WantsPart /\ parser.parsed # <<>>
           /\ current_page' = current_page + 1 /\ Show(PageText(current_page + 1))
           /\ parser' = [parser EXCEPT !.parsed = SubSeq(parser.parsed, W + 1, Len(parser.parsed))]
    BY DEF EndOfPage
  <1>3. SUFFICES ASSUME TextDocument(doc) PROVE TextLayout' /\ (~restarted /\ Clean(doc) => BookInv')
    BY <1>1 DEF TextInv
  <1>4. /\ TextLayout /\ ReadInv /\ OnScreen /\ PlaceInv /\ CursorInv /\ doc \in Docs
        /\ part \in 1..Len(doc.cut) /\ Lead(doc) <= doc.cut[1]
    BY <1>1, <1>3, TextState DEF PlaceInv, Seeking
  <1>5. PICK n, p, m \in Nat : n = Len(screens) /\ 0 < n /\ p = current_page /\ m = current_screen /\ m <= n
    BY <1>1, <1>3, TextState
  <1>6. TextLayout'
    BY <1>1, <1>4, SamePlan
  <1>7. SUFFICES ASSUME ~restarted, Clean(doc) PROVE BookInv'
    BY <1>6
  <1>8. BookInv /\ page_to_display = p + 1
    BY <1>1, <1>3, <1>4, <1>5, <1>7 DEF TextInv, CursorInv, Seeking
  <1>9. (p < n /\ m = p + 1) \/ (p >= n /\ m = n)
    BY <1>4, <1>5 DEF OnScreen
  <1>10. CASE WantsPart /\ phase' = "await" /\ UNCHANGED <<parser, current_page, pages>>
    <2>1. m = n
      <3>1. Filled'
        <4>1. ~IsDeploy'
          BY <1>1, <1>3 DEF TextDocument, IsDeploy
        <4>2. QED BY <1>10, <4>1 DEF Filled, Waiting
      <3>2. Sound'
        <4>1. LastScreen(screens).title = TitleOf(doc)
          BY <1>4 DEF TextLayout
        <4>2. TitleOf(doc) \notin {"Stake", "Unstake"} /\ doc.t.address \in Seq(Printable)
          BY <1>3 DEF TextDocument
        <4>3. Sound
          BY <4>1, <4>2 DEF Sound, LastIsPayload, num_screens, LastScreen
        <4>4. QED BY <1>1, <4>3 DEF Sound, LastIsPayload, num_screens
      <3>3. PlaceInv'
        BY <3>1, <3>2 DEF FInv, ReadInv
      <3>4. QED BY <1>1, <1>5, <1>10, <3>3 DEF PlaceInv
    <2>2. TextRead
      BY <1>5, <1>8, <2>1 DEF BookInv
    <2>3. ~AtMaxPages(p) /\ Reads(doc, part, parser, Turned)
      BY <1>1, <1>5, <2>2 DEF TextRead
    <2>4. parser.pos >= Len(parser.input)
      <3>1. ~Now.is_multicall
        BY <1>4, <1>5, <2>1 DEF TextLayout, Now, LastScreen
      <3>2. CASE parser.ret = "yes"
        <4>1. "yes" # "loop"
          OBVIOUS
        <4>2. AllHere(doc, part, parser)
          BY <2>3, <3>2, <4>1 DEF Reads
        <4>3. QED BY <4>2 DEF AllHere
      <3>3. CASE parser.ret # "yes"
        BY <1>10, <3>1, <3>3 DEF WantsPart
      <3>4. QED BY <3>2, <3>3
    <2>5. Turned' = Turned /\ (AtMaxPages(current_page)' <=> AtMaxPages(p))
      BY <1>1, <1>5, <1>10 DEF Turned, AtMaxPages, num_screens
    <2>6. TextRead'
      BY <1>1, <1>10, <2>2, <2>3, <2>4, <2>5 DEF TextRead
    <2>7. \A i : PageOf(i)' = PageOf(i)
      BY <1>1, SamePlan
    <2>8. QED BY <1>1, <1>8, <1>10, <2>6, <2>7 DEF BookInv
  <1>11. CASE ~WantsPart /\ parser.parsed = <<>> /\ page_to_display <= num_screens
    <2>1. p < n /\ m = p + 1
      BY <1>5, <1>8, <1>9, <1>11 DEF num_screens
    <2>2. CASE m < n
      BY <1>1, <1>3, <1>5, <1>11, <2>2, FieldShown
    <2>3. CASE m = n
      <3>1. TextRead
        BY <1>5, <1>8, <2>3 DEF BookInv
      <3>2. Reads(doc, part, parser, Turned) /\ Turned \in Nat /\ Turned = 0
        BY <1>1, <1>5, <2>1, <2>3, <3>1 DEF TextRead, Turned
      <3>3. AllHere(doc, part, parser)
        <4>1. Len(parser.parsed) < W
          <5>1. Len(<<>>) = 0 /\ 0 < W
            BY TextAssumption
          <5>2. QED BY <1>11, <5>1
        <4>2. QED BY <1>1, <1>3, <1>5, <1>11, <2>3, <3>2, <4>1, TextAllHere
      <3>4. Turned # 0
        BY <1>3, <1>4, <1>11, <3>2, <3>3, TextEnds
      <3>5. QED BY <3>2, <3>4
    <2>4. QED BY <1>5, <2>2, <2>3
  <1>12. CASE /\ page_to_display > num_screens
              /\ SeekPage(parser, current_page, part) /\ UNCHANGED <<pages, current_page>>
    <2>1. m = n
      BY <1>5, <1>8, <1>9, <1>12 DEF num_screens
    <2>2. current_screen = Len(screens)
      BY <1>5, <2>1
    <2>3. QED BY <1>1, <1>3, <1>8, <1>12, <2>2, BookSought
  <1>13. CASE /\ ~WantsPart /\ parser.parsed # <<>>
              /\ current_page' = current_page + 1 /\ Show(PageText(current_page + 1))
              /\ parser' = [parser EXCEPT !.parsed = SubSeq(parser.parsed, W + 1, Len(parser.parsed))]
    BY <1>1, <1>3, <1>8, <1>13, BookGrows
  <1>14. QED BY <1>2, <1>10, <1>11, <1>12, <1>13

\* No screen is filled at first.
LEMMA InitText == Init => TextInv
  <1>1. Init => ~Filled
    BY DEF Init, Filled, Waiting
  <1>2. QED BY <1>1 DEF TextInv

\* A step in which nothing happens.
LEMMA StopText ==
  ASSUME TextInv, UNCHANGED vars
  PROVE  TextInv'
  <1>1. UNCHANGED <<doc, part, phase, sw, screens, max_pages, current_screen, current_page,
                    page_to_display, parser, global_text, pages, restarted>>
    BY DEF vars, documentVars, screenVars, pageVars, shownVars
  <1>2. Filled' = Filled
    BY <1>1 DEF Filled, Waiting, IsDeploy
  <1>3. TextLayout' <=> TextLayout
    BY <1>1, SamePlan
  <1>4. TextRead' <=> TextRead
    BY <1>1 DEF TextRead, Turned, AtMaxPages, num_screens
  <1>5. \A i : PageOf(i)' = PageOf(i)
    BY <1>1, SamePlan
  <1>6. BookInv' <=> BookInv
    BY <1>1, <1>4, <1>5 DEF BookInv
  <1>7. QED BY <1>1, <1>2, <1>3, <1>6 DEF TextInv

\* Each step, by the action it is.
LEMMA NextText == DInv /\ FInv /\ TextInv /\ [Next]_vars => (DInv /\ FInv /\ TextInv)'
  <1> SUFFICES ASSUME DInv, FInv, TextInv, [Next]_vars PROVE DInv' /\ FInv' /\ TextInv'
    OBVIOUS
  <1>1. DInv' /\ FInv'
    BY NextRead
  <1>2. CASE FirstPart
    BY <1>1, <1>2, FirstPartText
  <1>3. CASE DeployPart
    <2>1. IsDeploy /\ doc' = doc
      BY <1>3 DEF DeployPart
    <2>2. ~TextDocument(doc')
      BY <2>1 DEF IsDeploy, TextDocument
    <2>3. QED BY <1>1, <2>2 DEF TextInv
  <1>4. CASE PayloadPart
    BY <1>1, <1>4, PayloadPartText
  <1>5. CASE NextPress
    BY <1>1, <1>5, NextPressText
  <1>6. CASE parse_page_text \/ parse_multicall_page
    <2>1. phase = "parse"
      BY <1>6 DEF parse_page_text, parse_multicall_page, Reading
    <2>2. QED BY <1>1, <1>6, <2>1, ParseText
  <1>7. CASE EndOfPage
    BY <1>1, <1>7, EndOfPageText
  <1>8. CASE UNCHANGED vars
    BY <1>1, <1>8, StopText
  <1>9. QED BY <1>2, <1>3, <1>4, <1>5, <1>6, <1>7, <1>8 DEF Next, Stop, Parse

\* The invariant holds in every state reached.
LEMMA TextHolds == Spec => [](DInv /\ FInv /\ TextInv)
  BY InitDInv, InitRead, InitText, NextText, PTL DEF Spec

\* The sequences of one element each, one after the other.
LEMMA FlattenSingles ==
  ASSUME NEW S, NEW x \in Seq(S)
  PROVE  FlattenSeq([i \in 1..Len(x) |-> <<x[i]>>]) = x
  <1> DEFINE F(k) == [i \in 1..k |-> <<x[i]>>]
             A == {k \in Nat : k <= Len(x) => F(k) \in Seq(Seq(S)) /\ FlattenSeq(F(k)) = SubSeq(x, 1, k)}
  <1>1. PICK n \in Nat : n = Len(x)
    OBVIOUS
  <1>2. 0 \in A
    <2>1. F(0) = <<>> /\ SubSeq(x, 1, 0) = <<>> /\ <<>> \in Seq(Seq(S))
      OBVIOUS
    <2>2. FlattenSeq(F(0)) = SubSeq(x, 1, 0) /\ F(0) \in Seq(Seq(S))
      BY <2>1, FlattenEmpty, Zenon
    <2> HIDE DEF F
    <2>3. QED BY <2>2
  <1>3. ASSUME NEW k \in Nat, k \in A PROVE k + 1 \in A
    <2>1. SUFFICES ASSUME k + 1 <= n
                   PROVE  F(k + 1) \in Seq(Seq(S)) /\ FlattenSeq(F(k + 1)) = SubSeq(x, 1, k + 1)
      <3> HIDE DEF F
      <3>1. k + 1 \in Nat
        OBVIOUS
      <3>2. QED BY <1>1, <3>1
    <2>2. F(k) \in Seq(Seq(S)) /\ FlattenSeq(F(k)) = SubSeq(x, 1, k)
      <3>1. k <= n
        BY <1>1, <2>1
      <3> HIDE DEF F
      <3>2. QED BY <1>1, <1>3, <3>1
    <2>3. <<x[k + 1]>> \in Seq(S) /\ x[k + 1] \in S
      <3>1. k + 1 \in 1..Len(x)
        BY <1>1, <2>1
      <3>2. x[k + 1] \in S
        BY <3>1
      <3>3. QED BY <3>2
    <2>4. F(k + 1) = Append(F(k), <<x[k + 1]>>)
      <3>1. \A i \in 1..k : <<x[i]>> \in Seq(S)
        <4>1. ASSUME NEW i \in 1..k PROVE <<x[i]>> \in Seq(S)
          <5>1. i \in 1..Len(x)
            BY <1>1, <2>1
          <5>2. x[i] \in S
            BY <5>1
          <5>3. QED BY <5>2
        <4>2. QED BY <4>1
      <3> DEFINE y == [i \in 1..(k + 1) |-> <<x[i]>>]
                 e == <<x[k + 1]>>
      <3>2. Len(F(k)) = k
        OBVIOUS
      <3>3. QED BY <2>2, <2>3, <3>2
    <2> HIDE DEF F
    <2>5. FlattenSeq(F(k + 1)) = SubSeq(x, 1, k) \o <<x[k + 1]>>
      BY <2>2, <2>3, <2>4, FlattenAppend
    <2>6. SubSeq(x, 1, k + 1) = Append(SubSeq(x, 1, k), x[k + 1])
      <3>1. k < Len(x)
        BY <1>1, <2>1
      <3>2. QED BY <3>1, NextElement
    <2>7. SubSeq(x, 1, k) \o <<x[k + 1]>> = Append(SubSeq(x, 1, k), x[k + 1])
      <3>1. SubSeq(x, 1, k) \in Seq(S)
        <4>1. k <= Len(x)
          BY <1>1, <2>1
        <4>2. QED BY <4>1
      <3>2. QED BY <2>3, <3>1
    <2>8. F(k + 1) \in Seq(Seq(S))
      <3>1. \A a \in Seq(Seq(S)), e \in Seq(S) : Append(a, e) \in Seq(Seq(S))
        OBVIOUS
      <3>2. QED BY ONLY <2>2, <2>3, <2>4, <3>1, Zenon
    <2>9. QED BY <2>5, <2>6, <2>7, <2>8
  <1> HIDE DEF F
  <1>4. \A k \in Nat : k \in A
    <2> HIDE DEF A
    <2>1. QED BY <1>2, <1>3, SetInduction
  <1>5. FlattenSeq(F(n)) = SubSeq(x, 1, n)
    <2>1. n <= Len(x)
      BY <1>1
    <2>2. QED BY <1>4, <2>1
  <1>6. SubSeq(x, 1, n) = x
    BY <1>1
  <1>7. QED BY <1>1, <1>5, <1>6 DEF F

\* How many pages a text has.
LEMMA PageCount ==
  ASSUME NEW len \in Nat, NEW w \in Nat, 0 < w, NEW m \in Nat
  PROVE  LET q == (len + w - 1) \div w
         IN  /\ q \in Nat
             /\ 0 < m /\ (m - 1) * w < len => m <= q
             /\ len <= m * w => q <= m
             /\ 0 < len /\ len <= w => q = 1
  <1>1. PICK a \in Nat : a = len + w - 1
    <2>1. len + w - 1 \in Nat
      OBVIOUS
    <2>2. QED BY <2>1
  <1>2. PICK q \in Nat, r \in 0..(w - 1) : q = a \div w /\ a = q * w + r
    BY DivisionTheorem
  <1>3. PICK z \in Nat : z = q * w /\ len <= z /\ z < len + w
    <2>1. q * w \in Nat
      BY LinearNat
    <2>2. PICK z \in Nat : z = q * w
      BY <2>1
    <2>3. len + w - 1 = z + r
      BY <1>1, <1>2, <2>2
    <2>4. QED BY <2>2, <2>3
  <1>4. ASSUME 0 < m, (m - 1) * w < len PROVE m <= q
    <2>1. SUFFICES ASSUME q < m PROVE FALSE
      OBVIOUS
    <2>2. PICK k \in Nat : k = m - 1 /\ q <= k
      <3>1. m - 1 \in Nat /\ q <= m - 1
        BY <2>1
      <3>2. QED BY <3>1
    <2>3. q * w <= k * w
      <3>1. w <= w
        OBVIOUS
      <3>2. QED BY <2>2, <3>1, ProductMonotone
    <2>4. PICK y \in Nat : y = k * w
      <3>1. k * w \in Nat
        OBVIOUS
      <3>2. QED BY <3>1
    <2>5. y < len /\ z <= y
      BY <1>3, <1>4, <2>2, <2>3, <2>4
    <2>6. QED BY <1>3, <2>5
  <1>5. ASSUME len <= m * w PROVE q <= m
    <2>1. SUFFICES ASSUME m < q PROVE FALSE
      OBVIOUS
    <2>2. m * w + w <= q * w
      BY <2>1, MultipleGap
    <2>3. PICK y \in Nat : y = m * w
      <3>1. m * w \in Nat
        OBVIOUS
      <3>2. QED BY <3>1
    <2>4. y + w <= z /\ len <= y
      BY <1>3, <1>5, <2>2, <2>3
    <2>5. QED BY <1>3, <2>4
  <1>6. ASSUME 0 < len, len <= w PROVE q = 1
    <2>1. len - 1 \in 0..(w - 1) /\ a = 1 * w + (len - 1)
      BY <1>1, <1>6
    <2>2. a \div w = 1
      BY <2>1, DivisionIs
    <2>3. QED BY <1>2, <2>2
  <1>7. QED BY <1>1, <1>2, <1>4, <1>5, <1>6

\* The pages of a field that has a line: one.
LEMMA FieldBlockPages ==
  ASSUME NEW s, IsField(s), Line(s)
  PROVE  BlockPages(FieldBlock(s)) = <<Entry(s)>>
  <1> DEFINE b == FieldBlock(s)
  <1>1. /\ Unformatted(s) /\ s.text \in Seq(Printable) /\ 0 < Len(s.text) /\ Len(s.text) <= W
    BY DEF Line, FieldText
  <1>2. b.title = s.title /\ b.chars = s.text /\ b.lead = <<>> /\ b.format = "text"
    BY <1>1 DEF FieldBlock, Unformatted
  <1> HIDE DEF b
  <1> DEFINE x == s.text
  <1> HIDE DEF x
  <1>3. x \in Seq(Printable) /\ 0 < Len(x) /\ Len(x) <= W /\ b.chars = x
    BY <1>1, <1>2 DEF x
  <1>4. \A i \in 1..Len(x) : TextGlyphs(x, i) = <<x[i]>>
    <2>1. ASSUME NEW i \in 1..Len(x) PROVE TextGlyphs(x, i) = <<x[i]>>
      <3>1. \A j \in 1..Len(x) : ~IsControl(x[j])
        <4>1. ASSUME NEW j \in 1..Len(x) PROVE ~IsControl(x[j])
          <5>1. PICK c \in Printable : c = x[j]
            BY <1>3
          <5>2. ~(c < 32)
            BY ONLY c \in Printable DEF Printable
          <5>3. QED BY <5>1, <5>2 DEF IsControl
        <4>2. QED BY <4>1
      <3>2. InHexAt(x, i) = FALSE
        <4>1. \A j \in 1..i : j \in 1..Len(x)
          OBVIOUS
        <4>2. QED BY <3>1, <4>1 DEF InHexAt
      <3>3. (i > 1 /\ InHexAt(x, i - 1)) = FALSE
        <4>1. \A j \in 1..(i - 1) : j \in 1..Len(x)
          OBVIOUS
        <4>2. QED BY <3>1, <4>1 DEF InHexAt
      <3>4. x[i] \in Int /\ x[i] >= 32 /\ x[i] <= 127
        <4>1. PICK c \in Printable : c = x[i]
          BY <1>3
        <4>2. c \in Int /\ c >= 32 /\ c <= 127
          BY ONLY c \in Printable DEF Printable
        <4>3. QED BY ONLY <4>1, <4>2, Zenon
      <3>5. Glyphs(x[i], FALSE) = <<x[i]>>
        BY <3>4 DEF Glyphs
      <3>6. TextGlyphs(x, i) = <<>> \o <<x[i]>>
        BY <3>2, <3>3, <3>5 DEF TextGlyphs
      <3>7. <<>> \o <<x[i]>> = <<x[i]>>
        BY <3>4
      <3>8. QED BY <3>6, <3>7
    <2>2. QED BY <2>1
  <1>5. BlockGlyphs(b) = FlattenSeq([i \in 1..Len(x) |-> TextGlyphs(x, i)])
    BY <1>2, <1>3 DEF BlockGlyphs, TextGlyphs
  <1>6. [i \in 1..Len(x) |-> TextGlyphs(x, i)] = [i \in 1..Len(x) |-> <<x[i]>>]
    BY <1>4, Zenon
  <1>7. BlockGlyphs(b) = x
    BY <1>3, <1>5, <1>6, FlattenSingles
  <1>8. b.lead \o BlockGlyphs(b) = x
    <2>1. <<>> \o x = x
      BY <1>3
    <2>2. QED BY <1>2, <1>7, <2>1, Zenon
  <1>9. BlockPages(b) = [i \in 1..((Len(x) + W - 1) \div W) |->
                           <<b.title, SubSeq(x, (i - 1) * W + 1, Shorter(i * W, Len(x)))>>]
    BY <1>8, Zenon DEF BlockPages
  <1>10. (Len(x) + W - 1) \div W = 1
    <2>1. Len(x) \in Nat /\ W \in Nat /\ 0 < W /\ 1 \in Nat
      BY <1>3, TextAssumption
    <2>2. QED BY <1>3, <2>1, PageCount
  <1>11. \A i \in 1..1 : SubSeq(x, (i - 1) * W + 1, Shorter(i * W, Len(x))) = x
    <2>1. (1 - 1) * W + 1 = 1 /\ Shorter(1 * W, Len(x)) = Len(x)
      <3>1. 1 * W = W /\ (1 - 1) * W = 0 /\ W \in Nat
        BY TextAssumption
      <3>2. W = Len(x) \/ ~(W <= Len(x))
        BY <1>3, <3>1
      <3>3. QED BY <3>1, <3>2 DEF Shorter
    <2>2. SubSeq(x, 1, Len(x)) = x
      BY <1>3
    <2>3. \A i \in 1..1 : i = 1
      OBVIOUS
    <2>4. QED BY <2>1, <2>2, <2>3
  <1>12. BlockPages(b) = [i \in 1..1 |-> <<b.title, x>>]
    <2>1. BlockPages(b) = [i \in 1..1 |-> <<b.title, SubSeq(x, (i - 1) * W + 1, Shorter(i * W, Len(x)))>>]
      BY <1>9, <1>10, Zenon
    <2>2. QED BY <1>11, <2>1, Zenon
  <1>13. [i \in 1..1 |-> <<b.title, x>>] = << <<b.title, x>> >>
    OBVIOUS
  <1>14. QED BY <1>2, <1>12, <1>13 DEF Entry, b, x

\* The pages of the text.
LEMMA TextBlockPages ==
  ASSUME NEW d \in Docs, TextDocument(d)
  PROVE  BlockPages(Block(d)) =
           [i \in 1..Lines(Full(Chars(d))) |-> <<Block(d).title, Slice(Full(Chars(d)), i)>>]
  <1> DEFINE b == Block(d)
             g == Full(Chars(d))
  <1>1. b.format = "text" /\ b.lead = <<>> /\ b.chars = Chars(d)
    BY DEF TextDocument, Chars
  <1>2. g \in Seq(Nat)
    <2>1. PICK n \in Nat : n = Len(Chars(d)) /\ Chars(d) \in Seq(ASCII)
      BY TextFacts
    <2>2. n <= n /\ n <= Len(Chars(d))
      BY <2>1
    <2>3. QED BY <2>1, <2>2, GlBegins DEF Full
  <1> HIDE DEF b
  <1>3. BlockGlyphs(b) = g
    BY <1>1 DEF BlockGlyphs, Full, Gl, TextGlyphs
  <1> HIDE DEF g
  <1>4. b.lead \o BlockGlyphs(b) = g
    <2>1. <<>> \o g = g
      BY <1>2
    <2>2. QED BY <1>1, <1>3, <2>1, Zenon
  <1>5. BlockPages(b) = [i \in 1..((Len(g) + W - 1) \div W) |->
                           <<b.title, SubSeq(g, (i - 1) * W + 1, Shorter(i * W, Len(g)))>>]
    BY <1>4, Zenon DEF BlockPages
  <1>6. BlockPages(b) = [i \in 1..Lines(g) |-> <<b.title, Slice(g, i)>>]
    BY <1>5, Zenon DEF Lines, Slice, From, To
  <1>7. QED BY <1>6 DEF b, g

\* The pages before any is cut, of n screens and a text of q pages.
AllPages(n, q) ==
  [i \in 1..(n - 1 + q) |->
     IF i < n THEN Entry(screens[i])
              ELSE <<Block(doc).title, Slice(Full(Chars(doc)), i - (n - 1))>>]

\* What ought to be displayed: all the pages, up to the limit.
LEMMA AllExpected ==
  ASSUME DInv, FInv, TextInv, Filled, TextDocument(doc), NEW n \in Nat, n = Len(screens),
         NEW q \in Nat, q = Lines(Full(Chars(doc)))
  PROVE  LET all == AllPages(n, q)
             last == n + max_pages
         IN  Expected = IF max_pages = 0 \/ Len(all) < last THEN all
                        ELSE [i \in 1..last |->
                                IF i = last /\ Len(all[i][2]) > 5 THEN Dotted(all[i]) ELSE all[i]]
  <1>1. /\ TextLayout /\ doc \in Docs /\ LayoutInv /\ 0 < n
    BY TextState
  <1> DEFINE fields == [k \in 1..(IF doc.blocks = <<>> THEN num_screens ELSE num_screens - 1) |->
                          BlockPages(FieldBlock(screens[k]))]
             texts  == [i \in 1..Len(doc.blocks) |-> BlockPages(doc.blocks[i])]
             first  == [k \in 1..(n - 1) |-> Entry(screens[k])]
             slices == [i \in 1..q |-> <<Block(doc).title, Slice(Full(Chars(doc)), i)>>]
             T == {Entry(screens[k]) : k \in 1..(n - 1)}
                    \cup {<<Block(doc).title, Slice(Full(Chars(doc)), i)>> : i \in 1..q}
  <1>2. Len(doc.blocks) = 1 /\ doc.blocks # <<>>
    <2>1. Len(<<>>) = 0 /\ 0 # 1
      OBVIOUS
    <2>2. Len(doc.blocks) = 1
      BY Zenon DEF TextDocument
    <2>3. QED BY ONLY <2>1, <2>2, Zenon
  <1>3. \A k \in 1..(n - 1) : BlockPages(FieldBlock(screens[k])) = <<Entry(screens[k])>>
    <2>1. ASSUME NEW k \in 1..(n - 1)
          PROVE  BlockPages(FieldBlock(screens[k])) = <<Entry(screens[k])>>
      <3>1. IsField(screens[k])
        BY <1>1 DEF TextLayout
      <3>2. Line(screens[k])
        BY <1>1, LayoutLegend DEF Legend
      <3>3. QED BY <3>1, <3>2, FieldBlockPages
    <2>2. QED BY <2>1
  <1>4. fields = [k \in 1..(n - 1) |-> <<Entry(screens[k])>>]
    <2>1. fields = [k \in 1..(n - 1) |-> BlockPages(FieldBlock(screens[k]))]
      BY <1>2 DEF num_screens
    <2>2. QED BY <1>3, <2>1, Zenon
  <1>5. texts = <<slices>>
    <2>1. texts = [i \in 1..1 |-> BlockPages(doc.blocks[i])]
      BY <1>2
    <2>2. BlockPages(doc.blocks[1]) = slices
      BY <1>1, TextBlockPages DEF Block
    <2>3. \A i \in 1..1 : i = 1
      OBVIOUS
    <2>4. texts = [i \in 1..1 |-> slices]
      BY <2>1, <2>2, <2>3
    <2> HIDE DEF texts, slices
    <2>5. QED BY <2>4
  <1>6. first \in Seq(T) /\ Len(first) = n - 1 /\ \A k \in 1..(n - 1) : first[k] = Entry(screens[k])
    <2>1. n - 1 \in Nat
      BY <1>1
    <2>2. \A k \in 1..(n - 1) : Entry(screens[k]) \in T
      OBVIOUS
    <2> HIDE DEF T
    <2>3. QED BY <2>1, <2>2
  <1>7. /\ slices \in Seq(T) /\ Len(slices) = q
        /\ \A i \in 1..q : slices[i] = <<Block(doc).title, Slice(Full(Chars(doc)), i)>>
    <2>1. \A i \in 1..q : <<Block(doc).title, Slice(Full(Chars(doc)), i)>> \in T
      OBVIOUS
    <2> HIDE DEF T
    <2>2. QED BY <2>1
  <1>8. FlattenSeq(fields) = first /\ fields \in Seq(Seq(T))
    <2>1. [k \in 1..(n - 1) |-> <<Entry(screens[k])>>] = [k \in 1..Len(first) |-> <<first[k]>>]
      BY <1>6, Zenon
    <2>2. FlattenSeq([k \in 1..Len(first) |-> <<first[k]>>]) = first
      BY ONLY <1>6, FlattenSingles
    <2>3. \A k \in 1..(n - 1) : <<Entry(screens[k])>> \in Seq(T)
      <3>1. \A k \in 1..(n - 1) : Entry(screens[k]) \in T
        OBVIOUS
      <3> HIDE DEF T
      <3>2. \A e \in T : <<e>> \in Seq(T)
        OBVIOUS
      <3>3. QED BY <3>1, <3>2
    <2>4. n - 1 \in Nat
      BY <1>1
    <2> HIDE DEF T, first, fields
    <2>5. [k \in 1..(n - 1) |-> <<Entry(screens[k])>>] \in Seq(Seq(T))
      BY <2>3, <2>4
    <2>6. QED BY <1>4, <2>1, <2>2, <2>5, Zenon
  <1> HIDE DEF T, first, fields, slices, texts
  <1>9. FlattenSeq(fields \o texts) = first \o slices
    <2>1. <<slices>> \in Seq(Seq(T)) /\ FlattenSeq(<<slices>>) = slices
      BY <1>7, FlattenOne
    <2>2. FlattenSeq(fields \o <<slices>>) = FlattenSeq(fields) \o FlattenSeq(<<slices>>)
      BY ONLY <1>8, <2>1, FlattenConcat
    <2>3. QED BY <1>5, <1>8, <2>1, <2>2, Zenon
  <1>10. first \o slices = AllPages(n, q)
    <2> DEFINE all == AllPages(n, q)
    <2>1. PICK f \in Nat : f = n - 1
      <3>1. n - 1 \in Nat
        BY <1>1
      <3>2. QED BY <3>1
    <2>2. \A i \in 1..(n - 1 + q) : all[i] = IF i < n THEN Entry(screens[i])
                                   ELSE <<Block(doc).title, Slice(Full(Chars(doc)), i - (n - 1))>>
      BY DEF AllPages
    <2>3. \A i \in 1..f : all[i] = first[i]
      <3>1. \A i \in 1..f : i \in 1..(n - 1 + q) /\ i < n
        BY <2>1
      <3>2. QED BY <1>6, <2>1, <2>2, <3>1
    <2>4. \A i \in 1..q : all[f + i] = slices[i]
      <3>1. ASSUME NEW i \in 1..q PROVE all[f + i] = slices[i]
        <4>1. f + i \in 1..(n - 1 + q) /\ ~(f + i < n) /\ (f + i) - (n - 1) = i
          BY <2>1
        <4>2. QED BY <1>7, <2>2, <4>1
      <3>2. QED BY <3>1
    <2>5. all \in Seq(T) /\ Len(all) = f + q
      <3>1. \A i \in 1..(f + q) : all[i] \in T
        <4>1. ASSUME NEW i \in 1..(f + q) PROVE all[i] \in T
          <5>1. CASE i <= f
            <6>1. i \in 1..f /\ first[i] \in T
              BY <1>6, <2>1, <5>1
            <6>2. QED BY <2>3, <6>1
          <5>2. CASE ~(i <= f)
            <6>1. PICK j \in 1..q : i = f + j
              <7>1. i - f \in 1..q /\ i = f + (i - f)
                BY <5>2
              <7>2. QED BY <7>1
            <6>2. slices[j] \in T
              BY <1>7
            <6>3. QED BY <2>4, <6>1, <6>2
          <5>3. QED BY <5>1, <5>2
        <4>2. QED BY <4>1
      <3>2. all = [i \in 1..(f + q) |-> all[i]]
        BY <2>1 DEF AllPages
      <3> HIDE DEF all
      <3>3. QED BY <3>1, <3>2
    <2> HIDE DEF all
    <2>6. all = first \o slices
      <3>1. Len(first) = f /\ Len(slices) = q
        BY <1>6, <1>7, <2>1
      <3>2. first \in Seq(T) /\ slices \in Seq(T) /\ all \in Seq(T)
        BY <1>6, <1>7, <2>5
      <3>3. Len(all) = Len(first) + Len(slices)
        BY ONLY <2>5, <3>1, Zenon
      <3>4. \A i \in 1..Len(first) : all[i] = first[i]
        BY ONLY <2>3, <3>1, Zenon
      <3>5. \A i \in 1..Len(slices) : all[Len(first) + i] = slices[i]
        BY ONLY <2>4, <3>1, Zenon
      <3>6. QED BY ONLY <3>2, <3>3, <3>4, <3>5, SequencesJoined
    <2>7. QED BY <2>6 DEF all
  <1>11. FlattenSeq(fields \o texts) = AllPages(n, q)
    BY <1>9, <1>10, Zenon
  <1>12. num_screens + max_pages = n + max_pages
    BY DEF num_screens
  <1> DEFINE P(all, last) ==
               IF max_pages = 0 \/ Len(all) < last THEN all
               ELSE [i \in 1..last |->
                       IF i = last /\ Len(all[i][2]) > 5 THEN Dotted(all[i]) ELSE all[i]]
  <1>13. Expected = P(FlattenSeq(fields \o texts), num_screens + max_pages)
    BY Zenon DEF Expected, fields, texts
  <1>14. Expected = P(AllPages(n, q), n + max_pages)
    <2> HIDE DEF P
    <2>1. QED BY <1>11, <1>12, <1>13, Zenon
  <1>15. QED BY <1>14, Zenon

Book(k) == [i \in 1..k |-> PageOf(i)]

\* The number of pages there ought to be, of n screens and a text of q pages.
LastPage(n, q) == IF max_pages = 0 \/ n - 1 + q < n + max_pages THEN n - 1 + q ELSE n + max_pages

\* What ought to be displayed is the pages PageOf says.
LEMMA ExpectedIsBook ==
  ASSUME DInv, FInv, TextInv, Filled, TextDocument(doc), NEW n \in Nat, n = Len(screens),
         NEW q \in Nat, q = Lines(Full(Chars(doc)))
  PROVE  Expected = Book(LastPage(n, q))
  <1> DEFINE all == AllPages(n, q)
             last == n + max_pages
             page(i) == <<Block(doc).title, Slice(Full(Chars(doc)), i - (n - 1))>>
  <1>1. max_pages \in Nat /\ 0 < n
    BY TextState
  <1>2. Expected = IF max_pages = 0 \/ Len(all) < last THEN all
                   ELSE [i \in 1..last |->
                           IF i = last /\ Len(all[i][2]) > 5 THEN Dotted(all[i]) ELSE all[i]]
    BY AllExpected
  <1>3. /\ Len(all) = n - 1 + q
        /\ all = [i \in 1..(n - 1 + q) |-> IF i < n THEN Entry(screens[i]) ELSE page(i)]
    <2>1. n - 1 + q \in Nat
      BY <1>1
    <2>2. QED BY <2>1 DEF AllPages
  <1>4. \A i : PageOf(i) = IF i < n THEN Entry(screens[i])
                           ELSE IF max_pages > 0 /\ i - (n - 1) > max_pages /\ Len(page(i)[2]) > 5
                                THEN Dotted(page(i)) ELSE page(i)
    BY DEF PageOf, TextPage
  <1> HIDE DEF all, page
  <1>5. CASE max_pages = 0 \/ n - 1 + q < n + max_pages
    <2>1. ASSUME NEW i \in 1..(n - 1 + q)
          PROVE  PageOf(i) = IF i < n THEN Entry(screens[i]) ELSE page(i)
      <3>1. ~(max_pages > 0 /\ i - (n - 1) > max_pages)
        BY <1>1, <1>5
      <3>2. QED BY <1>4, <3>1, Zenon
    <2>2. Book(n - 1 + q) = all
      BY <1>3, <2>1, Zenon DEF Book
    <2>3. Expected = all /\ LastPage(n, q) = n - 1 + q
      <3>1. max_pages = 0 \/ Len(all) < last
        BY <1>3, <1>5
      <3>2. Expected = all
        BY ONLY <1>2, <3>1, Zenon
      <3>3. LastPage(n, q) = n - 1 + q
        BY ONLY <1>5, Zenon DEF LastPage
      <3>4. QED BY <3>2, <3>3
    <2>4. QED BY ONLY <2>2, <2>3, Zenon
  <1>6. CASE ~(max_pages = 0 \/ n - 1 + q < n + max_pages)
    <2>1. ASSUME NEW i \in 1..last
          PROVE  PageOf(i) = IF i = last /\ Len(all[i][2]) > 5 THEN Dotted(all[i]) ELSE all[i]
      <3>1. i \in 1..(n - 1 + q)
        BY <1>1, <1>6
      <3>2. all[i] = IF i < n THEN Entry(screens[i]) ELSE page(i)
        BY <1>3, <3>1
      <3>3. CASE i < n
        <4>1. i # last
          BY <1>1, <3>3
        <4>2. QED BY ONLY <1>4, <3>2, <3>3, <4>1, Zenon
      <3>4. CASE ~(i < n)
        <4>1. (max_pages > 0 /\ i - (n - 1) > max_pages) <=> i = last
          BY <1>1, <1>6
        <4>2. all[i] = page(i)
          BY ONLY <3>2, <3>4, Zenon
        <4>3. PageOf(i) = IF max_pages > 0 /\ i - (n - 1) > max_pages /\ Len(page(i)[2]) > 5
                          THEN Dotted(page(i)) ELSE page(i)
          BY ONLY <1>4, <3>4, Zenon
        <4>4. CASE i = last
          BY ONLY <4>1, <4>2, <4>3, <4>4, Zenon
        <4>5. CASE i # last
          BY ONLY <4>1, <4>2, <4>3, <4>5, Zenon
        <4>6. QED BY ONLY <4>4, <4>5, Zenon
      <3>5. QED BY ONLY <3>3, <3>4, Zenon
    <2>2. Book(last) = [i \in 1..last |->
                          IF i = last /\ Len(all[i][2]) > 5 THEN Dotted(all[i]) ELSE all[i]]
      BY ONLY <2>1, Zenon DEF Book
    <2>3. ~(max_pages = 0 \/ Len(all) < last)
      BY <1>3, <1>6
    <2>4. Expected = Book(last)
      BY ONLY <1>2, <2>2, <2>3, Zenon
    <2>5. LastPage(n, q) = last
      BY ONLY <1>6, Zenon DEF LastPage
    <2>6. QED BY ONLY <2>4, <2>5, Zenon
  <1>7. QED BY <1>5, <1>6

\* The beginning of a book.
LEMMA BookBegins ==
  ASSUME NEW k \in Nat, NEW p \in Nat, p <= k
  PROVE  SubSeq(Book(k), 1, p) = Book(p)
  <1> DEFINE R == {PageOf(i) : i \in 1..k}
             x == Book(k)
             y == Book(p)
  <1>1. x \in Seq(R) /\ Len(x) = k /\ \A i \in 1..k : x[i] = PageOf(i)
    <2>1. \A i \in 1..k : PageOf(i) \in R
      OBVIOUS
    <2> HIDE DEF R
    <2>2. QED BY <2>1 DEF Book
  <1>2. y \in Seq(R) /\ Len(y) = p /\ \A i \in 1..p : y[i] = PageOf(i)
    <2>1. \A i \in 1..p : PageOf(i) \in R
      <3>1. \A i \in 1..p : i \in 1..k
        OBVIOUS
      <3>2. QED BY <3>1
    <2> HIDE DEF R
    <2>2. QED BY <2>1 DEF Book
  <1> HIDE DEF R, x, y
  <1>3. SubSeq(x, 1, p) = y
    <2>1. /\ SubSeq(x, 1, p) \in Seq(R) /\ Len(SubSeq(x, 1, p)) = p
          /\ \A i \in 1..p : SubSeq(x, 1, p)[i] = x[i]
      BY <1>1
    <2>2. \A i \in 1..p : SubSeq(x, 1, p)[i] = y[i]
      <3>1. \A i \in 1..p : i \in 1..k
        OBVIOUS
      <3>2. QED BY <1>1, <1>2, <2>1, <3>1
    <2> DEFINE z == SubSeq(x, 1, p)
    <2> HIDE DEF z
    <2>3. z \in Seq(R) /\ Len(z) = p /\ \A i \in 1..p : z[i] = y[i]
      BY <2>1, <2>2 DEF z
    <2>4. z = y
      BY ONLY <1>2, <2>3, p \in Nat
    <2>5. QED BY <2>4 DEF z
  <1>4. QED BY <1>3 DEF x, y

\* The pages of a text on the display are those it ought to have.
LEMMA BookComplete ==
  ASSUME DInv, FInv, TextInv, TextDocument(doc), phase \in {"idle", "ended"}, ~restarted, Clean(doc)
  PROVE  pages = IF phase = "ended" THEN Expected ELSE SubSeq(Expected, 1, current_page)
  <1>1. Filled
    <2>1. ~IsDeploy
      BY DEF TextDocument, IsDeploy
    <2>2. QED BY <2>1 DEF Filled, Waiting
  <1>2. BookInv /\ PlaceInv /\ TypesInv /\ doc \in Docs /\ max_pages \in Nat
        /\ part \in 1..Len(doc.cut) /\ Lead(doc) <= doc.cut[1]
    BY <1>1, TextState DEF TextInv
  <1>3. PICK n, p, m \in Nat : n = Len(screens) /\ 0 < n /\ p = current_page /\ m = current_screen /\ m <= n
    BY <1>1, TextState
  <1>4. PICK len, w \in Nat : len = Len(Full(Chars(doc))) /\ w = W /\ 0 < w
    <2>1. PICK l \in Nat : l = Len(Chars(doc)) /\ Chars(doc) \in Seq(ASCII)
      BY <1>2, TextFacts
    <2>2. l <= l /\ l <= Len(Chars(doc))
      BY <2>1
    <2>3. Full(Chars(doc)) \in Seq(Nat)
      BY <2>1, <2>2, GlBegins DEF Full
    <2>4. Len(Full(Chars(doc))) \in Nat
      BY <2>3
    <2>5. QED BY <2>4, TextAssumption
  <1>5. PICK q \in Nat : /\ q = Lines(Full(Chars(doc))) /\ q = (len + w - 1) \div w
    <2>1. (len + w - 1) \div w \in Nat
      BY <1>4, PageCount
    <2>2. QED BY <1>4, <2>1 DEF Lines
  <1>6. \A k \in Nat : /\ 0 < k /\ (k - 1) * w < len => k <= q
                       /\ len <= k * w => q <= k
    BY <1>4, <1>5, PageCount
  <1>7. Expected = Book(LastPage(n, q))
    BY <1>1, <1>3, <1>5, ExpectedIsBook
  <1>8. pages = Book(p)
    <2>1. IsSeq(pages) /\ Len(pages) = p /\ \A i \in 1..p : pages[i] = PageOf(i)
      BY <1>2, <1>3 DEF TypesInv, BookInv
    <2>2. PICK S : pages \in Seq(S)
      BY <2>1 DEF IsSeq
    <2>3. pages = [i \in 1..p |-> pages[i]]
      BY <2>1, <2>2
    <2>4. QED BY ONLY <2>1, <2>3, Zenon DEF Book
  <1>9. p >= n => m = n
    <2>1. phase = "idle" => AfterScreen
      BY <1>2 DEF PlaceInv
    <2>2. phase = "ended" => m = n
      BY <1>2, <1>3 DEF PlaceInv
    <2>3. QED BY <1>3, <2>1, <2>2 DEF AfterScreen
  <1>10. ASSUME m = n
         PROVE  /\ p - (n - 1) \in Nat /\ p - (n - 1) <= q
                /\ max_pages > 0 => p <= n + max_pages
                /\ phase = "ended" =>
                     \/ max_pages > 0 /\ p = n + max_pages
                     \/ /\ max_pages = 0 \/ p < n + max_pages
                        /\ q <= p - (n - 1)
    <2>1. TextRead
      BY <1>2, <1>3, <1>10 DEF BookInv
    <2>2. PICK k \in Nat : k = Turned /\ k = p - (n - 1)
      BY <1>3, <2>1 DEF TextRead, Turned
    <2>3. k <= q
      <3>1. 0 < k => On(k - 1) < Len(Full(Chars(doc)))
        BY <2>1, <2>2 DEF TextRead
      <3>2. 0 < k => (k - 1) * w < len
        BY <1>4, <3>1 DEF On
      <3>3. 0 < k => k <= q
        BY <1>6, <3>2
      <3>4. QED BY <3>3
    <2>4. AtMaxPages(p) <=> max_pages > 0 /\ p - n >= max_pages
      BY <1>3 DEF AtMaxPages, num_screens
    <2>5. AtMaxPages(p) => p = n + max_pages
      BY <1>3, <2>1 DEF TextRead
    <2>6. max_pages > 0 => p <= n + max_pages
      BY <1>2, <2>4, <2>5
    <2>7. ASSUME phase = "ended", ~AtMaxPages(p)
          PROVE  (max_pages = 0 \/ p < n + max_pages) /\ q <= k
      <3>1. Reads(doc, part, parser, k) /\ AllHere(doc, part, parser) /\ parser.parsed = <<>>
        BY <1>3, <2>1, <2>2, <2>7 DEF TextRead
      <3>2. Len(Full(Chars(doc))) <= On(k)
        BY <1>2, <3>1, TextEnds
      <3>3. len <= k * w
        BY <1>4, <3>2 DEF On
      <3>4. q <= k
        BY <1>6, <3>3
      <3>5. max_pages = 0 \/ p < n + max_pages
        BY <1>2, <2>4, <2>7
      <3>6. QED BY <3>4, <3>5
    <2>8. phase = "ended" /\ AtMaxPages(p) => max_pages > 0 /\ p = n + max_pages
      BY <2>4, <2>5
    <2>9. QED BY <2>2, <2>3, <2>6, <2>7, <2>8
  <1>11. PICK e \in Nat : e = LastPage(n, q) /\ p <= e
    <2>1. LastPage(n, q) \in Nat
      BY <1>2, <1>3 DEF LastPage
    <2>2. p <= LastPage(n, q)
      <3>1. CASE p < n
        BY <1>2, <1>3, <3>1 DEF LastPage
      <3>2. CASE p >= n
        BY <1>2, <1>3, <1>9, <1>10, <3>2 DEF LastPage
      <3>3. QED BY <3>1, <3>2
    <2>3. QED BY <2>1, <2>2
  <1>12. CASE phase = "ended"
    <2>1. m = n
      BY <1>2, <1>3, <1>12 DEF PlaceInv
    <2>2. p = e
      BY <1>2, <1>3, <1>10, <1>11, <1>12, <2>1 DEF LastPage
    <2>3. QED BY <1>7, <1>8, <1>11, <1>12, <2>2
  <1>13. CASE phase = "idle"
    <2>1. SubSeq(Book(e), 1, p) = Book(p)
      BY <1>11, BookBegins
    <2>2. phase # "ended"
      BY <1>13
    <2>3. QED BY <1>3, <1>7, <1>8, <1>11, <2>1, <2>2
  <1>14. QED BY <1>12, <1>13

\* The text of a transfer or of a call of a governance contract is displayed as
\* it is, whatever its ASCII characters, the parts it comes in, the width of the
\* display and the limit on its pages: after each step of the user the pages are the first of those of the
\* whole payload, and at the end of the review they are all of them
\* (display_text.h:48, 162, display_pages.h:317).
THEOREM TextIsWhole == Spec => [](TextDocument(doc) => PagesAreOfWholeText)
  <1>1. DInv /\ FInv /\ TextInv => (TextDocument(doc) => PagesAreOfWholeText)
    <2> SUFFICES ASSUME DInv, FInv, TextInv, TextDocument(doc), phase \in {"idle", "ended"}, CleanCut(doc)
                 PROVE  pages = IF phase = "ended" THEN Expected ELSE SubSeq(Expected, 1, current_page)
      BY DEF PagesAreOfWholeText
    <2>1. ~IsDeploy
      BY DEF TextDocument, IsDeploy
    <2>2. Filled
      BY <2>1 DEF Filled, Waiting
    <2>3. TextLayout /\ 0 < Len(screens)
      BY <2>2 DEF TextInv, TextLayout
    <2>4. Clean(doc)
      <3>1. SUFFICES ASSUME Trimmed(doc), NEW k \in 1..(Len(doc.cut) - 1)
                     PROVE  doc.cut[k] # Total(doc) - 1
        BY DEF Clean
      <3>2. TrimCut(doc, k)
        BY <2>1 DEF CleanCut
      <3>3. screens[Len(screens)].trim_payload
        BY <2>3, <3>1 DEF TextLayout, LastScreen
      <3>4. QED BY <2>3, <3>2, <3>3 DEF TrimCut, num_screens, Total, Bytes
    <2>5. ~restarted
      BY DEF CleanCut
    <2>6. QED BY <2>4, <2>5, BookComplete
  <1>2. QED BY <1>1, TextHolds, PTL

=============================================================================
