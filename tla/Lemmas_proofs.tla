--------------------------- MODULE Lemmas_proofs ----------------------------
(***************************************************************************)
(* Lemmas that belong to no component.  FlattenSeq, Power and Prefix are   *)
(* defined by recursion; what they are and do is shown by induction, on a  *)
(* set of numbers, for sequences of every length: how FlattenSeq joins the *)
(* texts of the units on a page, and how the number that some digits are   *)
(* grows with a digit, splits into two parts, and is bounded.              *)
(***************************************************************************)
EXTENDS Numbers, SequencesExt, FiniteSetsExt, SequenceTheorems, WellFoundedInduction, TLAPS

----------------------------------------------------------------------------
(* Induction, and FlattenSeq                                               *)

NatLess == {p \in Nat \X Nat : p[1] < p[2]}

\* Induction: a set that holds 0, and n + 1 with n, holds every number.
LEMMA SetInduction ==
  ASSUME NEW S, 0 \in S, \A n \in Nat : n \in S => n + 1 \in S
  PROVE  Nat \subseteq S
  <1> DEFINE T == Nat \ S
  <1>1. SUFFICES ASSUME T # {} PROVE FALSE
    OBVIOUS
  <1> HIDE DEF T
  <1>2. T \subseteq Nat
    BY DEF T
  <1>3. IsWellFoundedOn(NatLess, Nat)
    BY NatLessThanWellFounded DEF NatLess, OpToRel
  <1>4. PICK x \in T : \A y \in T : ~ (<<y, x>> \in NatLess)
    BY <1>1, <1>2, <1>3, WFMin
  <1>5. x \in Nat /\ x # 0
    BY DEF T
  <1>6. x - 1 \in Nat /\ <<x - 1, x>> \in NatLess /\ (x - 1) + 1 = x
    BY <1>5 DEF NatLess
  <1>7. x - 1 \in S
    BY <1>4, <1>6 DEF T
  <1>8. x \in S
    BY <1>6, <1>7
  <1>9. QED BY <1>8 DEF T

----------------------------------------------------------------------------
\* f[i] joins the first i of the sequences ss.
Joins(f, ss, n) == f = [i \in 1..n |-> IF i = 1 THEN ss[i] ELSE f[i-1] \o ss[i]]

\* There is a function of the joined beginnings of ss, up to every length.
LEMMA JoinsExist ==
  ASSUME NEW ss
  PROVE  \A n \in Nat : \E f : Joins(f, ss, n)
  <1> DEFINE S == {n \in Nat : \E f : Joins(f, ss, n)}
  <1>1. 0 \in S
    <2>1. Joins([i \in 1..0 |-> 0], ss, 0)
      BY DEF Joins
    <2>2. QED BY <2>1
  <1>2. ASSUME NEW n \in Nat, n \in S PROVE n + 1 \in S
    <2>1. PICK f : Joins(f, ss, n)
      BY <1>2
    <2> DEFINE g == [i \in 1..(n+1) |->
                       IF i <= n THEN f[i] ELSE IF i = 1 THEN ss[i] ELSE f[i-1] \o ss[i]]
    <2>2. \A i \in 1..n : f[i] = IF i = 1 THEN ss[i] ELSE f[i-1] \o ss[i]
      BY <2>1 DEF Joins
    <2>3. ASSUME NEW i \in 1..(n+1)
          PROVE  g[i] = IF i = 1 THEN ss[i] ELSE g[i-1] \o ss[i]
      BY <2>2
    <2>4. Joins(g, ss, n + 1)
      BY <2>3 DEF Joins
    <2>5. QED BY <2>4
  <1> HIDE DEF S
  <1>3. Nat \subseteq S
    BY <1>1, <1>2, SetInduction
  <1>4. QED BY <1>3 DEF S

\* Two that join sequences with the same beginning agree on it.
LEMMA JoinsUnique ==
  ASSUME NEW f, NEW g, NEW ss, NEW tt, NEW n \in Nat, NEW m \in Nat, n <= m,
         Joins(f, ss, n), Joins(g, tt, m), \A i \in 1..n : ss[i] = tt[i]
  PROVE  \A i \in 1..n : f[i] = g[i]
  <1> DEFINE S == {j \in Nat : j \in 1..n => f[j] = g[j]}
  <1>1. 0 \in S
    OBVIOUS
  <1>2. ASSUME NEW j \in Nat, j \in S PROVE j + 1 \in S
    <2>1. SUFFICES ASSUME j + 1 \in 1..n PROVE f[j + 1] = g[j + 1]
      OBVIOUS
    <2>2. f[j + 1] = IF j + 1 = 1 THEN ss[j + 1] ELSE f[j] \o ss[j + 1]
      <3>1. \A i \in 1..n : f[i] = IF i = 1 THEN ss[i] ELSE f[i-1] \o ss[i]
        BY DEF Joins
      <3>2. (j + 1) - 1 = j
        OBVIOUS
      <3>3. QED BY <2>1, <3>1, <3>2
    <2>3. g[j + 1] = IF j + 1 = 1 THEN tt[j + 1] ELSE g[j] \o tt[j + 1]
      <3>1. \A i \in 1..m : g[i] = IF i = 1 THEN tt[i] ELSE g[i-1] \o tt[i]
        BY DEF Joins
      <3>2. j + 1 \in 1..m /\ (j + 1) - 1 = j
        BY <2>1
      <3>3. QED BY <3>1, <3>2
    <2>4. j + 1 # 1 => f[j] = g[j]
      BY <1>2, <2>1
    <2>5. ss[j + 1] = tt[j + 1]
      BY <2>1
    <2>6. QED BY <2>2, <2>3, <2>4, <2>5
  <1> HIDE DEF S
  <1>3. Nat \subseteq S
    BY <1>1, <1>2, SetInduction
  <1>4. QED BY <1>3 DEF S

\* FlattenSeq is the last of what joins the sequences.
LEMMA FlattenJoins ==
  ASSUME NEW ss, Len(ss) \in Nat, Len(ss) # 0, NEW f, Joins(f, ss, Len(ss))
  PROVE  FlattenSeq(ss) = f[Len(ss)]
  <1> DEFINE n == Len(ss)
             g == CHOOSE h : h = [i \in 1..n |-> IF i = 1 THEN ss[i] ELSE h[i-1] \o ss[i]]
  <1>1. FlattenSeq(ss) = g[n]
    BY DEF FlattenSeq
  <1>2. Joins(g, ss, n)
    <2>1. \E h : h = [i \in 1..n |-> IF i = 1 THEN ss[i] ELSE h[i-1] \o ss[i]]
      BY DEF Joins
    <2>2. g = [i \in 1..n |-> IF i = 1 THEN ss[i] ELSE g[i-1] \o ss[i]]
      BY <2>1
    <2>3. QED BY <2>2 DEF Joins
  <1> HIDE DEF g
  <1>3. n \in Nat /\ n <= n /\ n \in 1..n
    OBVIOUS
  <1> HIDE DEF n
  <1>4. \A i \in 1..n : g[i] = f[i]
    BY <1>2, <1>3, JoinsUnique DEF n
  <1>5. QED BY <1>1, <1>3, <1>4 DEF n

\* Nothing joined is nothing.
LEMMA FlattenEmpty == FlattenSeq(<<>>) = <<>>
  BY DEF FlattenSeq

\* One sequence joined is itself.
LEMMA FlattenOne ==
  ASSUME NEW s
  PROVE  FlattenSeq(<<s>>) = s
  <1>1. Len(<<s>>) \in Nat /\ Len(<<s>>) # 0 /\ Len(<<s>>) = 1 /\ <<s>>[1] = s
    OBVIOUS
  <1>2. 1 \in Nat
    OBVIOUS
  <1>3. PICK f : Joins(f, <<s>>, 1)
    BY <1>2, JoinsExist
  <1>4. f[1] = s
    BY <1>1, <1>3 DEF Joins
  <1>5. FlattenSeq(<<s>>) = f[1]
    BY <1>1, <1>3, FlattenJoins, Zenon
  <1>6. QED BY <1>4, <1>5

\* The last of the sequences comes last.
LEMMA FlattenAppend ==
  ASSUME NEW T, NEW ss \in Seq(Seq(T)), NEW s \in Seq(T)
  PROVE  FlattenSeq(Append(ss, s)) = FlattenSeq(ss) \o s
  <1> DEFINE n  == Len(ss)
             tt == Append(ss, s)
  <1>1. /\ n \in Nat /\ n + 1 \in Nat /\ n <= n + 1 /\ n + 1 # 0 /\ n \in 0..n
        /\ Len(tt) = n + 1 /\ tt[n + 1] = s /\ \A i \in 1..n : ss[i] = tt[i]
    OBVIOUS
  <1>2. n = 0 => ss = <<>>
    OBVIOUS
  <1> HIDE DEF n, tt
  <1>3. PICK f : Joins(f, tt, n + 1)
    BY <1>1, JoinsExist
  <1>4. FlattenSeq(tt) = f[n + 1]
    BY <1>1, <1>3, FlattenJoins
  <1>5. CASE n = 0
    <2>1. f[1] = s
      BY <1>1, <1>3, <1>5 DEF Joins
    <2>2. <<>> \o s = s
      OBVIOUS
    <2>3. FlattenSeq(ss) = <<>>
      BY <1>2, <1>5, FlattenEmpty
    <2>4. FlattenSeq(tt) = s
      BY <1>4, <1>5, <2>1
    <2>5. QED BY <2>2, <2>3, <2>4 DEF tt
  <1>6. CASE n # 0
    <2>1. PICK g : Joins(g, ss, n)
      BY <1>1, JoinsExist
    <2>2. FlattenSeq(ss) = g[n]
      BY <1>1, <2>1, <1>6, FlattenJoins DEF n
    <2>3. \A i \in 1..n : g[i] = f[i]
      BY <1>1, <1>3, <2>1, JoinsUnique
    <2>4. g[n] = f[n]
      BY <1>1, <1>6, <2>3
    <2>5. f[n + 1] = f[n] \o s
      <3>1. \A i \in 1..(n + 1) : f[i] = IF i = 1 THEN tt[i] ELSE f[i-1] \o tt[i]
        BY <1>3 DEF Joins
      <3>2. n + 1 \in 1..(n + 1) /\ n + 1 # 1 /\ (n + 1) - 1 = n
        BY <1>1, <1>6
      <3>3. QED BY <1>1, <3>1, <3>2
    <2>6. QED BY <1>4, <2>2, <2>4, <2>5 DEF tt
  <1>7. QED BY <1>5, <1>6

\* It is a sequence.
LEMMA FlattenType ==
  ASSUME NEW T, NEW ss \in Seq(Seq(T))
  PROVE  FlattenSeq(ss) \in Seq(T)
  <1> DEFINE n == Len(ss)
             S == {k \in Nat : k \in 1..n => FlattenSeq(SubSeq(ss, 1, k)) \in Seq(T)}
  <1>1. 0 \in S
    OBVIOUS
  <1>2. ASSUME NEW k \in Nat, k \in S PROVE k + 1 \in S
    <2>1. SUFFICES ASSUME k + 1 \in 1..n
                   PROVE  FlattenSeq(SubSeq(ss, 1, k + 1)) \in Seq(T)
      OBVIOUS
    <2>2. SubSeq(ss, 1, k) \in Seq(Seq(T)) /\ ss[k + 1] \in Seq(T)
      BY <2>1
    <2>3. SubSeq(ss, 1, k + 1) = Append(SubSeq(ss, 1, k), ss[k + 1])
      BY <2>1
    <2>4. FlattenSeq(SubSeq(ss, 1, k)) \in Seq(T)
      <3>1. CASE k = 0
        <4>1. SubSeq(ss, 1, k) = <<>>
          BY <3>1
        <4>2. QED BY <4>1, FlattenEmpty, EmptySeq, Zenon
      <3>2. CASE k # 0
        BY <1>2, <2>1, <3>2
      <3>3. QED BY <3>1, <3>2
    <2> DEFINE u == SubSeq(ss, 1, k)
    <2>5. FlattenSeq(Append(u, ss[k + 1])) = FlattenSeq(u) \o ss[k + 1]
      BY <2>2, FlattenAppend
    <2>6. FlattenSeq(u) \o ss[k + 1] \in Seq(T)
      BY <2>2, <2>4, ConcatProperties
    <2>7. QED BY <2>3, <2>5, <2>6
  <1> HIDE DEF S
  <1>3. Nat \subseteq S
    BY <1>1, <1>2, SetInduction
  <1>4. n \in Nat /\ SubSeq(ss, 1, n) = ss
    OBVIOUS
  <1>5. CASE n = 0
    <2>1. ss = <<>>
      BY <1>5
    <2>2. QED BY <2>1, FlattenEmpty, EmptySeq, Zenon
  <1>6. CASE n # 0
    <2>1. n \in S /\ n \in 1..n
      BY <1>3, <1>4, <1>6
    <2>2. QED BY <1>4, <2>1 DEF S
  <1>7. QED BY <1>5, <1>6

\* Joining is associative, and what is appended last comes last.
LEMMA Associate ==
  ASSUME NEW S, NEW x \in Seq(S), NEW y \in Seq(S), NEW z \in Seq(S)
  PROVE  (x \o y) \o z = x \o (y \o z)
  BY ConcatAssociative

\* What is appended to the second of two sequences comes after both.
LEMMA AppendLast ==
  ASSUME NEW S, NEW x \in Seq(S), NEW y \in Seq(S), NEW e \in S
  PROVE  x \o Append(y, e) = Append(x \o y, e)
  <1> DEFINE v == <<e>>
  <1>1. v \in Seq(S)
    OBVIOUS
  <1>2. Append(y, e) = y \o v
    BY AppendIsConcat DEF v
  <1>3. x \o y \in Seq(S)
    OBVIOUS
  <1>4. Append(x \o y, e) = (x \o y) \o v
    BY <1>3, AppendIsConcat DEF v
  <1> HIDE DEF v
  <1>5. (x \o y) \o v = x \o (y \o v)
    BY <1>1, Associate
  <1>6. QED BY <1>2, <1>4, <1>5, Zenon

\* Joining in two goes joins all.
LEMMA FlattenConcat ==
  ASSUME NEW T, NEW ss \in Seq(Seq(T)), NEW tt \in Seq(Seq(T))
  PROVE  FlattenSeq(ss \o tt) = FlattenSeq(ss) \o FlattenSeq(tt)
  <1> DEFINE n == Len(tt)
             S == {k \in Nat : k \in 0..n =>
                     FlattenSeq(ss \o SubSeq(tt, 1, k)) = FlattenSeq(ss) \o FlattenSeq(SubSeq(tt, 1, k))}
  <1>1. 0 \in S
    <2>1. SubSeq(tt, 1, 0) = <<>> /\ ss \o <<>> = ss
      OBVIOUS
    <2>2. FlattenSeq(ss) \o <<>> = FlattenSeq(ss)
      BY FlattenType
    <2>3. QED BY <2>1, <2>2, FlattenEmpty
  <1>2. ASSUME NEW k \in Nat, k \in S PROVE k + 1 \in S
    <2>1. SUFFICES ASSUME k + 1 \in 0..n
                   PROVE  FlattenSeq(ss \o SubSeq(tt, 1, k + 1))
                            = FlattenSeq(ss) \o FlattenSeq(SubSeq(tt, 1, k + 1))
      OBVIOUS
    <2> DEFINE u == SubSeq(tt, 1, k)
               s == tt[k + 1]
    <2>2. u \in Seq(Seq(T)) /\ s \in Seq(T) /\ ss \o u \in Seq(Seq(T))
      BY <2>1
    <2>3. SubSeq(tt, 1, k + 1) = Append(u, s)
      BY <2>1
    <2>4. FlattenSeq(ss \o u) = FlattenSeq(ss) \o FlattenSeq(u)
      BY <1>2, <2>1
    <2> HIDE DEF u, s
    <2>5. ss \o Append(u, s) = Append(ss \o u, s)
      BY SMTT(90), <2>2, AppendLast
    <2>6. FlattenSeq(Append(ss \o u, s)) = (FlattenSeq(ss) \o FlattenSeq(u)) \o s
      BY <2>2, <2>4, FlattenAppend
    <2>7. FlattenSeq(Append(u, s)) = FlattenSeq(u) \o s
      BY <2>2, FlattenAppend
    <2>8. FlattenSeq(ss) \in Seq(T) /\ FlattenSeq(u) \in Seq(T)
      BY <2>2, FlattenType
    <2>9. (FlattenSeq(ss) \o FlattenSeq(u)) \o s = FlattenSeq(ss) \o (FlattenSeq(u) \o s)
      <3>1. PICK x \in Seq(T), y \in Seq(T) : x = FlattenSeq(ss) /\ y = FlattenSeq(u)
        BY <2>8
      <3>2. (x \o y) \o s = x \o (y \o s)
        BY SMTT(90), <2>2, Associate
      <3>3. QED BY <3>1, <3>2, Zenon
    <2>10. QED BY <2>3, <2>5, <2>6, <2>7, <2>9, Zenon
  <1> HIDE DEF S
  <1>3. Nat \subseteq S
    BY <1>1, <1>2, SetInduction
  <1>4. n \in 0..n /\ n \in Nat /\ SubSeq(tt, 1, n) = tt
    OBVIOUS
  <1>5. QED BY <1>3, <1>4 DEF S

----------------------------------------------------------------------------
(* Powers, the numbers of digits, and division                             *)

\* p[k] is the power k of b, up to n.
Powers(p, b, n) == p = [k \in 0..n |-> IF k = 0 THEN 1 ELSE b * p[k-1]]

\* The powers up to n exist, and are determined.
LEMMA PowersExist ==
  ASSUME NEW b
  PROVE  \A n \in Nat : \E p : Powers(p, b, n)
  <1> DEFINE S == {n \in Nat : \E p : Powers(p, b, n)}
  <1>1. 0 \in S
    <2>1. Powers([k \in 0..0 |-> 1], b, 0)
      BY DEF Powers
    <2>2. QED BY <2>1
  <1>2. ASSUME NEW n \in Nat, n \in S PROVE n + 1 \in S
    <2>1. PICK p : Powers(p, b, n)
      BY <1>2
    <2> DEFINE q == [k \in 0..(n+1) |-> IF k <= n THEN p[k] ELSE b * p[k-1]]
    <2>2. \A k \in 0..n : p[k] = IF k = 0 THEN 1 ELSE b * p[k-1]
      BY <2>1 DEF Powers
    <2>3. ASSUME NEW k \in 0..(n+1) PROVE q[k] = IF k = 0 THEN 1 ELSE b * q[k-1]
      BY <2>2
    <2>4. Powers(q, b, n + 1)
      BY <2>3 DEF Powers
    <2>5. QED BY <2>4
  <1> HIDE DEF S
  <1>3. Nat \subseteq S
    BY <1>1, <1>2, SetInduction
  <1>4. QED BY <1>3 DEF S

LEMMA PowersUnique ==
  ASSUME NEW b, NEW p, NEW q, NEW n \in Nat, NEW m \in Nat, n <= m,
         Powers(p, b, n), Powers(q, b, m)
  PROVE  \A k \in 0..n : p[k] = q[k]
  <1> DEFINE S == {k \in Nat : k <= n => p[k] = q[k]}
  <1>1. \A k \in 0..n : p[k] = IF k = 0 THEN 1 ELSE b * p[k-1]
    BY DEF Powers
  <1>2. \A k \in 0..m : q[k] = IF k = 0 THEN 1 ELSE b * q[k-1]
    BY DEF Powers
  <1>3. 0 \in S
    BY <1>1, <1>2
  <1>4. ASSUME NEW k \in Nat, k \in S PROVE k + 1 \in S
    <2>1. SUFFICES ASSUME k + 1 <= n PROVE p[k+1] = q[k+1]
      OBVIOUS
    <2>2. k + 1 \in 0..n /\ k + 1 \in 0..m /\ k + 1 # 0 /\ (k + 1) - 1 = k /\ p[k] = q[k]
      BY <1>4, <2>1
    <2>3. p[k+1] = b * p[k] /\ q[k+1] = b * q[k]
      BY <1>1, <1>2, <2>2
    <2>4. QED BY <2>2, <2>3
  <1> HIDE DEF S
  <1>5. Nat \subseteq S
    BY <1>3, <1>4, SetInduction
  <1>6. QED BY <1>5 DEF S

\* Power is the last of the powers.
LEMMA PowerIs ==
  ASSUME NEW b, NEW n \in Nat, NEW p, Powers(p, b, n)
  PROVE  Power(b, n) = p[n]
  <1> DEFINE q == CHOOSE f : f = [k \in 0..n |-> IF k = 0 THEN 1 ELSE b * f[k-1]]
  <1>1. Power(b, n) = q[n]
    BY DEF Power
  <1>2. Powers(q, b, n)
    <2>1. \E f : f = [k \in 0..n |-> IF k = 0 THEN 1 ELSE b * f[k-1]]
      BY DEF Powers
    <2>2. q = [k \in 0..n |-> IF k = 0 THEN 1 ELSE b * q[k-1]]
      BY <2>1
    <2>3. QED BY <2>2 DEF Powers
  <1> HIDE DEF q
  <1>3. \A k \in 0..n : q[k] = p[k]
    BY <1>2, PowersUnique
  <1>4. QED BY <1>1, <1>3

\* The powers of a number, one from the other.
LEMMA PowerStep ==
  ASSUME NEW b
  PROVE  Power(b, 0) = 1 /\ \A n \in Nat : Power(b, n + 1) = b * Power(b, n)
  <1>1. ASSUME NEW n \in Nat
        PROVE  Power(b, 0) = 1 /\ Power(b, n + 1) = b * Power(b, n)
    <2>1. PICK p : Powers(p, b, n + 1)
      BY PowersExist
    <2>2. \A k \in 0..(n+1) : p[k] = IF k = 0 THEN 1 ELSE b * p[k-1]
      BY <2>1 DEF Powers
    <2>3. PICK q : Powers(q, b, n)
      BY PowersExist
    <2>4. PICK r : Powers(r, b, 0)
      BY PowersExist
    <2>5. \A k \in 0..0 : r[k] = IF k = 0 THEN 1 ELSE b * r[k-1]
      BY <2>4 DEF Powers
    <2>6. Power(b, n + 1) = p[n + 1] /\ Power(b, n) = q[n] /\ Power(b, 0) = r[0]
      BY <2>1, <2>3, <2>4, PowerIs
    <2>7. q[n] = p[n]
      <3>1. \A k \in 0..n : q[k] = p[k]
        BY <2>1, <2>3, PowersUnique
      <3>2. QED BY <3>1
    <2>8. r[0] = 1
      BY <2>5
    <2>9. p[n + 1] = b * p[n]
      <3>1. n + 1 \in 0..(n+1) /\ n + 1 # 0 /\ (n + 1) - 1 = n
        OBVIOUS
      <3>2. QED BY <2>2, <3>1
    <2>10. QED BY <2>6, <2>7, <2>8, <2>9
  <1>2. QED BY <1>1

----------------------------------------------------------------------------
\* v[k] is the value of the first k of the digits ds, up to n.
Values(v, b, ds, n) == v = [k \in 0..n |-> IF k = 0 THEN 0 ELSE v[k-1] * b + ds[k]]

\* The numbers of the beginnings of ds exist.
LEMMA ValuesExist ==
  ASSUME NEW b, NEW ds
  PROVE  \A n \in Nat : \E v : Values(v, b, ds, n)
  <1> DEFINE S == {n \in Nat : \E v : Values(v, b, ds, n)}
  <1>1. 0 \in S
    <2>1. Values([k \in 0..0 |-> 0], b, ds, 0)
      BY DEF Values
    <2>2. QED BY <2>1
  <1>2. ASSUME NEW n \in Nat, n \in S PROVE n + 1 \in S
    <2>1. PICK v : Values(v, b, ds, n)
      BY <1>2
    <2> DEFINE w == [k \in 0..(n+1) |-> IF k <= n THEN v[k] ELSE v[k-1] * b + ds[k]]
    <2>2. \A k \in 0..n : v[k] = IF k = 0 THEN 0 ELSE v[k-1] * b + ds[k]
      BY <2>1 DEF Values
    <2>3. ASSUME NEW k \in 0..(n+1) PROVE w[k] = IF k = 0 THEN 0 ELSE w[k-1] * b + ds[k]
      BY <2>2
    <2>4. Values(w, b, ds, n + 1)
      BY <2>3 DEF Values
    <2>5. QED BY <2>4
  <1> HIDE DEF S
  <1>3. Nat \subseteq S
    BY <1>1, <1>2, SetInduction
  <1>4. QED BY <1>3 DEF S

\* Digits with the same beginning have the same values up to there.
LEMMA ValuesUnique ==
  ASSUME NEW b, NEW v, NEW w, NEW ds, NEW es, NEW n \in Nat, NEW m \in Nat, n <= m,
         Values(v, b, ds, n), Values(w, b, es, m), \A k \in 1..n : ds[k] = es[k]
  PROVE  \A k \in 0..n : v[k] = w[k]
  <1> DEFINE S == {k \in Nat : k <= n => v[k] = w[k]}
  <1>1. \A k \in 0..n : v[k] = IF k = 0 THEN 0 ELSE v[k-1] * b + ds[k]
    BY DEF Values
  <1>2. \A k \in 0..m : w[k] = IF k = 0 THEN 0 ELSE w[k-1] * b + es[k]
    BY DEF Values
  <1>3. 0 \in S
    BY <1>1, <1>2
  <1>4. ASSUME NEW k \in Nat, k \in S PROVE k + 1 \in S
    <2>1. SUFFICES ASSUME k + 1 <= n PROVE v[k+1] = w[k+1]
      OBVIOUS
    <2>2. k + 1 \in 0..n /\ k + 1 \in 0..m /\ k + 1 # 0 /\ (k + 1) - 1 = k /\ v[k] = w[k]
      BY <1>4, <2>1
    <2>3. v[k+1] = v[k] * b + ds[k+1] /\ w[k+1] = w[k] * b + es[k+1]
      BY <1>1, <1>2, <2>2
    <2>4. ds[k+1] = es[k+1]
      BY <2>1
    <2>5. QED BY <2>2, <2>3, <2>4
  <1> HIDE DEF S
  <1>5. Nat \subseteq S
    BY <1>3, <1>4, SetInduction
  <1>6. QED BY <1>5 DEF S

\* Prefix is the last of these numbers.
LEMMA PrefixIs ==
  ASSUME NEW b, NEW ds, NEW n \in Nat, NEW v, Values(v, b, ds, n)
  PROVE  Prefix(b, ds, n) = v[n]
  <1> DEFINE w == CHOOSE f : f = [k \in 0..n |-> IF k = 0 THEN 0 ELSE f[k-1] * b + ds[k]]
  <1>1. Prefix(b, ds, n) = w[n]
    BY DEF Prefix
  <1>2. Values(w, b, ds, n)
    <2>1. \E f : f = [k \in 0..n |-> IF k = 0 THEN 0 ELSE f[k-1] * b + ds[k]]
      BY DEF Values
    <2>2. w = [k \in 0..n |-> IF k = 0 THEN 0 ELSE w[k-1] * b + ds[k]]
      BY <2>1
    <2>3. QED BY <2>2 DEF Values
  <1> HIDE DEF w
  <1>3. \A k \in 0..n : w[k] = v[k]
    <2>1. n <= n /\ \A k \in 1..n : ds[k] = ds[k]
      OBVIOUS
    <2>2. QED BY <1>2, <2>1, ValuesUnique
  <1>4. QED BY <1>1, <1>3

\* Digits that are the same have the same value, whatever they are made of.
LEMMA PrefixSame ==
  ASSUME NEW b, NEW ds, NEW es, NEW n \in Nat, \A k \in 1..n : ds[k] = es[k]
  PROVE  Prefix(b, ds, n) = Prefix(b, es, n)
  <1>1. PICK v : Values(v, b, ds, n)
    BY ValuesExist
  <1>2. PICK w : Values(w, b, es, n)
    BY ValuesExist
  <1>3. \A k \in 0..n : v[k] = w[k]
    <2>1. n <= n
      OBVIOUS
    <2>2. QED BY <1>1, <1>2, <2>1, ValuesUnique
  <1>4. v[n] = w[n]
    BY <1>3
  <1>5. QED BY <1>1, <1>2, <1>4, PrefixIs

\* The value of one more digit.
LEMMA PrefixStep ==
  ASSUME NEW b, NEW ds
  PROVE  /\ Prefix(b, ds, 0) = 0
         /\ \A n \in Nat : Prefix(b, ds, n + 1) = Prefix(b, ds, n) * b + ds[n + 1]
  <1>1. Prefix(b, ds, 0) = 0
    <2>1. PICK v : Values(v, b, ds, 0)
      BY ValuesExist
    <2>2. \A k \in 0..0 : v[k] = IF k = 0 THEN 0 ELSE v[k-1] * b + ds[k]
      BY <2>1 DEF Values
    <2>3. Prefix(b, ds, 0) = v[0]
      BY <2>1, PrefixIs
    <2>4. QED BY <2>2, <2>3
  <1>2. ASSUME NEW n \in Nat
        PROVE  Prefix(b, ds, n + 1) = Prefix(b, ds, n) * b + ds[n + 1]
    <2>1. PICK v : Values(v, b, ds, n + 1)
      <3>1. n + 1 \in Nat
        OBVIOUS
      <3>2. QED BY <3>1, ValuesExist
    <2>2. PICK w : Values(w, b, ds, n)
      BY ValuesExist
    <2>3. \A i \in 0..n : w[i] = v[i]
      <3>1. n <= n + 1 /\ n + 1 \in Nat /\ \A i \in 1..n : ds[i] = ds[i]
        OBVIOUS
      <3>2. QED BY <2>1, <2>2, <3>1, ValuesUnique
    <2>4. Prefix(b, ds, n + 1) = v[n + 1] /\ Prefix(b, ds, n) = w[n]
      BY <2>1, <2>2, PrefixIs
    <2>5. v[n + 1] = v[n] * b + ds[n + 1]
      <3>1. \A i \in 0..(n+1) : v[i] = IF i = 0 THEN 0 ELSE v[i-1] * b + ds[i]
        BY <2>1 DEF Values
      <3>2. n + 1 \in 0..(n+1) /\ n + 1 # 0 /\ (n + 1) - 1 = n
        OBVIOUS
      <3>3. QED BY <3>1, <3>2
    <2>6. w[n] = v[n]
      BY <2>3
    <2>7. QED BY <2>4, <2>5, <2>6
  <1>3. QED BY <1>1, <1>2

\* Powers are numbers, and positive.
LEMMA PowerType ==
  ASSUME NEW b \in Nat
  PROVE  \A n \in Nat : Power(b, n) \in Nat /\ (b # 0 => Power(b, n) > 0)
  <1> DEFINE S == {n \in Nat : Power(b, n) \in Nat /\ (b # 0 => Power(b, n) > 0)}
  <1>1. 0 \in S
    BY PowerStep
  <1>2. ASSUME NEW n \in Nat, n \in S PROVE n + 1 \in S
    <2>1. PICK x \in Nat : x = Power(b, n) /\ (b # 0 => x > 0)
      BY <1>2
    <2>2. Power(b, n + 1) = b * x
      BY <2>1, PowerStep
    <2>3. b * x \in Nat /\ (b # 0 => b * x > 0)
      BY <2>1
    <2>4. QED BY <2>2, <2>3
  <1> HIDE DEF S
  <1>3. Nat \subseteq S
    BY <1>1, <1>2, SetInduction
  <1>4. QED BY <1>3 DEF S

\* Exponents add.
LEMMA PowerAdd ==
  ASSUME NEW b \in Nat, NEW m \in Nat
  PROVE  \A n \in Nat : Power(b, m + n) = Power(b, m) * Power(b, n)
  <1> DEFINE S == {n \in Nat : Power(b, m + n) = Power(b, m) * Power(b, n)}
  <1>0. PICK x \in Nat : x = Power(b, m)
    BY PowerType
  <1>1. 0 \in S
    BY <1>0, PowerStep
  <1>2. ASSUME NEW n \in Nat, n \in S PROVE n + 1 \in S
    <2>1. PICK y \in Nat : y = Power(b, n)
      BY PowerType
    <2>2. Power(b, m + n) = x * y
      BY <1>0, <1>2, <2>1
    <2>3. Power(b, n + 1) = b * y
      BY <2>1, PowerStep
    <2>4. Power(b, m + (n + 1)) = b * (x * y)
      <3>1. m + (n + 1) = (m + n) + 1 /\ m + n \in Nat
        OBVIOUS
      <3>2. Power(b, (m + n) + 1) = b * Power(b, m + n)
        BY <3>1, PowerStep
      <3>3. QED BY <2>2, <3>1, <3>2
    <2>5. b * (x * y) = x * (b * y)
      OBVIOUS
    <2>6. QED BY <1>0, <2>3, <2>4, <2>5
  <1> HIDE DEF S
  <1>3. Nat \subseteq S
    BY <1>1, <1>2, SetInduction
  <1>4. QED BY <1>3 DEF S

\* Exponents multiply.
LEMMA PowerOfPower ==
  ASSUME NEW b \in Nat, NEW m \in Nat
  PROVE  \A n \in Nat : Power(Power(b, m), n) = Power(b, m * n)
  <1> DEFINE S == {n \in Nat : Power(Power(b, m), n) = Power(b, m * n)}
  <1>1. 0 \in S
    <2>1. m * 0 = 0
      OBVIOUS
    <2>2. QED BY <2>1, PowerStep
  <1>2. ASSUME NEW n \in Nat, n \in S PROVE n + 1 \in S
    <2>1. Power(Power(b, m), n + 1) = Power(b, m) * Power(b, m * n)
      BY <1>2, PowerStep
    <2>2. m * (n + 1) = m + m * n /\ m * n \in Nat
      OBVIOUS
    <2>3. Power(b, m + m * n) = Power(b, m) * Power(b, m * n)
      BY <2>2, PowerAdd
    <2>4. QED BY <2>1, <2>2, <2>3
  <1> HIDE DEF S
  <1>3. Nat \subseteq S
    BY <1>1, <1>2, SetInduction
  <1>4. QED BY <1>3 DEF S

\* A power is a multiple of a lower one, and greater.
LEMMA PowerGrows ==
  ASSUME NEW b \in Nat, b > 1, NEW m \in Nat, NEW n \in Nat, m < n
  PROVE  Power(b, m) < Power(b, n) /\ Power(b, n) = Power(b, m) * Power(b, n - m)
  <1>1. n - m \in Nat /\ m + (n - m) = n /\ (n - m) - 1 \in Nat /\ ((n - m) - 1) + 1 = n - m
    OBVIOUS
  <1>2. Power(b, n) = Power(b, m) * Power(b, n - m)
    BY <1>1, PowerAdd
  <1>3. PICK x \in Nat : x = Power(b, m) /\ x > 0
    BY PowerType
  <1>4. PICK y \in Nat : y = Power(b, (n - m) - 1) /\ y > 0
    BY <1>1, PowerType
  <1>5. Power(b, n - m) = b * y
    BY <1>1, <1>4, PowerStep
  <1>6. b * y > 1 /\ b * y \in Nat
    BY <1>4
  <1>7. \A z \in Nat : z > 1 => x < x * z
    BY <1>3
  <1>8. QED BY <1>2, <1>3, <1>5, <1>6, <1>7

----------------------------------------------------------------------------
\* Numbers are closed under a digit more.
LEMMA LinearNat ==
  ASSUME NEW v \in Nat, NEW b \in Nat, NEW d \in Nat
  PROVE  v * b + d \in Nat
  OBVIOUS

\* One more digit multiplies the number by the base and adds the digit.
LEMMA PrefixNext ==
  ASSUME NEW b \in Nat, NEW ds, NEW n \in Nat, Prefix(b, ds, n) \in Nat, ds[n + 1] \in Nat
  PROVE  Prefix(b, ds, n + 1) = Prefix(b, ds, n) * b + ds[n + 1]
  BY ONLY n \in Nat, PrefixStep, Zenon

\* The same, where the number and the digit have names.
LEMMA PrefixMore ==
  ASSUME NEW b \in Nat, NEW ds, NEW n \in Nat, NEW x \in Nat, NEW d \in Nat,
         Prefix(b, ds, n) = x, ds[n + 1] = d
  PROVE  Prefix(b, ds, n + 1) = x * b + d
  BY PrefixNext

\* Digits make a number.
LEMMA PrefixType ==
  ASSUME NEW b \in Nat, NEW ds, NEW n \in Nat, \A i \in 1..n : ds[i] \in Nat
  PROVE  Prefix(b, ds, n) \in Nat
  <1> DEFINE S == {k \in Nat : k <= n => Prefix(b, ds, k) \in Nat}
  <1>1. 0 \in S
    BY PrefixStep
  <1>2. ASSUME NEW k \in Nat, k \in S PROVE k + 1 \in S
    <2>1. SUFFICES ASSUME k + 1 <= n PROVE Prefix(b, ds, k + 1) \in Nat
      OBVIOUS
    <2>2. PICK v \in Nat : v = Prefix(b, ds, k)
      BY <1>2, <2>1
    <2>3. PICK d \in Nat : d = ds[k + 1]
      BY <2>1
    <2>4. Prefix(b, ds, k + 1) = v * b + d
      BY ZenonT(60), <2>2, <2>3, PrefixStep
    <2>5. v * b + d \in Nat
      BY <2>2, <2>3, LinearNat
    <2>6. QED BY <2>4, <2>5
  <1> HIDE DEF S
  <1>3. Nat \subseteq S
    BY <1>1, <1>2, SetInduction
  <1>4. QED BY <1>3 DEF S

\* The arithmetic of one more digit behind two parts.
LEMMA SplitArithmetic ==
  ASSUME NEW x \in Nat, NEW p \in Nat, NEW y \in Nat, NEW b \in Nat, NEW d \in Nat
  PROVE  (x * p + y) * b + d = x * (b * p) + (y * b + d)
  OBVIOUS

\* After m of the digits ds come n digits es.
SplitAt(ds, m, es, n) ==
  /\ \A i \in 1..m : ds[i] \in Nat
  /\ \A i \in 1..n : es[i] \in Nat /\ ds[m + i] = es[i]

\* Digits in two parts, the second one read on its own.
LEMMA PrefixSplit ==
  ASSUME NEW b \in Nat, NEW ds, NEW es, NEW m \in Nat, NEW n \in Nat, SplitAt(ds, m, es, n)
  PROVE  Prefix(b, ds, m + n) = Prefix(b, ds, m) * Power(b, n) + Prefix(b, es, n)
  <1> DEFINE S == {k \in Nat : k <= n =>
                     Prefix(b, ds, m + k) = Prefix(b, ds, m) * Power(b, k) + Prefix(b, es, k)}
  <1>a. \A i \in 1..m : ds[i] \in Nat
    BY DEF SplitAt
  <1>b. \A i \in 1..n : es[i] \in Nat /\ ds[m + i] = es[i]
    BY DEF SplitAt
  <1>0. PICK x \in Nat : x = Prefix(b, ds, m)
    BY <1>a, PrefixType
  <1>1. 0 \in S
    <2>1. Prefix(b, es, 0) = 0 /\ Power(b, 0) = 1 /\ m + 0 = m /\ x = x * 1 + 0
      BY PrefixStep, PowerStep
    <2>2. QED BY <1>0, <2>1
  <1>2. ASSUME NEW k \in Nat, k \in S PROVE k + 1 \in S
    <2>1. SUFFICES ASSUME k + 1 <= n
                   PROVE  Prefix(b, ds, m + (k + 1))
                            = Prefix(b, ds, m) * Power(b, k + 1) + Prefix(b, es, k + 1)
      OBVIOUS
    <2>2. PICK d \in Nat : d = es[k + 1] /\ d = ds[m + (k + 1)]
      <3>1. k + 1 \in 1..n
        BY <2>1
      <3>2. QED BY <1>b, <3>1
    <2>3. PICK y \in Nat : y = Prefix(b, es, k)
      <3>1. \A i \in 1..k : es[i] \in Nat
        BY <1>b, <2>1
      <3>2. QED BY <3>1, PrefixType
    <2>4. PICK p \in Nat : p = Power(b, k)
      BY PowerType
    <2>5. Prefix(b, ds, m + k) = x * p + y
      BY <1>0, <1>2, <2>1, <2>3, <2>4
    <2>6. Prefix(b, es, k + 1) = y * b + d
      <3>1. Prefix(b, es, k) \in Nat /\ es[k + 1] \in Nat
        BY <2>2, <2>3
      <3>2. Prefix(b, es, k + 1) = Prefix(b, es, k) * b + es[k + 1]
        BY <3>1, PrefixNext
      <3>3. QED BY <2>2, <2>3, <3>2
    <2>7. Prefix(b, ds, m + (k + 1)) = (x * p + y) * b + d
      <3>1. PICK j \in Nat : j = m + k
        OBVIOUS
      <3>2. Prefix(b, ds, j) = x * p + y /\ ds[j + 1] = d /\ m + (k + 1) = j + 1
        BY <2>2, <2>5, <3>1
      <3>3. Prefix(b, ds, j) \in Nat /\ ds[j + 1] \in Nat
        BY <3>2, LinearNat
      <3>4. Prefix(b, ds, j + 1) = Prefix(b, ds, j) * b + ds[j + 1]
        BY <3>3, PrefixNext
      <3>5. QED BY <3>2, <3>4
    <2>8. Power(b, k + 1) = b * p
      BY <2>4, PowerStep
    <2>9. (x * p + y) * b + d = x * (b * p) + (y * b + d)
      BY SplitArithmetic
    <2>10. QED BY <1>0, <2>6, <2>7, <2>8, <2>9
  <1> HIDE DEF S
  <1>3. Nat \subseteq S
    BY <1>1, <1>2, SetInduction
  <1>4. n \in S /\ n <= n
    BY <1>3
  <1>5. QED BY <1>4 DEF S

\* A digit more is less than a unit of the next place.
LEMMA Below ==
  ASSUME NEW b \in Nat, NEW y \in Nat, NEW p \in Nat, NEW d \in 0..(b-1), y < p
  PROVE  y * b + d < b * p
  <1>1. PICK z \in Nat : p = y + 1 + z
    <2>1. p - y - 1 \in Nat /\ p = y + 1 + (p - y - 1)
      OBVIOUS
    <2>2. QED BY <2>1
  <1>2. b * (y + 1 + z) = y * b + b + b * z
    OBVIOUS
  <1>3. b * z \in Nat /\ y * b \in Nat
    OBVIOUS
  <1>4. QED BY <1>1, <1>2, <1>3

\* n digits below the base make a number below the power n of the base.
LEMMA PrefixBound ==
  ASSUME NEW b \in Nat, NEW ds, NEW n \in Nat, \A i \in 1..n : ds[i] \in 0..(b-1)
  PROVE  Prefix(b, ds, n) \in Nat /\ Prefix(b, ds, n) < Power(b, n)
  <1> DEFINE S == {k \in Nat : k <= n => Prefix(b, ds, k) < Power(b, k)}
  <1>1. 0 \in S
    BY PrefixStep, PowerStep
  <1>2. ASSUME NEW k \in Nat, k \in S PROVE k + 1 \in S
    <2>1. SUFFICES ASSUME k + 1 <= n PROVE Prefix(b, ds, k + 1) < Power(b, k + 1)
      OBVIOUS
    <2>2. PICK v \in Nat : v = Prefix(b, ds, k)
      <3>1. \A i \in 1..k : ds[i] \in Nat
        BY <2>1
      <3>2. QED BY <3>1, PrefixType
    <2>3. PICK d \in 0..(b-1) : d = ds[k + 1]
      BY <2>1
    <2>4. PICK p \in Nat : p = Power(b, k)
      BY PowerType
    <2>5. v < p
      BY <1>2, <2>1, <2>2, <2>4
    <2>6. Prefix(b, ds, k + 1) = v * b + d
      BY ZenonT(60), <2>2, <2>3, PrefixStep
    <2>7. Power(b, k + 1) = b * p
      BY <2>4, PowerStep
    <2>8. v * b + d < b * p
      BY <2>5, Below
    <2>9. QED BY <2>6, <2>7, <2>8
  <1> HIDE DEF S
  <1>3. Nat \subseteq S
    BY <1>1, <1>2, SetInduction
  <1>4. n \in S /\ n <= n
    BY <1>3
  <1>5. \A i \in 1..n : ds[i] \in Nat
    OBVIOUS
  <1>6. Prefix(b, ds, n) \in Nat
    BY <1>5, PrefixType
  <1>7. QED BY <1>4, <1>6 DEF S

\* Zeros in front do not change a number.
LEMMA PrefixZeros ==
  ASSUME NEW b \in Nat, NEW ds, NEW n \in Nat, \A i \in 1..n : ds[i] = 0
  PROVE  Prefix(b, ds, n) = 0
  <1> DEFINE S == {k \in Nat : k <= n => Prefix(b, ds, k) = 0}
  <1>1. 0 \in S
    BY PrefixStep
  <1>2. ASSUME NEW k \in Nat, k \in S PROVE k + 1 \in S
    <2>1. SUFFICES ASSUME k + 1 <= n PROVE Prefix(b, ds, k + 1) = 0
      OBVIOUS
    <2>2. Prefix(b, ds, k) = 0 /\ ds[k + 1] = 0
      BY <1>2, <2>1
    <2>3. Prefix(b, ds, k + 1) = 0 * b + 0
      BY <2>2, PrefixNext
    <2>4. 0 * b + 0 = 0
      OBVIOUS
    <2>5. QED BY <2>3, <2>4
  <1> HIDE DEF S
  <1>3. Nat \subseteq S
    BY <1>1, <1>2, SetInduction
  <1>4. n \in S /\ n <= n
    BY <1>3
  <1>5. QED BY <1>4 DEF S
\* The number of one digit is the digit.
LEMMA PrefixOne ==
  ASSUME NEW b \in Nat, NEW ds, NEW d \in Nat, ds[1] = d
  PROVE  Prefix(b, ds, 1) = d
  <1>1. PICK z \in Nat : z = 0 /\ z + 1 = 1
    OBVIOUS
  <1>2. Prefix(b, ds, z) = 0
    BY <1>1, PrefixStep
  <1>3. Prefix(b, ds, z) \in Nat /\ ds[z + 1] \in Nat
    BY <1>1, <1>2
  <1>4. Prefix(b, ds, z + 1) = Prefix(b, ds, z) * b + ds[z + 1]
    BY <1>3, PrefixNext
  <1>5. Prefix(b, ds, 1) = 0 * b + d
    BY <1>1, <1>2, <1>4
  <1>6. 0 * b + d = d
    OBVIOUS
  <1>7. QED BY <1>5, <1>6

\* Less by at least one multiple.
LEMMA MultipleGap ==
  ASSUME NEW w \in Nat, NEW p \in Nat, NEW q \in Nat, p < q
  PROVE  p * w + w <= q * w
  <1>1. PICK z \in Nat : q = p + 1 + z
    <2>1. q - p - 1 \in Nat /\ q = p + 1 + (q - p - 1)
      OBVIOUS
    <2>2. QED BY <2>1
  <1>2. (p + 1 + z) * w = p * w + w + z * w
    OBVIOUS
  <1>3. z * w \in Nat
    OBVIOUS
  <1>4. p * w \in Nat
    OBVIOUS
  <1>5. QED BY <1>1, <1>2, <1>3, <1>4

\* Quotient and remainder are determined.
LEMMA DivisionUnique ==
  ASSUME NEW w \in Nat, NEW p \in Nat, NEW q \in Nat, NEW r \in 0..(w-1), NEW s \in 0..(w-1),
         p * w + r = q * w + s
  PROVE  p = q /\ r = s
  <1>1. p * w \in Nat /\ q * w \in Nat
    OBVIOUS
  <1>2. ~(p < q)
    <2>1. SUFFICES ASSUME p < q PROVE FALSE
      OBVIOUS
    <2>2. p * w + w <= q * w
      BY <2>1, MultipleGap
    <2>3. QED BY <1>1, <2>2
  <1>3. ~(q < p)
    <2>1. SUFFICES ASSUME q < p PROVE FALSE
      OBVIOUS
    <2>2. q * w + w <= p * w
      BY <2>1, MultipleGap
    <2>3. QED BY <1>1, <2>2
  <1>4. p = q
    BY <1>2, <1>3
  <1>5. QED BY <1>1, <1>4

\* Division, also of what is negative.
LEMMA DivisionOfInt ==
  ASSUME NEW a \in Int, NEW w \in Int, w > 0
  PROVE  a = w * (a \div w) + (a % w)
  BY Z3

\* Quotient and remainder of numbers.
LEMMA DivisionTheorem ==
  ASSUME NEW a \in Nat, NEW w \in Nat, w > 0
  PROVE  a \div w \in Nat /\ a % w \in 0..(w-1) /\ a = (a \div w) * w + (a % w)
  <1>1. a % w \in 0..(w-1)
    OBVIOUS
  <1>2. PICK q \in Int : q = a \div w
    OBVIOUS
  <1>3. PICK r \in 0..(w-1) : r = a % w
    BY <1>1
  <1>4. a = w * (a \div w) + (a % w)
    <2>1. a \in Int /\ w \in Int
      OBVIOUS
    <2>2. QED BY ONLY <2>1, w > 0, DivisionOfInt, Zenon
  <1>5. a = w * q + r
    BY <1>2, <1>3, <1>4
  <1>6. q \in Nat
    <2>1. SUFFICES ASSUME q < 0 PROVE FALSE
      OBVIOUS
    <2>2. PICK n \in Nat : q = -1 - n
      <3>1. -1 - q \in Nat /\ q = -1 - (-1 - q)
        BY <2>1
      <3>2. QED BY <3>1
    <2>3. w * (-1 - n) = -(n * w) - w /\ n * w \in Nat
      OBVIOUS
    <2>4. QED BY <1>5, <2>2, <2>3
  <1>7. w * q = q * w
    OBVIOUS
  <1>8. a = q * w + r
    BY <1>5, <1>7
  <1>9. a = (a \div w) * w + (a % w)
    BY ONLY <1>2, <1>3, <1>8, Zenon
  <1>10. QED BY <1>1, <1>2, <1>6, <1>9

\* What has the form of a quotient and a remainder is them.
LEMMA DivisionIs ==
  ASSUME NEW a \in Nat, NEW w \in Nat, NEW q \in Nat, NEW r \in 0..(w-1), a = q * w + r
  PROVE  a \div w = q /\ a % w = r
  <1>1. w > 0
    OBVIOUS
  <1>2. PICK p \in Nat : p = a \div w
    BY <1>1, DivisionTheorem
  <1>3. PICK s \in 0..(w-1) : s = a % w
    BY <1>1, DivisionTheorem
  <1>4. a = p * w + s
    BY <1>1, <1>2, <1>3, DivisionTheorem
  <1>5. p = q /\ s = r
    BY <1>4, DivisionUnique
  <1>6. QED BY <1>2, <1>3, <1>5

\* A remainder may be taken before a sum.
LEMMA ModAdd ==
  ASSUME NEW a \in Nat, NEW x \in Nat, NEW w \in Nat, w > 0
  PROVE  ((a % w) + x) % w = (a + x) % w
  <1>1. PICK q \in Nat : q = a \div w
    BY DivisionTheorem
  <1>2. PICK r \in 0..(w-1) : r = a % w
    BY DivisionTheorem
  <1>3. a = q * w + r
    BY <1>1, <1>2, DivisionTheorem
  <1>4. PICK b \in Nat : b = r + x
    OBVIOUS
  <1>5. PICK p \in Nat : p = b \div w
    BY DivisionTheorem
  <1>6. PICK s \in 0..(w-1) : s = b % w
    BY DivisionTheorem
  <1>7. b = p * w + s
    BY <1>5, <1>6, DivisionTheorem
  <1>8. PICK c \in Nat : c = a + x
    OBVIOUS
  <1>9. c = (q + p) * w + s
    <2>1. (q + p) * w = q * w + p * w
      OBVIOUS
    <2>2. q * w \in Nat /\ p * w \in Nat
      OBVIOUS
    <2>3. QED BY <1>3, <1>4, <1>7, <1>8, <2>1, <2>2
  <1>10. q + p \in Nat
    OBVIOUS
  <1>11. c % w = s
    BY <1>9, <1>10, DivisionIs
  <1>12. QED BY <1>2, <1>4, <1>6, <1>8, <1>11

\* a divided by w is q, and r is left.
IsDivision(a, w, q, r) == r \in 0..(w - 1) /\ a = q * w + r

\* DivisionIs, for a fact under one name.
LEMMA DivisionBy ==
  ASSUME NEW a \in Nat, NEW w \in Nat, NEW q \in Nat, NEW r, IsDivision(a, w, q, r)
  PROVE  a \div w = q /\ a % w = r
  <1>1. PICK s \in 0..(w - 1) : s = r
    BY DEF IsDivision
  <1>2. a = q * w + s
    BY <1>1 DEF IsDivision
  <1>3. a \div w = q /\ a % w = s
    BY <1>2, DivisionIs
  <1>4. QED BY <1>1, <1>3

\* The least and the greatest of some numbers.
LEMMA MinOfNat ==
  ASSUME NEW S \in SUBSET Nat, S # {}
  PROVE  Min(S) \in S /\ \A y \in S : Min(S) <= y
  <1>1. IsWellFoundedOn(NatLess, Nat)
    BY NatLessThanWellFounded DEF NatLess, OpToRel
  <1>2. PICK x \in S : \A y \in S : ~ (<<y, x>> \in NatLess)
    BY <1>1, WFMin
  <1>3. \A y \in S : x <= y
    <2>1. ASSUME NEW y \in S PROVE x <= y
      <3>1. x \in Nat /\ y \in Nat /\ ~ (<<y, x>> \in NatLess)
        BY <1>2
      <3>2. QED BY <3>1 DEF NatLess
    <2>2. QED BY <2>1
  <1>4. QED BY <1>3 DEF Min

\* A set of numbers up to n has a greatest one.
LEMMA MaxOfBounded ==
  ASSUME NEW n \in Nat, NEW S \in SUBSET (0..n), S # {}
  PROVE  Max(S) \in S /\ \A y \in S : y <= Max(S)
  <1> DEFINE T == {n - y : y \in S}
  <1>1. T \in SUBSET Nat /\ T # {}
    <2>1. \A y \in S : n - y \in Nat
      OBVIOUS
    <2>2. PICK y \in S : TRUE
      OBVIOUS
    <2>3. n - y \in T
      OBVIOUS
    <2>4. QED BY <2>1, <2>3
  <1>2. Min(T) \in T /\ \A z \in T : Min(T) <= z
    BY <1>1, MinOfNat
  <1>3. PICK x \in S : Min(T) = n - x
    BY <1>2
  <1>4. \A y \in S : y <= x
    <2>1. ASSUME NEW y \in S PROVE y <= x
      <3>1. n - y \in T
        OBVIOUS
      <3>2. n - x <= n - y
        BY <1>2, <1>3, <3>1
      <3>3. QED BY <3>2
    <2>2. QED BY <2>1
  <1>5. QED BY <1>4 DEF Max

\* A greater power is at least as great.
LEMMA PowerMonotone ==
  ASSUME NEW b \in Nat, b > 1, NEW m \in Nat, NEW n \in Nat, m <= n
  PROVE  Power(b, m) <= Power(b, n)
  <1>1. CASE m = n
    <2>1. PICK x \in Nat : x = Power(b, n)
      BY PowerType
    <2>2. QED BY <1>1, <2>1
  <1>2. CASE m < n
    <2>1. PICK x \in Nat : x = Power(b, n)
      BY PowerType
    <2>2. PICK y \in Nat : y = Power(b, m)
      BY PowerType
    <2>3. Power(b, m) < Power(b, n)
      BY <1>2, PowerGrows
    <2>4. QED BY <2>1, <2>2, <2>3
  <1>3. QED BY <1>1, <1>2

\* Twice the exponent is the square.
LEMMA PowerDouble ==
  ASSUME NEW b \in Nat, NEW n \in Nat, NEW x \in Nat, Power(b, n) = x
  PROVE  Power(b, n + n) = x * x
  BY PowerAdd

\* PowerAdd, where the two powers have names.
LEMMA PowerSum ==
  ASSUME NEW b \in Nat, NEW m \in Nat, NEW n \in Nat, NEW x \in Nat, NEW y \in Nat,
         Power(b, m) = x, Power(b, n) = y
  PROVE  Power(b, m + n) = x * y
  BY PowerAdd

\* The first power is the base.
LEMMA PowerFirst ==
  ASSUME NEW b \in Nat
  PROVE  Power(b, 1) = b
  <1>1. PICK z \in Nat : z = 0 /\ z + 1 = 1
    OBVIOUS
  <1>2. Power(b, z) = 1 /\ Power(b, z + 1) = b * Power(b, z)
    BY <1>1, PowerStep
  <1>3. Power(b, 1) = b * 1
    BY <1>1, <1>2
  <1>4. QED BY <1>3

\* Products grow with their factors.
LEMMA ProductMonotone ==
  ASSUME NEW a \in Nat, NEW b \in Nat, NEW x \in Nat, NEW y \in Nat, a <= b, x <= y
  PROVE  a * x <= b * y
  <1>1. PICK d \in Nat : b = a + d
    <2>1. b - a \in Nat /\ b = a + (b - a)
      OBVIOUS
    <2>2. QED BY <2>1
  <1>2. PICK e \in Nat : y = x + e
    <2>1. y - x \in Nat /\ y = x + (y - x)
      OBVIOUS
    <2>2. QED BY <2>1
  <1>3. (a + d) * (x + e) = a * x + a * e + d * x + d * e
    OBVIOUS
  <1>4. PICK m \in Nat : m = a * e
    OBVIOUS
  <1>5. PICK n \in Nat : n = d * x
    OBVIOUS
  <1>6. PICK o \in Nat : o = d * e
    OBVIOUS
  <1>7. PICK q \in Nat : q = a * x
    OBVIOUS
  <1>8. q <= q + m + n + o
    OBVIOUS
  <1>9. QED BY <1>1, <1>2, <1>3, <1>4, <1>5, <1>6, <1>7, <1>8

\* Powers grow with their base.
LEMMA PowerBase ==
  ASSUME NEW b \in Nat, NEW c \in Nat, b <= c
  PROVE  \A n \in Nat : Power(b, n) <= Power(c, n)
  <1> DEFINE S == {n \in Nat : Power(b, n) <= Power(c, n)}
  <1>1. 0 \in S
    BY PowerStep
  <1>2. ASSUME NEW n \in Nat, n \in S PROVE n + 1 \in S
    <2>1. PICK x \in Nat : x = Power(b, n)
      BY PowerType
    <2>2. PICK y \in Nat : y = Power(c, n)
      BY PowerType
    <2>3. x <= y
      BY <1>2, <2>1, <2>2
    <2>4. Power(b, n + 1) = b * x /\ Power(c, n + 1) = c * y
      BY <2>1, <2>2, PowerStep
    <2>5. b * x <= c * y
      BY <2>3, ProductMonotone
    <2>6. QED BY <2>4, <2>5
  <1> HIDE DEF S
  <1>3. Nat \subseteq S
    BY <1>1, <1>2, SetInduction
  <1>4. QED BY <1>3 DEF S

\* The remainder of the next number is that of the remainder's next one.
ModStep(a, b, d, w) == ((a % w) * b + d) % w = (a * b + d) % w

\* A remainder may be taken before a digit more.
LEMMA ModMultiply ==
  ASSUME NEW a \in Nat, NEW b \in Nat, NEW d \in Nat, NEW w \in Nat, w > 0
  PROVE  ModStep(a, b, d, w)
  <1>1. PICK q \in Nat : q = a \div w
    BY DivisionTheorem
  <1>2. PICK r \in Nat : r = a % w
    BY DivisionTheorem
  <1>3. a = q * w + r
    BY <1>1, <1>2, DivisionTheorem
  <1>4. PICK e \in Nat : e = r * b + d
    BY LinearNat
  <1>5. PICK p \in Nat : p = e \div w
    BY DivisionTheorem
  <1>6. PICK s \in 0..(w-1) : s = e % w
    BY DivisionTheorem
  <1>7. e = p * w + s
    BY <1>5, <1>6, DivisionTheorem
  <1>8. PICK c \in Nat : c = a * b + d
    BY LinearNat
  <1>9. c = (q * b + p) * w + s
    <2>1. (q * w + r) * b = (q * b) * w + r * b
      OBVIOUS
    <2>2. (q * b + p) * w = (q * b) * w + p * w
      OBVIOUS
    <2>3. PICK x \in Nat : x = (q * b) * w
      OBVIOUS
    <2>4. PICK y \in Nat : y = r * b
      OBVIOUS
    <2>5. PICK z \in Nat : z = p * w
      OBVIOUS
    <2>6. c = x + y + d
      BY <1>3, <1>8, <2>1, <2>3, <2>4
    <2>7. (q * b + p) * w = x + z
      BY <2>2, <2>3, <2>5
    <2>8. y + d = z + s
      BY <1>4, <1>7, <2>4, <2>5
    <2>9. QED BY <2>6, <2>7, <2>8
  <1>10. PICK g \in Nat : g = q * b + p
    BY LinearNat
  <1>11. c % w = s
    BY <1>9, <1>10, DivisionIs
  <1>12. QED BY <1>2, <1>4, <1>6, <1>8, <1>11 DEF ModStep

\* Nothing remains of zero.
LEMMA ZeroMod ==
  ASSUME NEW w \in Nat, w > 0
  PROVE  0 % w = 0
  <1>1. PICK z \in Nat : z = 0
    OBVIOUS
  <1>2. z = z * w + z /\ z \in 0..(w - 1)
    BY <1>1
  <1>3. z % w = z
    BY <1>2, DivisionIs
  <1>4. QED BY <1>1, <1>3
----------------------------------------------------------------------------
(* Sequences in two parts *)

\* z is s and then t, which have m and n members.
Concatenated(D, z, s, t, m, n) ==
  /\ z \in Seq(D) /\ Len(z) = m + n
  /\ \A i \in 1..m : z[i] = s[i]
  /\ \A i \in 1..n : z[m + i] = t[i]

\* The members of two sequences joined.
LEMMA JoinFacts ==
  ASSUME NEW D, NEW s \in Seq(D), NEW t \in Seq(D), NEW m \in Nat, NEW n \in Nat,
         Len(s) = m, Len(t) = n
  PROVE  Concatenated(D, s \o t, s, t, m, n)
  BY DEF Concatenated

\* The first n members of a sequence.
LEMMA FrontFacts ==
  ASSUME NEW D, NEW s \in Seq(D), NEW n \in Nat, n <= Len(s)
  PROVE  /\ SubSeq(s, 1, n) \in Seq(D) /\ Len(SubSeq(s, 1, n)) = n
         /\ \A i \in 1..n : SubSeq(s, 1, n)[i] = s[i]
  OBVIOUS

\* A member of a sequence over D is in D.
LEMMA SeqElement ==
  ASSUME NEW D, NEW s \in Seq(D), NEW i \in 1..Len(s)
  PROVE  s[i] \in D
  OBVIOUS

\* A function on the first n numbers is a sequence.
LEMMA SequenceOf ==
  ASSUME NEW D, NEW n \in Nat, NEW f \in [1..n -> D]
  PROVE  f \in Seq(D)
  OBVIOUS
=============================================================================
