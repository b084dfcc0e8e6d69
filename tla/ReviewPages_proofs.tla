------------------------- MODULE ReviewPages_proofs -------------------------
(***************************************************************************)
(* What a reader sees of Review, for all ordinary documents: whichever way *)
(* a page was come to, it is that page of the text.  And the review        *)
(* implements the book: every step of it opens a document, moves by one    *)
(* place, closes it, or changes nothing that the book knows of.            *)
(***************************************************************************)
EXTENDS OrdinaryReview, Review_proofs

----------------------------------------------------------------------------
\* Parts.

\* The text of a part is the slice from what was sent to what has been sent then.
LEMMA FirstPart ==
  ASSUME NEW d \in Docs
  PROVE  /\ PartUnits(d, 1) \in Seq(UnitSet)
         /\ PartUnits(d, 1) = SubSeq(Units(d), 1, Sent[d][1])
         /\ Text(PartUnits(d, 1)) = SubSeq(Stream[d], 1, Upto(d, 1))
  <1>1. 1 \in 1..Parts(d)
    BY DocAssumption DEF Parts
  <1>2. Sent[d][1] \in Nat /\ Sent[d][1] <= Len(Glyphs[d])
    BY <1>1, SentOrder
  <1>3. 0 \in Nat /\ 0 <= Sent[d][1] /\ 0 + 1 = 1
    BY <1>2
  <1>4. Text(SubSeq(Units(d), 0 + 1, Sent[d][1])) = SubSeq(Stream[d], Gloss(d, 0) + 1, Gloss(d, Sent[d][1]))
    BY <1>2, <1>3, UnitSlice
  <1>5. Gloss(d, 0) + 1 = 1
    BY StreamType
  <1>6. PartUnits(d, 1) = SubSeq(Units(d), 1, Sent[d][1])
    BY DEF PartUnits
  <1>7. SubSeq(Units(d), 1, Sent[d][1]) \in Seq(UnitSet)
    BY <1>2, UnitsType
  <1>8. QED BY <1>3, <1>4, <1>5, <1>6, <1>7 DEF Upto, Gloss

LEMMA LaterPart ==
  ASSUME NEW d \in Docs, NEW p \in 1..Parts(d), p > 1
  PROVE  /\ PartUnits(d, p) \in Seq(UnitSet)
         /\ Text(PartUnits(d, p)) = SubSeq(Stream[d], Upto(d, p - 1) + 1, Upto(d, p))
  <1>1. /\ Sent[d][p] \in Nat /\ Sent[d][p] <= Len(Glyphs[d])
        /\ Sent[d][p-1] \in Nat /\ Sent[d][p-1] <= Sent[d][p]
    BY SentOrder
  <1>2. PartUnits(d, p) = SubSeq(Units(d), Sent[d][p-1] + 1, Sent[d][p])
    <2>1. p # 1
      BY DocAssumption DEF Parts
    <2>2. QED BY <2>1 DEF PartUnits
  <1>3. PartUnits(d, p) \in Seq(UnitSet)
    BY PartUnitsType
  <1>4. Text(SubSeq(Units(d), Sent[d][p-1] + 1, Sent[d][p]))
          = SubSeq(Stream[d], Gloss(d, Sent[d][p-1]) + 1, Gloss(d, Sent[d][p]))
    BY <1>1, UnitSlice
  <1>5. QED BY <1>2, <1>3, <1>4 DEF Upto, Gloss

\* What has been sent with part p.
LEMMA UptoOrder ==
  ASSUME NEW d \in Docs, NEW p \in 1..Parts(d)
  PROVE  /\ Upto(d, p) \in Nat /\ Upto(d, p) <= Len(Stream[d])
         /\ Upto(d, Parts(d)) = Len(Stream[d])
         /\ p > 1 => Upto(d, p - 1) \in Nat /\ Upto(d, p - 1) <= Upto(d, p)
         /\ Sent[d][p] = Len(Glyphs[d]) => Upto(d, p) = Len(Stream[d])
  <1>1. /\ Sent[d][p] \in Nat /\ Sent[d][p] <= Len(Glyphs[d])
        /\ Sent[d][Parts(d)] = Len(Glyphs[d])
        /\ p > 1 => Sent[d][p-1] \in Nat /\ Sent[d][p-1] <= Sent[d][p]
    BY SentOrder
  <1>2. Upto(d, p) = Gloss(d, Sent[d][p]) /\ Upto(d, p - 1) = Gloss(d, Sent[d][p-1])
    BY DEF Upto, Gloss
  <1>3. Upto(d, Parts(d)) = Len(Stream[d])
    BY <1>1, StreamType DEF Upto, Gloss
  <1>4. Upto(d, p) \in Nat /\ Upto(d, p) <= Len(Stream[d])
    BY <1>1, <1>2, UnitSlice
  <1>5. p > 1 => Upto(d, p - 1) \in Nat /\ Upto(d, p - 1) <= Upto(d, p)
    BY <1>1, <1>2, UnitSlice
  <1>6. QED BY <1>1, <1>2, <1>3, <1>4, <1>5, StreamType

----------------------------------------------------------------------------
\* Pages.

\* The glyphs of the last screen of d on the pages up to page n.
Before(d, n) == (n - Fixed[d]) * W

LEMMA BeforeNext ==
  ASSUME NEW d \in Docs, NEW n \in Nat, n >= Fixed[d]
  PROVE  /\ Before(d, n) \in Nat /\ Before(d, n + 1) = Before(d, n) + W
         /\ Before(d, Fixed[d]) = 0
         /\ Fixed[d] \in Nat /\ Num(d) = Fixed[d] + 1 /\ W \in Nat /\ W > 0
  <1>1. Fixed[d] \in Nat /\ W \in Nat /\ W > 0
    BY DocAssumption, PageAssumption
  <1>2. PICK m \in Nat : m = n - Fixed[d]
    BY <1>1
  <1>3. n + 1 - Fixed[d] = m + 1 /\ Fixed[d] - Fixed[d] = 0
    BY <1>1, <1>2
  <1>4. m * W \in Nat /\ (m + 1) * W = m * W + W /\ 0 * W = 0
    BY <1>1
  <1>5. QED BY <1>1, <1>2, <1>3, <1>4 DEF Before, Num

\* Rounding up.
LEMMA Ceiling ==
  ASSUME NEW w \in Nat \ {0}, NEW n \in Nat
  PROVE  /\ (n + w - 1) \div w \in Nat
         /\ n <= ((n + w - 1) \div w) * w
         /\ ((n + w - 1) \div w) * w < n + w
  OBVIOUS

\* The number of pages of the last screen: as many as the text fills, or the
\* maximum and one.
LEMMA PageCounted ==
  ASSUME NEW d \in Docs
  PROVE  /\ PageCount[d] \in Nat /\ PageCount[d] >= Num(d)
         /\ IsCut(d) => PageCount[d] = Num(d) + MaxPages
         /\ ~IsCut(d) => /\ Len(Stream[d]) <= Before(d, PageCount[d])
                         /\ Before(d, PageCount[d]) < Len(Stream[d]) + W
  <1>1. /\ Fixed[d] \in Nat /\ W \in Nat /\ W > 0 /\ MaxPages \in Nat /\ Num(d) = Fixed[d] + 1
    BY DocAssumption, PageAssumption DEF Num
  <1>2. Len(Stream[d]) \in Nat /\ Len(Stream[d]) > 0
    <2>1. Stream[d] \in Seq(GlyphSet) /\ Stream[d] # <<>>
      BY StreamType, OrdinaryAssumption DEF HasText
    <2>2. QED BY <2>1
  <1>3. CASE IsCut(d)
    BY <1>1, <1>3 DEF PageCount
  <1>4. CASE ~IsCut(d)
    <2> DEFINE c == (Len(Stream[d]) + W - 1) \div W
    <2>1. c \in Nat /\ Len(Stream[d]) <= c * W /\ c * W < Len(Stream[d]) + W
      BY <1>2, PageAssumption, Ceiling
    <2>2. PageCount[d] = Fixed[d] + c
      BY <1>4 DEF PageCount
    <2> HIDE DEF c
    <2>3. PageCount[d] - Fixed[d] = c
      BY <1>1, <2>1, <2>2
    <2>4. c # 0
      <3>1. 0 * W = 0
        BY <1>1
      <3>2. QED BY <1>1, <1>2, <2>1, <3>1
    <2>5. QED BY <1>1, <1>4, <2>1, <2>2, <2>3, <2>4 DEF Before
  <1>5. QED BY <1>3, <1>4

\* Fewer pages hold fewer glyphs.
LEMMA BeforeLess ==
  ASSUME NEW d \in Docs, NEW m \in Nat, NEW n \in Nat, Before(d, m) < Before(d, n)
  PROVE  m < n
  <1>1. Fixed[d] \in Nat /\ W \in Nat /\ W > 0
    BY DocAssumption, PageAssumption
  <1>2. SUFFICES ASSUME n <= m PROVE FALSE
    OBVIOUS
  <1>3. PICK c \in Nat : m = n + c
    <2>1. m - n \in Nat /\ m = n + (m - n)
      BY <1>2
    <2>2. QED BY <2>1
  <1>4. Before(d, m) = Before(d, n) + c * W /\ c * W >= 0
    BY <1>1, <1>3 DEF Before
  <1>5. Before(d, n) \in Int /\ c * W \in Int
    BY <1>1 DEF Before
  <1>6. QED BY <1>4, <1>5

\* The beginning of a text is that of its beginning.
LEMMA PrefixSlice ==
  ASSUME NEW S, NEW x \in Seq(S), NEW y \in Seq(S), NEW n \in 0..Len(x)
  PROVE  SubSeq(x \o y, 1, n) = SubSeq(x, 1, n)
  <1> DEFINE w == x \o y
             l == SubSeq(w, 1, n)
             r == SubSeq(x, 1, n)
  <1>1. /\ w \in Seq(S) /\ Len(w) = Len(x) + Len(y) /\ Len(x) \in Nat /\ Len(y) \in Nat
        /\ \A i \in 1..Len(x) : w[i] = x[i]
    OBVIOUS
  <1> HIDE DEF w
  <1>2. l \in Seq(S) /\ Len(l) = n /\ \A i \in 1..n : l[i] = w[i]
    BY <1>1
  <1>3. r \in Seq(S) /\ Len(r) = n /\ \A i \in 1..n : r[i] = x[i]
    BY <1>1
  <1> HIDE DEF l, r
  <1>4. ASSUME NEW i \in 1..Len(l) PROVE l[i] = r[i]
    <2>1. i \in 1..n /\ i \in 1..Len(x)
      BY <1>1, <1>2
    <2>2. QED BY <1>1, <1>2, <1>3, <2>1
  <1>5. l = r
    BY <1>2, <1>3, <1>4, SeqEqual
  <1>6. QED BY <1>5 DEF l, r, w

\* The length of a slice.
LEMMA SliceLength ==
  ASSUME NEW S, NEW s \in Seq(S), NEW a \in Nat, NEW b \in Nat, b <= Len(s)
  PROVE  /\ SubSeq(s, a + 1, b) \in Seq(S)
         /\ Len(SubSeq(s, a + 1, b)) = IF a < b THEN b - a ELSE 0
  OBVIOUS

\* The first page of a slice of a text, and the rest.
LEMMA PageSlices ==
  ASSUME NEW T \in Seq(GlyphSet), NEW b \in Nat, NEW u \in Nat, u <= Len(T), W \in Nat,
         b + W <= u
  PROVE  /\ SubSeq(SubSeq(T, b + 1, u), 1, W) = SubSeq(T, b + 1, b + W)
         /\ Drop(SubSeq(T, b + 1, u), W) = SubSeq(T, b + W + 1, u)
  BY SliceOfSlice, SMT

\* A page of its document: the text, and the title of its screen.
OnPage(d, p) ==
  /\ p.page \in 1..PageCount[d]
  /\ p.screen = Least(p.page, Num(d)) /\ p.title = p.screen
  /\ p.shown = PageText(d, p.page)

\* What is parsed, and what is left of the input after k parts, continue the text
\* after the page.
Follows(d, k, p) ==
  /\ p.parsed \o Text(Drop(p.input, p.pos))
       = SubSeq(Stream[d], Before(d, p.page) + 1, Upto(d, k))
  /\ k < Parts(d) => Before(d, p.page) <= Upto(d, k)

\* The glyphs of the last screen of d that page n has room for.
PageGlyphs(d, n) ==
  SubSeq(Stream[d], Before(d, n - 1) + 1, Least(Before(d, n - 1) + W, Len(Stream[d])))

\* The maximum of pages of the screens made for d.
MaxOf(d, max) ==
  /\ max \in {0, MaxPages} /\ (max # 0 => \E l \in Docs : Long[l])
  /\ Long[d] => max = MaxPages
  /\ IsTxn(d) /\ ~Long[d] => max = 0

\* The maximum is where the document is cut, and beyond what other documents
\* display, but for a last page without dots.
LEMMA MaximumRight ==
  ASSUME NEW d \in Docs, NEW e, e.doc = d, MaxOf(d, e.max), NEW p, p.page \in Nat,
         p.page >= Num(d), p.page <= PageCount[d]
  PROVE  /\ AtMaxPages(e, p) =>
              /\ p.page = PageCount[d]
              /\ ~IsCut(d) => Len(Stream[d]) <= Before(d, p.page - 1) + DotsAbove
         /\ IsCut(d) /\ p.page = PageCount[d] => AtMaxPages(e, p)
  <1>1. /\ Fixed[d] \in Nat /\ W \in Nat /\ W > 0 /\ MaxPages \in Nat /\ MaxPages > 0
        /\ Num(d) = Fixed[d] + 1 /\ DotsAbove \in Nat /\ DotsAbove < W
    BY DocAssumption, PageAssumption, OrdinaryAssumption DEF Num
  <1>2. IsCut(d) => PageCount[d] = Num(d) + MaxPages /\ e.max = MaxPages
    BY PageCounted DEF IsCut, MaxOf
  <1>3. CASE AtMaxPages(e, p)
    <2>1. e.max = MaxPages /\ p.page >= Num(d) + MaxPages
      BY <1>1, <1>3 DEF AtMaxPages, MaxOf
    <2>2. CASE IsCut(d)
      BY <1>1, <1>2, <1>3, <2>1, <2>2
    <2>3. CASE ~IsCut(d)
      <3>1. EndsBeforeDots(d)
        BY <1>1, <2>1, <2>3, OrdinaryAssumption DEF MeetsMaximum, MaxOf
      <3>2. Len(Stream[d]) <= MaxPages * W + DotsAbove
        BY <3>1 DEF EndsBeforeDots
      <3>3. Before(d, PageCount[d]) < Len(Stream[d]) + W
        BY <2>3, PageCounted
      <3>4. MaxPages * W \in Nat /\ (MaxPages + 2) * W = MaxPages * W + W + W
        BY <1>1
      <3>5. (Num(d) + MaxPages + 1) - Fixed[d] = MaxPages + 2
        BY <1>1
      <3>6. Before(d, Num(d) + MaxPages + 1) = MaxPages * W + W + W
        <4>1. Before(d, Num(d) + MaxPages + 1) = ((Num(d) + MaxPages + 1) - Fixed[d]) * W
          BY DEF Before
        <4>2. QED BY <3>4, <3>5, <4>1, Zenon
      <3>7. PageCount[d] \in Nat /\ Len(Stream[d]) \in Nat
        BY PageCounted, StreamType
      <3>8. Before(d, PageCount[d]) \in Int
        BY <1>1, <3>7 DEF Before
      <3>9. Before(d, PageCount[d]) < Before(d, Num(d) + MaxPages + 1)
        BY <1>1, <3>2, <3>3, <3>4, <3>6, <3>7, <3>8
      <3>10. PageCount[d] < Num(d) + MaxPages + 1
        BY <1>1, <3>7, <3>9, BeforeLess
      <3>11. p.page = PageCount[d] /\ p.page = Num(d) + MaxPages
        BY <1>1, <2>1, <3>7, <3>10
      <3>12. p.page - 1 - Fixed[d] = MaxPages
        BY <1>1, <3>11
      <3>13. Before(d, p.page - 1) = MaxPages * W
        BY <3>12 DEF Before
      <3>14. QED BY <2>3, <3>2, <3>11, <3>13
    <2>4. QED BY <1>3, <2>2, <2>3
  <1>4. IsCut(d) /\ p.page = PageCount[d] => AtMaxPages(e, p)
    BY <1>1, <1>2 DEF AtMaxPages
  <1>5. QED BY <1>3, <1>4

\* The dots are put where they belong.
LEMMA DotsRight ==
  ASSUME NEW d \in Docs, NEW e, e.doc = d, MaxOf(d, e.max), NEW p, p.page \in Nat,
         p.page >= Num(d), p.page <= PageCount[d]
  PROVE  Dotted(e, p, PageGlyphs(d, p.page)) = PageText(d, p.page)
  <1> DEFINE s == PageGlyphs(d, p.page)
  <1>0. s = SubSeq(Stream[d], Before(d, p.page - 1) + 1,
                   Least(Before(d, p.page - 1) + W, Len(Stream[d])))
    BY DEF PageGlyphs
  <1> SUFFICES Dotted(e, p, s) = PageText(d, p.page)
    OBVIOUS
  <1> HIDE DEF s
  <1>1. /\ Fixed[d] \in Nat /\ Num(d) = Fixed[d] + 1 /\ W \in Nat /\ DotsAbove \in Nat
    BY DocAssumption, PageAssumption DEF Num
  <1>2. (p.page - Num(d)) * W = Before(d, p.page - 1)
    <2>1. p.page - Num(d) = (p.page - 1) - Fixed[d]
      BY <1>1
    <2>2. QED BY <2>1 DEF Before
  <1>3. ~(p.page < Num(d))
    BY <1>1
  <1>4. PageText(d, p.page) =
          IF IsCut(d) /\ p.page = PageCount[d] /\ Len(s) > DotsAbove
          THEN SubSeq(s, 1, Len(s) - 3) \o <<Dot, Dot, Dot>>
          ELSE s
    BY <1>0, <1>2, <1>3, Zenon DEF PageText
  <1>5. IsCut(d) /\ p.page = PageCount[d] => AtMaxPages(e, p)
    BY MaximumRight
  <1>6. ASSUME AtMaxPages(e, p), Len(s) > DotsAbove PROVE IsCut(d) /\ p.page = PageCount[d]
    <2>1. p.page = PageCount[d]
      BY <1>6, MaximumRight
    <2>2. ASSUME ~IsCut(d) PROVE FALSE
      <3>1. Len(Stream[d]) <= Before(d, p.page - 1) + DotsAbove
        BY <1>6, <2>2, MaximumRight
      <3>2. Stream[d] \in Seq(GlyphSet) /\ Len(Stream[d]) \in Nat
        BY StreamType
      <3>3. p.page - 1 \in Nat /\ p.page - 1 >= Fixed[d]
        BY <1>1
      <3>4. Before(d, p.page - 1) \in Nat
        BY <3>3, BeforeNext
      <3>5. PICK b \in Nat : b = Before(d, p.page - 1)
        BY <3>4
      <3>6. PICK c \in Nat : c = Least(b + W, Len(Stream[d])) /\ c <= Len(Stream[d])
        BY <1>1, <3>2 DEF Least
      <3>7. s = SubSeq(Stream[d], b + 1, c)
        BY <1>0, <3>5, <3>6, Zenon
      <3>8. Len(s) = IF b < c THEN c - b ELSE 0
        <4>1. Len(SubSeq(Stream[d], b + 1, c)) = IF b < c THEN c - b ELSE 0
          BY <3>2, <3>6, SliceLength
        <4>2. QED BY <3>7, <4>1, Zenon
      <3>9. Len(Stream[d]) <= b + DotsAbove
        BY <3>1, <3>5
      <3>10. c - b <= DotsAbove /\ 0 <= DotsAbove
        BY <1>1, <3>2, <3>6, <3>9
      <3>11. Len(s) <= DotsAbove /\ Len(s) \in Int
        BY <1>1, <3>5, <3>6, <3>8, <3>10
      <3>12. \A i, j \in Int : ~(i <= j /\ i > j)
        OBVIOUS
      <3>13. DotsAbove \in Int
        BY <1>1
      <3>14. QED BY <1>6, <3>11, <3>12, <3>13, Zenon
    <2>3. QED BY <2>1, <2>2
  <1>7. CASE AtMaxPages(e, p) /\ Len(s) > DotsAbove
    BY <1>4, <1>6, <1>7 DEF Dotted
  <1>8. CASE ~(AtMaxPages(e, p) /\ Len(s) > DotsAbove)
    BY <1>4, <1>5, <1>8 DEF Dotted
  <1>9. QED BY <1>7, <1>8

\* What is left of the input when all is read.
LEMMA AllRead ==
  ASSUME NEW p, PagerOK(p), p.pos = Len(p.input)
  PROVE  /\ Text(Drop(p.input, p.pos)) = <<>>
         /\ p.parsed \o Text(Drop(p.input, p.pos)) = p.parsed
  <1>1. p.input \in Seq(UnitSet) /\ p.pos \in Nat /\ p.parsed \in Seq(GlyphSet)
    BY DEF PagerOK, PagerSet
  <1>2. Drop(p.input, p.pos) = <<>>
    BY <1>1, DropAll
  <1>3. QED BY <1>1, <1>2, TextEmpty, ConcatEmptySeq

\* What is parsed in full, or for good, is the next page, and what is kept follows
\* it.
LEMMA NextPageText ==
  ASSUME NEW d \in Docs, NEW k \in 1..Parts(d), NEW p, PagerOK(p), Follows(d, k, p),
         p.page >= Fixed[d],
         Len(p.parsed) >= W \/ (p.pos = Len(p.input) /\ k = Parts(d) /\ p.parsed # <<>>)
  PROVE  /\ SubSeq(p.parsed, 1, Least(W, Len(p.parsed))) = PageGlyphs(d, p.page + 1)
         /\ Drop(p.parsed, W) \o Text(Drop(p.input, p.pos))
              = SubSeq(Stream[d], Before(d, p.page + 1) + 1, Upto(d, k))
         /\ Len(p.parsed) >= W => Before(d, p.page + 1) <= Upto(d, k)
         /\ Before(d, p.page) < Len(Stream[d])
  <1> DEFINE left == Text(Drop(p.input, p.pos))
  <1>a. /\ p \in PagerSet /\ p.input \in Seq(UnitSet) /\ p.pos \in Nat
        /\ p.parsed \in Seq(GlyphSet) /\ p.page \in Nat
    BY DEF PagerOK, PagerSet
  <1>b. left \in Seq(GlyphSet)
    <2>1. Drop(p.input, p.pos) \in Seq(UnitSet)
      BY <1>a, DropType
    <2>2. QED BY <2>1, TextType
  <1>c. p.pos = Len(p.input) => left = <<>>
    BY AllRead
  <1>d. Upto(d, k) \in Nat /\ Upto(d, k) <= Len(Stream[d]) /\ (k = Parts(d) => Upto(d, k) = Len(Stream[d]))
    BY UptoOrder
  <1>e. p.parsed \o left = SubSeq(Stream[d], Before(d, p.page) + 1, Upto(d, k))
    BY DEF Follows
  <1> HIDE DEF left
  <1>f. PICK x \in Seq(GlyphSet) : x = p.parsed
    BY <1>a
  <1>g. PICK rest \in Seq(GlyphSet) : rest = left
    BY <1>b
  <1>h. PICK n \in Nat : n = p.page
    BY <1>a
  <1>i. PICK u \in Nat : u = Upto(d, k)
    BY <1>d
  <1>j. /\ n >= Fixed[d] /\ u <= Len(Stream[d])
        /\ x \o rest = SubSeq(Stream[d], Before(d, n) + 1, u)
        /\ Len(x) >= W \/ (rest = <<>> /\ u = Len(Stream[d]) /\ x # <<>>)
    BY <1>c, <1>d, <1>e, <1>f, <1>g, <1>h, <1>i
  <1>k. SUFFICES
          /\ SubSeq(x, 1, Least(W, Len(x))) = PageGlyphs(d, n + 1)
          /\ Drop(x, W) \o rest = SubSeq(Stream[d], Before(d, n + 1) + 1, u)
          /\ Len(x) >= W => Before(d, n + 1) <= u
          /\ Before(d, n) < Len(Stream[d])
    BY <1>f, <1>g, <1>h, <1>i, Zenon DEF left
  <1>l. PageGlyphs(d, n + 1)
          = SubSeq(Stream[d], Before(d, n) + 1, Least(Before(d, n) + W, Len(Stream[d])))
    <2>1. (n + 1) - 1 = n
      BY <1>h
    <2>2. QED BY <2>1 DEF PageGlyphs
  <1>1. /\ Before(d, n) \in Nat /\ Before(d, n + 1) = Before(d, n) + W /\ W \in Nat /\ W > 0
        /\ Stream[d] \in Seq(GlyphSet) /\ Len(Stream[d]) \in Nat
        /\ Len(x) \in Nat /\ Len(rest) \in Nat
    <2>1. Len(x) \in Nat /\ Len(rest) \in Nat
      BY <1>j
    <2>2. /\ Before(d, n) \in Nat /\ Before(d, n + 1) = Before(d, n) + W
          /\ W \in Nat /\ W > 0
      BY <1>j, BeforeNext
    <2>3. Stream[d] \in Seq(GlyphSet) /\ Len(Stream[d]) \in Nat
      BY StreamType
    <2>4. QED BY <2>1, <2>2, <2>3
  <1>2. PICK b \in Nat : b = Before(d, n)
    BY <1>1
  <1>3. PICK T \in Seq(GlyphSet) : T = Stream[d]
    BY <1>1
  <1>4. u <= Len(T) /\ Len(T) \in Nat
    BY <1>3, <1>j
  <1>5. x \o rest = SubSeq(T, b + 1, u)
    BY <1>2, <1>3, <1>j, Zenon
  <1>6. Len(x \o rest) = Len(x) + Len(rest) /\ x \o rest \in Seq(GlyphSet)
    BY ConcatProperties
  <1>7. Len(x) + Len(rest) = IF b < u THEN u - b ELSE 0
    <2>1. Len(SubSeq(T, b + 1, u)) = IF b < u THEN u - b ELSE 0
      BY <1>4, SliceLength
    <2>2. QED BY <1>5, <1>6, <2>1
  <1>8. SUFFICES /\ SubSeq(x, 1, Least(W, Len(x))) = SubSeq(T, b + 1, Least(b + W, Len(T)))
                 /\ Drop(x, W) \o rest = SubSeq(T, b + W + 1, u)
                 /\ Len(x) >= W => b + W <= u
                 /\ b < Len(T)
    BY <1>1, <1>2, <1>3, <1>l
  <1>9. CASE Len(x) >= W
    <2>1. b + W <= u /\ b < Len(T)
      BY <1>1, <1>4, <1>7, <1>9
    <2>2. Least(W, Len(x)) = W /\ Least(b + W, Len(T)) = b + W
      BY <1>1, <1>4, <1>9, <2>1 DEF Least
    <2>3. W \in 0..Len(x)
      BY <1>1, <1>9
    <2>4. SubSeq(x, 1, W) = SubSeq(x \o rest, 1, W)
      BY <2>3, PrefixSlice
    <2>5. /\ SubSeq(SubSeq(T, b + 1, u), 1, W) = SubSeq(T, b + 1, b + W)
          /\ Drop(SubSeq(T, b + 1, u), W) = SubSeq(T, b + W + 1, u)
      <3>1. T \in Seq(GlyphSet) /\ b \in Nat /\ u \in Nat /\ u <= Len(T) /\ W \in Nat
        BY <1>1, <1>2, <1>3, <1>4
      <3>2. QED BY <2>1, <3>1, PageSlices
    <2>6. Drop(x \o rest, W) = Drop(x, W) \o rest
      BY <2>3, DropConcat
    <2>7. QED BY <1>5, <2>1, <2>2, <2>4, <2>5, <2>6
  <1>10. CASE Len(x) < W /\ rest = <<>> /\ u = Len(T) /\ x # <<>>
    <2>1. x \o rest = x
      BY <1>10, ConcatEmptySeq
    <2>2. Len(x) > 0 /\ Len(rest) = 0
      BY <1>10
    <2>3. b < Len(T) /\ Len(T) < b + W /\ Len(x) = Len(T) - b
      BY <1>1, <1>4, <1>7, <1>10, <2>2
    <2>4. Least(W, Len(x)) = Len(x) /\ Least(b + W, Len(T)) = Len(T)
      BY <1>1, <1>4, <1>10, <2>3 DEF Least
    <2>5. SubSeq(x, 1, Len(x)) = x
      OBVIOUS
    <2>6. Drop(x, W) = <<>>
      BY <1>1, <1>10, DropAll
    <2>7. SubSeq(T, b + W + 1, u) = <<>>
      BY <1>1, <1>4, <1>10, <2>3
    <2>8. <<>> \o rest = <<>>
      BY <1>10
    <2>9. ~(Len(x) >= W)
      BY <1>1, <1>10
    <2>10. SubSeq(x, 1, Least(W, Len(x))) = SubSeq(T, b + 1, Least(b + W, Len(T)))
      <3>1. SubSeq(x, 1, Least(W, Len(x))) = x
        BY <2>4, <2>5, Zenon
      <3>2. SubSeq(T, b + 1, Least(b + W, Len(T))) = x
        BY <1>5, <1>10, <2>1, <2>4, Zenon
      <3>3. QED BY <3>1, <3>2, Zenon
    <2>11. Drop(x, W) \o rest = SubSeq(T, b + W + 1, u)
      BY <2>6, <2>7, <2>8, Zenon
    <2>12. QED BY <2>3, <2>9, <2>10, <2>11, Zenon
  <1>11. Len(x) >= W \/ (Len(x) < W /\ rest = <<>> /\ u = Len(T) /\ x # <<>>)
    <2>1. Len(x) >= W \/ Len(x) < W
      BY <1>1
    <2>2. QED BY <1>3, <1>j, <2>1, Zenon
  <1>12. QED BY <1>9, <1>10, <1>11, Zenon

\* A page, what is kept and what is left can be read in either order.
LEMMA GlyphsAssociative ==
  ASSUME NEW a \in Seq(GlyphSet), NEW b \in Seq(GlyphSet), NEW c \in Seq(GlyphSet)
  PROVE  (a \o b) \o c = a \o (b \o c)
  BY ConcatAssociative

\* Parsing more of the input leaves the text that follows as it is.
LEMMA ParseFollows ==
  ASSUME NEW d \in Docs, NEW k \in 1..Parts(d), NEW p, PagerOK(p), Follows(d, k, p),
         NEW q \in parse_page_text(p)
  PROVE  /\ PagerOK(q) /\ Follows(d, k, q)
         /\ q.screen = p.screen /\ q.title = p.title /\ q.page = p.page /\ q.shown = p.shown
         /\ Len(q.parsed) >= W \/ q.pos = Len(q.input)
  <1>1. PICK n \in 0..(Len(p.input) - p.pos) :
          /\ q = [p EXCEPT !.parsed = p.parsed \o Text(SubSeq(p.input, p.pos + 1, p.pos + n)),
                           !.pos = p.pos + n]
          /\ Len(q.parsed) >= W \/ q.pos = Len(q.input)
    BY ParsePageText
  <1>2. /\ p \in PagerSet /\ p.input \in Seq(UnitSet) /\ p.pos \in Nat /\ p.pos <= Len(p.input)
        /\ p.parsed \in Seq(GlyphSet) /\ Len(p.input) \in Nat
    BY DEF PagerOK, PagerSet
  <1> DEFINE X == SubSeq(p.input, p.pos + 1, p.pos + n)
             R == Drop(p.input, p.pos)
             S == Drop(p.input, p.pos + n)
  <1>3. /\ p.pos + n \in Nat /\ p.pos <= p.pos + n /\ p.pos + n <= Len(p.input)
        /\ Len(p.input) <= Len(p.input)
    BY <1>2
  <1>4. X \in Seq(UnitSet) /\ R \in Seq(UnitSet) /\ S \in Seq(UnitSet)
    <2>1. X \in Seq(UnitSet)
      BY <1>2, <1>3, SliceType
    <2>2. R \in Seq(UnitSet)
      BY <1>2, DropType
    <2>3. S \in Seq(UnitSet)
      BY <1>2, <1>3, DropType
    <2>4. QED BY <2>1, <2>2, <2>3
  <1>5. X \o S = R
    BY <1>2, <1>3, Slices DEF Drop
  <1> HIDE DEF X, R, S
  <1>6. Text(R) = Text(X) \o Text(S)
    BY <1>4, <1>5, TextConcat
  <1>7. Text(X) \in Seq(GlyphSet) /\ Text(S) \in Seq(GlyphSet)
    BY <1>4, TextType
  <1>8. (p.parsed \o Text(X)) \o Text(S) = p.parsed \o Text(R)
    <2>1. (p.parsed \o Text(X)) \o Text(S) = p.parsed \o (Text(X) \o Text(S))
      BY <1>2, <1>7, GlyphsAssociative, Zenon
    <2>2. QED BY <1>6, <2>1, Zenon
  <1>9. /\ q.screen = p.screen /\ q.title = p.title /\ q.page = p.page /\ q.shown = p.shown
        /\ q.input = p.input /\ q.pos = p.pos + n /\ q.parsed = p.parsed \o Text(X)
    BY <1>1, <1>2 DEF PagerSet, X
  <1>10. Follows(d, k, q)
    <2>1. q.parsed \o Text(Drop(q.input, q.pos)) = p.parsed \o Text(Drop(p.input, p.pos))
      BY <1>8, <1>9 DEF R, S
    <2>2. QED BY <1>9, <2>1 DEF Follows
  <1>11. PagerOK(q)
    BY ParsePageText
  <1>12. QED BY <1>1, <1>9, <1>10, <1>11

\* A full page, or the last of a complete text, is emitted as it should be, and
\* what is kept follows it.
LEMMA EmitRight ==
  ASSUME NEW d \in Docs, NEW k \in 1..Parts(d), NEW e, e.doc = d, MaxOf(d, e.max),
         NEW p, PagerOK(p), Follows(d, k, p), ~AtMaxPages(e, p),
         p.screen = Num(d), p.title = Num(d), p.page >= Fixed[d],
         Len(p.parsed) >= W \/ (p.pos = Len(p.input) /\ k = Parts(d) /\ p.parsed # <<>>)
  PROVE  /\ OnPage(d, Emit(e, p)) /\ Emit(e, p).page >= Num(d)
         /\ Follows(d, k, Emit(e, p))
  <1> DEFINE x    == p.parsed
             rest == Text(Drop(p.input, p.pos))
             n    == p.page
             s    == SubSeq(x, 1, Least(W, Len(x)))
             q    == Emit(e, p)
             r    == [p EXCEPT !.page = p.page + 1]
  <1>1. p \in PagerSet /\ n \in Nat /\ n >= Fixed[d]
    BY DEF PagerOK, PagerSet
  <1>2. /\ s = PageGlyphs(d, n + 1)
        /\ Drop(x, W) \o rest = SubSeq(Stream[d], Before(d, n + 1) + 1, Upto(d, k))
        /\ Len(x) >= W => Before(d, n + 1) <= Upto(d, k)
        /\ Before(d, n) < Len(Stream[d])
    BY NextPageText
  <1>3. k < Parts(d) => Len(x) >= W
    BY DocAssumption DEF Parts
  <1>4. /\ q.page = n + 1 /\ q.screen = Num(d) /\ q.title = Num(d)
        /\ q.shown = Dotted(e, r, s) /\ q.parsed = Drop(x, W)
        /\ q.input = p.input /\ q.pos = p.pos /\ r.page = n + 1
    BY <1>1 DEF Emit, PagerSet
  <1> HIDE DEF q, r, s, x
  <1>8. /\ Fixed[d] \in Nat /\ Num(d) = Fixed[d] + 1 /\ MaxPages \in Nat \ {0}
        /\ n + 1 \in Nat /\ n + 1 >= Num(d)
    BY <1>1, DocAssumption, PageAssumption DEF Num
  <1>9. n + 1 <= PageCount[d]
    <2>1. CASE IsCut(d)
      <3>1. PageCount[d] = Num(d) + MaxPages /\ e.max = MaxPages
        BY <2>1, PageCounted DEF IsCut, MaxOf
      <3>2. ~(n - Num(d) >= MaxPages)
        BY <1>8, <3>1 DEF AtMaxPages
      <3>3. QED BY <1>1, <1>8, <3>1, <3>2
    <2>2. CASE ~IsCut(d)
      <3>1. Len(Stream[d]) <= Before(d, PageCount[d]) /\ PageCount[d] \in Nat
        BY <2>2, PageCounted
      <3>2. W \in Nat /\ Len(Stream[d]) \in Nat
        BY PageAssumption, StreamType
      <3>a. (n - Fixed[d]) * W \in Int /\ (PageCount[d] - Fixed[d]) * W \in Int
        BY <1>1, <1>8, <3>1, <3>2
      <3>b. Before(d, n) \in Int /\ Before(d, PageCount[d]) \in Int
        BY <3>a, Zenon DEF Before
      <3>3. Before(d, n) < Before(d, PageCount[d])
        BY <1>2, <3>1, <3>2, <3>b
      <3>4. n < PageCount[d]
        BY <1>1, <3>1, <3>3, BeforeLess
      <3>5. QED BY <1>1, <3>1, <3>4
    <2>3. QED BY <2>1, <2>2
  <1>10. Dotted(e, r, s) = PageText(d, q.page)
    <2>1. r.page \in Nat /\ r.page >= Num(d) /\ r.page <= PageCount[d]
      BY <1>4, <1>8, <1>9
    <2>2. Dotted(e, r, PageGlyphs(d, r.page)) = PageText(d, r.page)
      BY <2>1, DotsRight
    <2>3. QED BY <1>2, <1>4, <2>2
  <1>14. q.page \in 1..PageCount[d] /\ q.page >= Num(d) /\ Least(q.page, Num(d)) = Num(d)
    <2>1. PageCount[d] \in Nat
      BY PageCounted
    <2>2. q.page \in Nat /\ q.page >= 1 /\ q.page <= PageCount[d]
      BY <1>4, <1>8, <1>9
    <2>3. Least(q.page, Num(d)) = Num(d)
      BY <1>4, <1>8 DEF Least
    <2>4. QED BY <1>4, <1>8, <2>1, <2>2, <2>3
  <1>15. OnPage(d, q)
    BY <1>4, <1>10, <1>14 DEF OnPage
  <1>16. k < Parts(d) => Before(d, q.page) <= Upto(d, k)
    BY <1>2, <1>3, <1>4
  <1>17. q.parsed \o Text(Drop(q.input, q.pos))
            = SubSeq(Stream[d], Before(d, q.page) + 1, Upto(d, k))
    BY <1>2, <1>4
  <1>18. Follows(d, k, q)
    BY <1>16, <1>17 DEF Follows
  <1>19. QED BY <1>14, <1>15, <1>18 DEF q

----------------------------------------------------------------------------
\* What the pager finds.

\* The pager reads the last screen of d: nothing of it is displayed yet, or a page.
InText(d, p) ==
  /\ p.screen = Num(d) /\ p.title = Num(d)
  /\ p.page = Fixed[d] \/ (OnPage(d, p) /\ p.page >= Num(d))

\* The pager is at the maximum of pages, or the text it has follows its page.
Placed(d, k, e, p) == AtMaxPages(e, p) \/ Follows(d, k, p)

\* The same, with nothing left to read.
Waits(d, k, e, p) == AtMaxPages(e, p) \/ (Follows(d, k, p) /\ p.pos = Len(p.input))

\* The screens of d after its part k.
EnvOf(d, k, e) ==
  /\ d \in Docs /\ k \in 1..Parts(d)
  /\ e.doc = d /\ MaxOf(d, e.max) /\ (e.complete <=> k = Parts(d))

\* The units begin the text, and are what has been sent of it with part k.
Starts(d, k, us) ==
  us \in Seq(UnitSet) /\ Text(us) = SubSeq(Stream[d], 1, Upto(d, k))

\* What parse_next_page leaves: a page of the text, or a pager that waits for the
\* next part; for the first page it waits only if the part had less.
Found(d, k, e, q) ==
  /\ PagerOK(q) /\ InText(d, q)
  /\ q.ready => OnPage(d, q) /\ q.page >= Num(d) /\ Placed(d, k, e, q)
  /\ ~q.ready => Waits(d, k, e, q)
  /\ ~q.ready /\ q.page = Fixed[d] => Upto(d, k) < W /\ k # Parts(d)

\* Only the answer is another.
LEMMA SetReady ==
  ASSUME NEW p, PagerOK(p), NEW b \in BOOLEAN, NEW q, q = [p EXCEPT !.ready = b]
  PROVE  /\ PagerOK(q) /\ q.ready = b
         /\ \A d, k, e : /\ InText(d, p) => InText(d, q)
                         /\ OnPage(d, p) => OnPage(d, q)
                         /\ Follows(d, k, p) => Follows(d, k, q)
                         /\ AtMaxPages(e, q) <=> AtMaxPages(e, p)
                         /\ q.page = p.page /\ q.pos = p.pos /\ q.input = p.input
                         /\ q.parsed = p.parsed
  <1>1. p \in PagerSet
    BY DEF PagerOK
  <1>2. /\ q.screen = p.screen /\ q.title = p.title /\ q.page = p.page /\ q.input = p.input
        /\ q.pos = p.pos /\ q.parsed = p.parsed /\ q.shown = p.shown /\ q.ready = b
    BY <1>1 DEF PagerSet
  <1>3. PagerOK(q)
    BY ReadyType
  <1>4. ASSUME NEW d, NEW k, NEW e
        PROVE  /\ InText(d, p) => InText(d, q)
               /\ OnPage(d, p) => OnPage(d, q)
               /\ Follows(d, k, p) => Follows(d, k, q)
               /\ AtMaxPages(e, q) <=> AtMaxPages(e, p)
    BY <1>2, Zenon DEF InText, OnPage, Follows, AtMaxPages
  <1>5. QED BY <1>2, <1>3, <1>4

\* Before the first page of the text there is no maximum.
LEMMA NotAtMax ==
  ASSUME NEW d, NEW k, NEW e, EnvOf(d, k, e), NEW p, p.page \in Int, p.page < Num(d)
  PROVE  ~AtMaxPages(e, p)
  <1>1. e.doc = d /\ e.max \in Nat /\ Num(d) \in Nat
    <2>1. d \in Docs /\ e.doc = d /\ e.max \in {0, MaxPages}
      BY DEF EnvOf, MaxOf
    <2>2. QED BY <2>1, PageAssumption, DocAssumption DEF Num
  <1>2. QED BY <1>1 DEF AtMaxPages

\* What is parsed when everything has been read of the text.
LEMMA FirstPageWaits ==
  ASSUME NEW d \in Docs, NEW k \in 1..Parts(d), NEW p, PagerOK(p), Follows(d, k, p),
         p.pos = Len(p.input), p.page = Fixed[d]
  PROVE  /\ p.parsed = SubSeq(Stream[d], 1, Upto(d, k))
         /\ Len(p.parsed) = Upto(d, k)
         /\ k = Parts(d) => p.parsed # <<>>
  <1>1. Fixed[d] \in Nat /\ Fixed[d] >= Fixed[d]
    BY DocAssumption
  <1>2. Before(d, p.page) + 1 = 1
    BY <1>1, BeforeNext
  <1>3. p.parsed = SubSeq(Stream[d], 1, Upto(d, k))
    BY <1>2, AllRead DEF Follows
  <1>4. /\ Upto(d, k) \in Nat /\ Upto(d, k) <= Len(Stream[d])
        /\ Upto(d, Parts(d)) = Len(Stream[d])
        /\ Stream[d] \in Seq(GlyphSet) /\ Len(Stream[d]) \in Nat /\ Stream[d] # <<>>
    BY UptoOrder, StreamType, OrdinaryAssumption DEF HasText
  <1>5. Len(SubSeq(Stream[d], 1, Upto(d, k))) = Upto(d, k)
    BY <1>4
  <1>6. k = Parts(d) => Len(p.parsed) = Len(Stream[d]) /\ Len(Stream[d]) # 0
    BY <1>3, <1>4, <1>5
  <1>7. Len(<<>>) = 0
    OBVIOUS
  <1>8. QED BY <1>3, <1>5, <1>6, <1>7

\* parse_next_page finds the next page of the text, stays at its end, or waits for
\* the next part where it is.
LEMMA NextPageRight ==
  ASSUME NEW d, NEW k, NEW e, EnvOf(d, k, e), NEW p, PagerOK(p), InText(d, p), Placed(d, k, e, p),
         ~(AtMaxPages(e, p) /\ e.complete), NEW q \in parse_next_page(e, p)
  PROVE  Found(d, k, e, q) /\ (~q.ready => q.page = p.page)
  <1>1. /\ d \in Docs /\ k \in 1..Parts(d) /\ e.doc = d /\ MaxOf(d, e.max)
        /\ (e.complete <=> k = Parts(d))
    BY DEF EnvOf
  <1>2. /\ Fixed[d] \in Nat /\ Num(d) = Fixed[d] + 1 /\ W \in Nat /\ W > 0
    BY <1>1, DocAssumption, PageAssumption DEF Num
  <1>3. PagerOK(q)
    BY NextPageType
  <1>4. CASE AtMaxPages(e, p) /\ ~e.complete
    <2>1. q = [p EXCEPT !.ready = FALSE]
      BY <1>4 DEF parse_next_page
    <2>2. ~q.ready /\ InText(d, q) /\ AtMaxPages(e, q) /\ q.page = p.page
      BY <1>4, <2>1, SetReady
    <2>3. q.page # Fixed[d]
      BY <1>1, <1>2, <1>4, <2>2, NotAtMax
    <2>4. QED BY <1>3, <2>2, <2>3 DEF Waits, Found
  <1>5. CASE ~AtMaxPages(e, p)
    <2>1. PICK r \in IF Len(p.parsed) < W THEN parse_page_text(p) ELSE {p} : q = NextPage(e, r)
      BY <1>5 DEF parse_next_page
    <2>2. Follows(d, k, p)
      BY <1>5 DEF Placed
    <2>3. /\ PagerOK(r) /\ Follows(d, k, r)
          /\ r.screen = p.screen /\ r.title = p.title /\ r.page = p.page /\ r.shown = p.shown
          /\ Len(r.parsed) >= W \/ r.pos = Len(r.input)
      <3>1. CASE Len(p.parsed) < W
        BY <1>1, <2>1, <2>2, <3>1, ParseFollows
      <3>2. CASE ~(Len(p.parsed) < W)
        <4>1. r = p /\ Len(p.parsed) \in Nat
          BY <2>1, <3>2 DEF PagerOK, PagerSet
        <4>2. Len(r.parsed) >= W
          BY <1>2, <3>2, <4>1
        <4>3. QED BY <2>2, <4>1, <4>2
      <3>3. QED BY <3>1, <3>2
    <2>4. InText(d, r) /\ ~AtMaxPages(e, r) /\ r.screen = Num(d) /\ r.title = Num(d)
      BY <1>5, <2>3, Zenon DEF InText, OnPage, AtMaxPages
    <2>5. r.page >= Fixed[d]
      <3>1. r.page \in Nat
        BY <2>3 DEF PagerOK, PagerSet
      <3>2. QED BY <1>2, <2>4, <3>1 DEF InText
    <2>6. Len(r.parsed) \in Nat /\ r.pos \in Nat /\ Len(r.input) \in Nat
      BY <2>3 DEF PagerOK, PagerSet
    <2>7. CASE NeedsInput(e, r)
      <3>1. q = [r EXCEPT !.ready = FALSE] /\ ~e.complete /\ Len(r.parsed) < W
        BY <2>1, <2>7 DEF NextPage, NeedsInput
      <3>2. r.pos = Len(r.input)
        BY <1>2, <2>3, <2>6, <3>1
      <3>3. ~q.ready /\ InText(d, q) /\ Follows(d, k, q) /\ q.pos = Len(q.input) /\ q.page = r.page
        BY <2>3, <2>4, <3>1, <3>2, SetReady
      <3>4. ASSUME q.page = Fixed[d] PROVE Upto(d, k) < W
        BY <1>1, <2>3, <3>1, <3>2, <3>3, <3>4, FirstPageWaits
      <3>5. QED BY <1>1, <1>3, <2>3, <3>1, <3>3, <3>4 DEF Waits, Found
    <2>8. CASE ~NeedsInput(e, r) /\ r.parsed = <<>>
      <3>1. q = [r EXCEPT !.ready = TRUE]
        BY <2>1, <2>8 DEF NextPage
      <3>2. Len(r.parsed) = 0
        BY <2>8
      <3>3. r.pos = Len(r.input) /\ e.complete
        BY <1>2, <2>3, <2>4, <2>6, <2>8, <3>2, <1>1 DEF NeedsInput
      <3>4. r.page # Fixed[d]
        BY <1>1, <2>3, <2>8, <3>3, FirstPageWaits
      <3>5. OnPage(d, r) /\ r.page >= Num(d)
        BY <2>4, <3>4 DEF InText
      <3>6. q.ready /\ InText(d, q) /\ OnPage(d, q) /\ q.page >= Num(d) /\ Follows(d, k, q)
        BY <2>3, <2>4, <3>1, <3>5, SetReady
      <3>7. QED BY <1>3, <3>6 DEF Placed, Found
    <2>9. CASE ~NeedsInput(e, r) /\ r.parsed # <<>>
      <3> DEFINE t == Emit(e, r)
      <3>1. q = [t EXCEPT !.ready = TRUE]
        BY <2>1, <2>9 DEF NextPage
      <3>2. Len(r.parsed) >= W \/ (r.pos = Len(r.input) /\ k = Parts(d) /\ r.parsed # <<>>)
        <4>1. ASSUME ~(Len(r.parsed) >= W) PROVE r.pos = Len(r.input) /\ e.complete
          BY <1>1, <1>2, <2>3, <2>4, <2>6, <2>9, <4>1 DEF NeedsInput
        <4>2. QED BY <1>1, <2>9, <4>1
      <3>3. OnPage(d, t) /\ t.page >= Num(d) /\ Follows(d, k, t)
        BY <1>1, <2>3, <2>4, <2>5, <3>2, EmitRight
      <3>4. PagerOK(t)
        BY <2>3, EmitType
      <3> HIDE DEF t
      <3>5. InText(d, t)
        <4>1. t.page \in Nat
          BY <3>4 DEF PagerOK, PagerSet
        <4>2. t.screen = Num(d) /\ t.title = Num(d)
          BY <1>2, <3>3, <4>1 DEF OnPage, Least
        <4>3. QED BY <3>3, <4>2 DEF InText
      <3>6. q.ready /\ InText(d, q) /\ OnPage(d, q) /\ q.page >= Num(d) /\ Follows(d, k, q)
        BY <3>1, <3>3, <3>4, <3>5, SetReady
      <3>7. QED BY <1>3, <3>6 DEF Placed, Found
    <2>10. QED BY <2>7, <2>8, <2>9
  <1>6. QED BY <1>4, <1>5

\* All of a sequence of one.
LEMMA OneOnly ==
  ASSUME NEW v
  PROVE  SubSeq(<<v>>, 1, 1) = <<v>>
  <1>1. <<v>> \in Seq({v}) /\ Len(<<v>>) = 1
    OBVIOUS
  <1>2. PICK s \in Seq({v}) : s = <<v>> /\ Len(s) = 1
    BY <1>1
  <1>3. SubSeq(s, 1, Len(s)) = s
    OBVIOUS
  <1>4. QED BY <1>2, <1>3

\* The last screen is read from the beginning of its text.
LEMMA LastScreenRight ==
  ASSUME NEW d, NEW k, NEW e, EnvOf(d, k, e), NEW p, PagerOK(p), Starts(d, k, e.text),
         NEW q \in prepare_screen(e, Num(d), p)
  PROVE  Found(d, k, e, q) /\ (~q.ready => q.page = Fixed[d])
  <1> DEFINE a == AtScreen(e, Num(d), p)
  <1>1. d \in Docs /\ k \in 1..Parts(d) /\ e.doc = d
    BY DEF EnvOf
  <1>2. Fixed[d] \in Nat /\ Num(d) = Fixed[d] + 1 /\ Num(d) \in Nat /\ Num(d) >= 1 /\ Num(d) - 1 = Fixed[d]
    <2>1. Fixed[d] \in Nat
      BY <1>1, DocAssumption
    <2>2. QED BY <2>1 DEF Num
  <1>3. q \in parse_next_page(e, a)
    BY DEF prepare_screen, AtScreen
  <1>4. e.text \in Seq(UnitSet) /\ Text(e.text) = SubSeq(Stream[d], 1, Upto(d, k))
    BY DEF Starts
  <1>5. PagerOK(a)
    BY <1>1, <1>2, <1>4, AtScreenType
  <1>6. /\ a.screen = Num(d) /\ a.title = Num(d) /\ a.page = Fixed[d] /\ a.input = e.text
        /\ a.pos = 0 /\ a.parsed = <<>>
    BY <1>1, <1>2 DEF AtScreen, ScreenText, PagerOK, PagerSet
  <1> HIDE DEF a
  <1>7. InText(d, a)
    BY <1>6 DEF InText
  <1>8. ~AtMaxPages(e, a)
    BY <1>2, <1>6, NotAtMax
  <1>9. Follows(d, k, a)
    <2>1. Drop(e.text, 0) = e.text
      BY <1>4 DEF Drop
    <2>2. Text(e.text) \in Seq(GlyphSet)
      BY <1>4, TextType
    <2>3. <<>> \o Text(e.text) = Text(e.text)
      BY <2>2, ConcatEmptySeq
    <2>4. Before(d, a.page) + 1 = 1 /\ Before(d, a.page) = 0
      BY <1>1, <1>2, <1>6, BeforeNext
    <2>5. Upto(d, k) \in Nat
      BY <1>1, UptoOrder
    <2>6. Before(d, a.page) <= Upto(d, k)
      BY <2>4, <2>5
    <2>7. a.parsed \o Text(Drop(a.input, a.pos)) = SubSeq(Stream[d], Before(d, a.page) + 1, Upto(d, k))
      BY <1>4, <1>6, <2>1, <2>3, <2>4
    <2>8. QED BY <2>6, <2>7 DEF Follows
  <1>10. QED BY <1>3, <1>5, <1>6, <1>7, <1>8, <1>9, NextPageRight DEF Placed

\* A screen of one page is there at once.
LEMMA FixedPageRight ==
  ASSUME NEW d, NEW k, NEW e, EnvOf(d, k, e), e.text \in Seq(UnitSet), NEW p, PagerOK(p),
         NEW n \in 1..Fixed[d], NEW q \in prepare_screen(e, n, p)
  PROVE  PagerOK(q) /\ q.ready /\ OnPage(d, q) /\ q.page = n
  <1> DEFINE a == AtScreen(e, n, p)
             u == <<d, n, 1>>
  <1>1. d \in Docs /\ k \in 1..Parts(d) /\ e.doc = d
    BY DEF EnvOf
  <1>2. /\ Fixed[d] \in Nat /\ Num(d) = Fixed[d] + 1 /\ Num(d) \in Nat /\ n \in Nat /\ n >= 1
        /\ n < Num(d) /\ W \in Nat /\ W > 0
    BY <1>1, DocAssumption, PageAssumption DEF Num
  <1>3. q \in parse_next_page(e, a)
    BY DEF prepare_screen, AtScreen
  <1>5. PagerOK(a)
    BY <1>1, <1>2, AtScreenType
  <1>6. /\ a.screen = n /\ a.title = n /\ a.page = n - 1 /\ a.input = <<u>>
        /\ a.pos = 0 /\ a.parsed = <<>>
    <2>1. p \in PagerSet
      BY DEF PagerOK
    <2>2. ScreenText(e, n) = <<u>>
      BY <1>1, <1>2 DEF ScreenText
    <2>3. QED BY <2>1, <2>2 DEF AtScreen, PagerSet
  <1> HIDE DEF a
  <1>7. ~AtMaxPages(e, a)
    BY <1>2, <1>6, NotAtMax
  <1>8. Len(a.parsed) = 0 /\ Len(a.input) = 1
    BY <1>6
  <1>9. PICK r \in parse_page_text(a) : q = NextPage(e, r)
    BY <1>2, <1>3, <1>7, <1>8 DEF parse_next_page
  <1>10. PICK m \in 0..(Len(a.input) - a.pos) :
           /\ r = [a EXCEPT !.parsed = a.parsed \o Text(SubSeq(a.input, a.pos + 1, a.pos + m)),
                            !.pos = a.pos + m]
           /\ Len(r.parsed) >= W \/ r.pos = Len(r.input)
    BY <1>5, <1>9, ParsePageText
  <1>11. PagerOK(r)
    BY <1>5, <1>9, ParsePageText
  <1>12. Displayed(u) = [j \in 1..1 |-> <<u, j>>]
    BY <1>2 DEF Displayed
  <1>13. Displayed(u) = << <<u, 1>> >>
    BY <1>12
  <1>14. /\ r.screen = n /\ r.title = n /\ r.page = n - 1 /\ r.input = <<u>>
         /\ r.pos = m /\ m \in 0..1
         /\ r.parsed = <<>> \o Text(SubSeq(<<u>>, 1, m))
    <2>1. a \in PagerSet /\ a.pos + 1 = 1 /\ a.pos + m = m /\ m \in 0..1
      BY <1>5, <1>6, <1>8 DEF PagerOK
    <2>2. QED BY <1>6, <1>10, <2>1 DEF PagerSet
  <1>15. m = 1
    <2>1. ASSUME m = 0 PROVE FALSE
      <3>1. SubSeq(<<u>>, 1, 0) = <<>> /\ <<>> \o <<>> = <<>> /\ Len(<<>>) = 0
        OBVIOUS
      <3>2. Len(r.parsed) = 0
        BY <1>14, <2>1, <3>1, TextEmpty
      <3>3. r.pos = 0 /\ Len(r.input) = 1
        BY <1>6, <1>8, <1>14, <2>1
      <3>4. Len(r.parsed) >= W \/ r.pos = Len(r.input)
        BY <1>10
      <3>5. QED BY <1>2, <3>2, <3>3, <3>4
    <2>2. QED BY <1>14, <2>1
  <1>16. r.parsed = Displayed(u)
    <2>1. SubSeq(<<u>>, 1, 1) = <<u>>
      BY OneOnly
    <2>2. Text(<<u>>) = << <<u, 1>> >>
      BY <1>13, TextOne
    <2>3. <<>> \o << <<u, 1>> >> = << <<u, 1>> >>
      OBVIOUS
    <2>4. QED BY <1>13, <1>14, <1>15, <2>1, <2>2, <2>3
  <1> HIDE DEF u
  <1>17. Len(r.parsed) = 1 /\ r.parsed # <<>> /\ SubSeq(r.parsed, 1, 1) = r.parsed
    <2>1. SubSeq(<< <<u, 1>> >>, 1, 1) = << <<u, 1>> >>
      BY OneOnly
    <2>2. QED BY <1>13, <1>16, <2>1
  <1>18. ~NeedsInput(e, r)
    BY <1>1, <1>2, <1>14 DEF NeedsInput
  <1>19. q = [Emit(e, r) EXCEPT !.ready = TRUE]
    BY <1>9, <1>17, <1>18 DEF NextPage
  <1> DEFINE t == [r EXCEPT !.page = r.page + 1]
  <1>20. r \in PagerSet /\ r.page + 1 = n
    BY <1>2, <1>11, <1>14 DEF PagerOK
  <1>21. t.page = n /\ ~AtMaxPages(e, t)
    <2>1. t.page = n
      BY <1>20 DEF PagerSet
    <2> HIDE DEF t
    <2>2. t.page \in Int /\ t.page < Num(d)
      BY <1>2, <2>1
    <2>3. QED BY <2>1, <2>2, NotAtMax
  <1>22. Least(W, Len(r.parsed)) = 1
    BY <1>2, <1>17 DEF Least
  <1>23. Dotted(e, t, SubSeq(r.parsed, 1, Least(W, Len(r.parsed)))) = Displayed(u)
    BY <1>16, <1>17, <1>21, <1>22 DEF Dotted
  <1>24. /\ q.screen = n /\ q.title = n /\ q.page = n /\ q.ready
         /\ q.shown = Dotted(e, t, SubSeq(r.parsed, 1, Least(W, Len(r.parsed))))
    BY <1>14, <1>19, <1>20 DEF Emit, PagerSet
  <1>25. PagerOK(q)
    BY <1>11, <1>19, EmitType, ReadyType
  <1>26. PageText(d, n) = Displayed(u)
    BY <1>2 DEF PageText, u
  <1>27. n \in 1..PageCount[d] /\ Least(n, Num(d)) = n
    BY <1>1, <1>2, PageCounted DEF Least
  <1> HIDE DEF t
  <1>28. OnPage(d, q)
    BY <1>23, <1>24, <1>26, <1>27 DEF OnPage
  <1>29. QED BY <1>24, <1>25, <1>28

----------------------------------------------------------------------------
\* What display_proper_page shows.

\* The units begin the text and fill its first page, if there is more to come.
Begins(d, k, us) ==
  /\ Starts(d, k, us)
  /\ Kind[d] # "transfer" => k = Parts(d) \/ W <= Upto(d, k)

\* The step, the state of the flow and the callback belong together.
FlowInv ==
  /\ step \in {"menu", "review", "approve", "reject", "back"} => current_state = "static"
  /\ step = "generic" => current_state = "dynamic"
  /\ step \in {"anterior", "posterior"} =>
       /\ display_page_callback # "none"
       /\ step = Delimiter(display_page_callback)
       /\ (current_state = "static" <=> display_page_callback \in {"first", "last"})
  /\ step \notin {"anterior", "posterior"} => display_page_callback = "none"
  /\ busy => step \in {"anterior", "posterior"}

\* Without a part that is asked for or a page that is looked for, the flow is at a
\* step that the user sees.
Seen == asked = "none" /\ ~busy => step \in {"review", "generic", "approve", "reject", "back"}

\* What the pager finds where a page is looked for.
Sought(d, k, e, p, want) ==
  IF want \in 1..Num(d) THEN Begins(d, k, e.text)
  ELSE /\ p.page >= Num(d) => OnPage(d, p) /\ Placed(d, k, e, p)
       /\ p.page < Num(d) /\ p.screen < Num(d) => Begins(d, k, e.text)
       /\ p.page < Num(d) /\ p.screen >= Num(d) => InText(d, p) /\ Placed(d, k, e, p)

\* What is shown, looked for or asked for then.
Generic(d, k, e, p, want) ==
  /\ OnPage(d, p)
  /\ p.page < Num(d) => want \in 1..Fixed[d]
  /\ p.page >= Num(d) => Placed(d, k, e, p)

Searches(d, k, e, p, want) ==
  OnPage(d, p) /\ p.page >= Num(d) /\ Placed(d, k, e, p) /\ want \notin 1..Num(d)

AsksNext(d, k, e, p, want) ==
  /\ InText(d, p) /\ Waits(d, k, e, p)
  /\ want \in 1..Num(d) => want = Num(d) /\ Kind[d] = "transfer"

Shown(d, k, e, want) ==
  /\ FlowInv' /\ Seen'
  /\ step' = "generic" => Generic(d, k, e, pager', want)
  /\ busy' => Searches(d, k, e, pager', want) /\ page_to_display' = want
  /\ asked' = "next" => AsksNext(d, k, e, pager', want) /\ page_to_display' = want

\* The flow around a page that is shown, or not.
LEMMA ShowFlow ==
  ASSUME NEW cb \in Callbacks, cb # "none", NEW b \in BOOLEAN, NEW e, Show(cb, b, e),
         current_state \in {"static", "dynamic"},
         current_state = "static" <=> cb \in {"first", "last"}
  PROVE  /\ FlowInv' /\ Seen' /\ ~busy' /\ asked' = "none"
         /\ b => step' = "generic"
         /\ ~b => step' # "generic"
  <1>1. /\ display_page_callback' = "none" /\ busy' = FALSE /\ asked' = "none"
        /\ step' = IF b THEN "generic"
                   ELSE IF Delimiter(cb) = "anterior" THEN "review" ELSE AfterPages(e.doc)
        /\ current_state' =
             IF cb \in {"first", "last"}
             THEN IF b THEN "dynamic" ELSE current_state
             ELSE IF b THEN current_state ELSE "static"
    BY DEF Show, Callback, NoReply
  <1>2. AfterPages(e.doc) \in {"approve", "back"}
    BY DEF AfterPages
  <1>3. IF b THEN step' = "generic" ELSE step' \in {"review", "approve", "back"}
    BY <1>1, <1>2
  <1>4. IF b THEN current_state' = "dynamic" ELSE current_state' = "static"
    BY <1>1
  <1>5. QED BY <1>1, <1>3, <1>4 DEF FlowInv, Seen

\* The flow around a page that is awaited.
LEMMA AwaitFlow ==
  ASSUME NEW cb \in Callbacks, cb # "none", NEW want, Await(cb, want),
         current_state = "static" <=> cb \in {"first", "last"}
  PROVE  FlowInv' /\ step' \in {"anterior", "posterior"} /\ page_to_display' = want
  BY DEF Await, FlowInv, Delimiter

LEMMA ProperPageRight ==
  ASSUME NEW d, NEW k, NEW e, EnvOf(d, k, e), e.text \in Seq(UnitSet), NEW p, PagerOK(p),
         NEW cb \in Callbacks, NEW want \in Nat \cup {LastPage},
         current_state \in {"static", "dynamic"},
         cb # "none" => /\ Sought(d, k, e, p, want)
                        /\ (current_state = "static" <=> cb \in {"first", "last"}),
         display_proper_page(e, p, cb, want)
  PROVE  Shown(d, k, e, want)
  <1>1. d \in Docs /\ k \in 1..Parts(d) /\ e.doc = d
    BY DEF EnvOf
  <1>2. Fixed[d] \in Nat /\ Num(d) = Fixed[d] + 1 /\ Num(d) \in Nat
    <2>1. Fixed[d] \in Nat
      BY <1>1, DocAssumption
    <2>2. QED BY <2>1 DEF Num
  <1>3. CASE cb = "none"
    <2>1. /\ step' = "review" /\ current_state' = "static" /\ display_page_callback' = "none"
          /\ busy' = FALSE /\ asked' = "none"
      BY <1>3 DEF display_proper_page, start_display, NoReply
    <2>2. QED BY <2>1 DEF Shown, FlowInv, Seen
  <1>4. CASE cb # "none" /\ want \in 1..Num(d)
    <2>1. PICK q \in prepare_screen(e, want, p) :
               /\ pager' = q
               /\ \/ q.ready /\ Show(cb, TRUE, e)
                  \/ ~q.ready /\ Requested("next", cb, want, e)
      BY <1>1, <1>4 DEF display_proper_page
    <2>2. Begins(d, k, e.text) /\ (current_state = "static" <=> cb \in {"first", "last"})
      BY <1>4 DEF Sought
    <2>3. CASE q.ready /\ Show(cb, TRUE, e)
      <3>1. FlowInv' /\ Seen' /\ ~busy' /\ asked' = "none"
        BY <1>4, <2>2, <2>3, ShowFlow
      <3>2. Generic(d, k, e, q, want)
        <4>1. CASE want \in 1..Fixed[d]
          <5>1. OnPage(d, q) /\ q.page = want
            BY <2>1, <4>1, FixedPageRight
          <5>2. ~(q.page >= Num(d))
            BY <1>2, <4>1, <5>1
          <5>3. QED BY <4>1, <5>1, <5>2 DEF Generic
        <4>2. CASE want = Num(d)
          <5>1. OnPage(d, q) /\ q.page >= Num(d) /\ Placed(d, k, e, q)
            BY <2>1, <2>2, <2>3, <4>2, LastScreenRight DEF Begins, Found
          <5>2. q.page \in Nat
            BY <1>1, <5>1, PageCounted DEF OnPage
          <5>3. ~(q.page < Num(d))
            BY <1>2, <5>1, <5>2
          <5>4. QED BY <5>1, <5>3 DEF Generic
        <4>3. want \in 1..Fixed[d] \/ want = Num(d)
          BY <1>2, <1>4
        <4>4. QED BY <4>1, <4>2, <4>3
      <3>3. QED BY <2>1, <3>1, <3>2 DEF Shown
    <2>4. CASE ~q.ready /\ Requested("next", cb, want, e)
      <3>1. /\ FlowInv' /\ step' \in {"anterior", "posterior"} /\ page_to_display' = want
            /\ asked' = "next" /\ busy' = FALSE
        BY <1>4, <2>2, <2>4, AwaitFlow DEF Requested, Reply
      <3>2. want \notin 1..Fixed[d]
        BY <2>1, <2>4, FixedPageRight
      <3>3. want = Num(d)
        BY <1>2, <1>4, <3>2
      <3>4. Found(d, k, e, q) /\ q.page = Fixed[d]
        BY <2>1, <2>2, <2>4, <3>3, LastScreenRight DEF Begins
      <3>5. InText(d, q) /\ Waits(d, k, e, q) /\ Upto(d, k) < W /\ k # Parts(d)
        BY <2>4, <3>4 DEF Found
      <3>6. Kind[d] = "transfer"
        <4>1. Upto(d, k) \in Nat /\ W \in Nat
          BY <1>1, UptoOrder, PageAssumption
        <4>2. ~(W <= Upto(d, k))
          BY <3>5, <4>1
        <4>3. QED BY <2>2, <3>5, <4>2 DEF Begins
      <3>7. AsksNext(d, k, e, q, want)
        BY <3>3, <3>5, <3>6 DEF AsksNext
      <3>8. QED BY <2>1, <3>1, <3>7 DEF Shown, Seen
    <2>5. QED BY <2>1, <2>3, <2>4
  <1>5. CASE cb # "none" /\ want \notin 1..Num(d)
    <2>1. PICK q \in IF p.page >= Num(d) THEN {[p EXCEPT !.ready = TRUE]}
                     ELSE IF p.screen < Num(d) THEN prepare_screen(e, Num(d), p)
                     ELSE parse_next_page(e, p) :
               /\ pager' = q
               /\ \/ q.ready /\ Await(cb, want) /\ busy' = TRUE /\ NoReply(e)
                  \/ ~q.ready /\ Requested("next", cb, want, e)
      BY <1>1, <1>5 DEF display_proper_page
    <2>2. /\ p.page >= Num(d) => OnPage(d, p) /\ Placed(d, k, e, p)
          /\ p.page < Num(d) /\ p.screen < Num(d) => Begins(d, k, e.text)
          /\ p.page < Num(d) /\ p.screen >= Num(d) => InText(d, p) /\ Placed(d, k, e, p)
          /\ (current_state = "static" <=> cb \in {"first", "last"})
      BY <1>5 DEF Sought
    <2>3. p.page \in Nat /\ p.screen \in Nat
      BY DEF PagerOK, PagerSet
    <2>4. /\ q.ready => OnPage(d, q) /\ q.page >= Num(d) /\ Placed(d, k, e, q)
          /\ ~q.ready => InText(d, q) /\ Waits(d, k, e, q)
      <3>1. CASE p.page >= Num(d)
        <4>1. q = [p EXCEPT !.ready = TRUE]
          BY <2>1, <3>1
        <4>2. OnPage(d, q) /\ q.page >= Num(d) /\ Placed(d, k, e, q) /\ q.ready
          BY <2>2, <3>1, <4>1, SetReady DEF Placed
        <4>3. QED BY <4>2
      <3>2. CASE p.page < Num(d) /\ p.screen < Num(d)
        <4>1. q \in prepare_screen(e, Num(d), p)
          <5>1. ~(p.page >= Num(d))
            BY <1>2, <2>3, <3>2
          <5>2. QED BY <2>1, <3>2, <5>1
        <4>2. Found(d, k, e, q)
          BY <2>2, <3>2, <4>1, LastScreenRight DEF Begins
        <4>3. QED BY <4>2 DEF Found
      <3>3. CASE p.page < Num(d) /\ p.screen >= Num(d)
        <4>1. q \in parse_next_page(e, p)
          <5>1. ~(p.page >= Num(d)) /\ ~(p.screen < Num(d))
            BY <1>2, <2>3, <3>3
          <5>2. QED BY <2>1, <5>1
        <4>2. ~AtMaxPages(e, p)
          <5>1. p.page \in Int
            BY <2>3
          <5>2. QED BY <3>3, <5>1, NotAtMax
        <4>3. Found(d, k, e, q)
          BY <2>2, <3>3, <4>1, <4>2, NextPageRight
        <4>4. QED BY <4>3 DEF Found
      <3>4. QED BY <1>2, <2>3, <3>1, <3>2, <3>3
    <2>5. CASE q.ready /\ Await(cb, want) /\ busy' = TRUE /\ NoReply(e)
      <3>1. /\ FlowInv' /\ step' \in {"anterior", "posterior"} /\ page_to_display' = want
            /\ busy' /\ asked' = "none"
        BY <1>5, <2>2, <2>5, AwaitFlow DEF NoReply
      <3>2. Searches(d, k, e, q, want)
        BY <1>5, <2>4, <2>5 DEF Searches
      <3>3. QED BY <2>1, <3>1, <3>2 DEF Shown, Seen
    <2>6. CASE ~q.ready /\ Requested("next", cb, want, e)
      <3>1. /\ FlowInv' /\ step' \in {"anterior", "posterior"} /\ page_to_display' = want
            /\ asked' = "next" /\ busy' = FALSE
        BY <1>5, <2>2, <2>6, AwaitFlow DEF Requested, Reply
      <3>2. AsksNext(d, k, e, q, want)
        BY <1>5, <2>4, <2>6 DEF AsksNext
      <3>3. QED BY <2>1, <3>1, <3>2 DEF Shown, Seen
    <2>7. QED BY <2>1, <2>5, <2>6
  <1>6. QED BY <1>3, <1>4, <1>5

----------------------------------------------------------------------------
\* The invariant.

\* The screens are those of the document under review.
Live == doc # NoDoc /\ (asked = "none" \/ Kind[doc] # "deploy")

\* The transaction is complete with its last part.
PartInv == doc # NoDoc => part \in 1..Parts(doc) /\ (txn_is_complete <=> part = Parts(doc))

\* Where the last screen is read from its beginning, that is the beginning.
BaseInv == Live /\ (is_first_part \/ Kind[doc] # "payload") => Begins(doc, part, text)

MaxInv ==
  /\ max_pages # 0 => \E l \in Docs : Long[l]
  /\ Live => MaxOf(doc, max_pages)

SeenInv == doc # NoDoc => Seen

\* A page is shown: it is the page of its number; the screens before it can be had
\* again, or the text after it is at hand.
GenInv ==
  step = "generic" =>
    /\ OnPage(doc, pager)
    /\ pager.page < Num(doc) => is_first_part
    /\ pager.page >= Num(doc) => Placed(doc, part, Env, pager)

BusyInv == busy => Searches(doc, part, Env, pager, page_to_display)

WaitInv ==
  asked = "next" /\ Kind[doc] # "deploy" => AsksNext(doc, part, Env, pager, page_to_display)

PageInv ==
  PartInv /\ BaseInv /\ MaxInv /\ FlowInv /\ SeenInv /\ GenInv /\ BusyInv /\ WaitInv

\* What is said of the pager depends on the screens through document and maximum.
LEMMA SameScreens ==
  ASSUME NEW e, NEW f, e.doc = f.doc, e.max = f.max, NEW d, NEW k, NEW p, NEW want
  PROVE  /\ Placed(d, k, e, p) <=> Placed(d, k, f, p)
         /\ Waits(d, k, e, p) <=> Waits(d, k, f, p)
         /\ Searches(d, k, e, p, want) <=> Searches(d, k, f, p, want)
         /\ AsksNext(d, k, e, p, want) <=> AsksNext(d, k, f, p, want)
  <1>1. AtMaxPages(e, p) <=> AtMaxPages(f, p)
    BY DEF AtMaxPages
  <1>2. Placed(d, k, e, p) <=> Placed(d, k, f, p)
    BY <1>1 DEF Placed
  <1>3. Waits(d, k, e, p) <=> Waits(d, k, f, p)
    BY <1>1 DEF Waits
  <1>4. QED BY <1>2, <1>3 DEF Searches, AsksNext

\* What display_proper_page shows keeps the invariant.
LEMMA ShownKeeps ==
  ASSUME NEW d, NEW k, NEW e, NEW want, Shown(d, k, e, want), EnvOf(d, k, e),
         doc' = d, part' = k, screens' = d, text' = e.text, max_pages' = e.max,
         txn_is_complete' = e.complete,
         is_first_part' \/ Kind[d] # "payload" => Begins(d, k, e.text),
         want \in 1..Fixed[d] => is_first_part'
  PROVE  PageInv'
  <1>1. /\ d \in Docs /\ k \in 1..Parts(d) /\ e.doc = d /\ MaxOf(d, e.max)
        /\ (e.complete <=> k = Parts(d))
    BY DEF EnvOf
  <1>2. Env'.doc = e.doc /\ Env'.max = e.max
    BY <1>1 DEF Env
  <1>3. PartInv' /\ BaseInv'
    BY <1>1 DEF PartInv, BaseInv
  <1>4. MaxInv'
    BY <1>1 DEF MaxInv, MaxOf
  <1>5. FlowInv' /\ SeenInv'
    BY DEF Shown, SeenInv
  <1>6. GenInv'
    <2>1. SUFFICES ASSUME step' = "generic"
                   PROVE  /\ OnPage(d, pager')
                          /\ pager'.page < Num(d) => is_first_part'
                          /\ pager'.page >= Num(d) => Placed(d, k, Env', pager')
      BY DEF GenInv
    <2>2. Generic(d, k, e, pager', want)
      BY <2>1 DEF Shown
    <2>3. Placed(d, k, e, pager') => Placed(d, k, Env', pager')
      BY <1>2, SameScreens
    <2>4. QED BY <2>2, <2>3 DEF Generic
  <1>7. BusyInv'
    <2>1. SUFFICES ASSUME busy'
                   PROVE  Searches(d, k, Env', pager', page_to_display')
      BY DEF BusyInv
    <2>2. Searches(d, k, e, pager', page_to_display')
      BY <2>1 DEF Shown
    <2>3. QED BY <1>2, <2>2, SameScreens
  <1>8. WaitInv'
    <2>1. SUFFICES ASSUME asked' = "next"
                   PROVE  AsksNext(d, k, Env', pager', page_to_display')
      BY DEF WaitInv
    <2>2. AsksNext(d, k, e, pager', page_to_display')
      BY <2>1 DEF Shown
    <2>3. QED BY <1>2, <2>2, SameScreens
  <1>9. QED BY <1>3, <1>4, <1>5, <1>6, <1>7, <1>8 DEF PageInv

Inv == RInv /\ TypeInv /\ PageInv

----------------------------------------------------------------------------
\* The buttons and the search for a page.

\* The screens as a press finds them.
LEMMA NowEnv ==
  ASSUME Inv, doc # NoDoc, asked = "none"
  PROVE  /\ EnvOf(doc, part, Env) /\ Live
         /\ Env.doc = doc /\ Env.text = text /\ Env.max = max_pages
         /\ Env.complete = txn_is_complete /\ screens = doc
         /\ text \in Seq(UnitSet)
  <1>1. doc \in Docs /\ screens = doc /\ text \in Seq(UnitSet)
    BY UnderReview DEF Inv, TypeInv
  <1>2. Live /\ MaxOf(doc, max_pages) /\ part \in 1..Parts(doc) /\ (txn_is_complete <=> part = Parts(doc))
    BY DEF Inv, PageInv, MaxInv, PartInv, Live
  <1>3. QED BY <1>1, <1>2 DEF Env, EnvOf

\* What is shown of the document under review keeps the invariant.
LEMMA NowKeeps ==
  ASSUME Inv, doc # NoDoc, asked = "none", UNCHANGED <<hostVars, globalVars>>,
         NEW want, Shown(doc, part, Env, want), want \in 1..Fixed[doc] => is_first_part
  PROVE  PageInv'
  <1>1. /\ EnvOf(doc, part, Env) /\ Live
        /\ Env.doc = doc /\ Env.text = text /\ Env.max = max_pages
        /\ Env.complete = txn_is_complete /\ screens = doc
    BY NowEnv
  <1>2. /\ doc' = doc /\ part' = part /\ screens' = doc /\ text' = Env.text
        /\ max_pages' = Env.max /\ txn_is_complete' = Env.complete
        /\ is_first_part' = is_first_part
    BY <1>1 DEF hostVars, globalVars
  <1>3. is_first_part' \/ Kind[doc] # "payload" => Begins(doc, part, Env.text)
    BY <1>1, <1>2 DEF Inv, PageInv, BaseInv
  <1>4. want \in 1..Fixed[doc] => is_first_part'
    BY <1>2
  <1>5. QED BY <1>1, <1>2, <1>3, <1>4, ShownKeeps

LEMMA FindPageRight ==
  ASSUME Inv, FindPage
  PROVE  PageInv'
  <1> DEFINE cb == display_page_callback
             want == page_to_display
  <1>1. busy /\ doc # NoDoc /\ asked = "none" /\ UNCHANGED <<hostVars, globalVars>>
    BY DEF FindPage, Inv, RInv, Closed, Asked
  <1>2. EnvOf(doc, part, Env) /\ Env.doc = doc
    BY <1>1, NowEnv
  <1>3. /\ OnPage(doc, pager) /\ pager.page >= Num(doc) /\ Placed(doc, part, Env, pager)
        /\ want \notin 1..Num(doc)
    BY <1>1 DEF Inv, PageInv, BusyInv, Searches
  <1>4. /\ cb \in Callbacks /\ cb # "none" /\ FlowInv
        /\ current_state \in {"static", "dynamic"}
        /\ (current_state = "static" <=> cb \in {"first", "last"})
        /\ PagerOK(pager)
    BY <1>1 DEF Inv, TypeInv, FlowType, PageInv, FlowInv
  <1>5. doc \in Docs /\ Fixed[doc] \in Nat /\ Num(doc) = Fixed[doc] + 1 /\ pager.page \in Nat
    <2>1. doc \in Docs /\ pager.page \in Nat
      BY <1>1, <1>2, <1>4 DEF EnvOf, PagerOK, PagerSet
    <2>2. QED BY <2>1, DocAssumption DEF Num
  <1>6. ~(pager.page < Num(doc)) /\ ~(want \in 1..Fixed[doc])
    BY <1>3, <1>5
  <1>7. CASE \E b \in BOOLEAN : Show(cb, b, Env) /\ UNCHANGED pager
    <2>1. PICK b \in BOOLEAN : Show(cb, b, Env) /\ UNCHANGED pager
      BY <1>7
    <2>2. FlowInv' /\ Seen' /\ ~busy' /\ asked' = "none"
      BY <1>4, <2>1, ShowFlow
    <2>3. Generic(doc, part, Env, pager, want)
      BY <1>3, <1>6 DEF Generic
    <2>4. Shown(doc, part, Env, want)
      BY <2>1, <2>2, <2>3 DEF Shown
    <2>5. QED BY <1>1, <1>6, <2>4, NowKeeps
  <1>8. CASE /\ ~on_last_page(Env, pager)
             /\ \E q \in parse_next_page(Env, pager) :
                  /\ pager' = q
                  /\ \/ /\ q.ready
                        /\ UNCHANGED <<owed, asked, page_to_display, display_page_callback,
                                       busy, step, current_state>>
                     \/ /\ ~q.ready
                        /\ Requested("next", cb, want, Env)
    <2>1. PICK q \in parse_next_page(Env, pager) :
                  /\ pager' = q
                  /\ \/ /\ q.ready
                        /\ UNCHANGED <<owed, asked, page_to_display, display_page_callback,
                                       busy, step, current_state>>
                     \/ /\ ~q.ready
                        /\ Requested("next", cb, want, Env)
      BY <1>8
    <2>2. ~(AtMaxPages(Env, pager) /\ Env.complete)
      BY <1>8 DEF on_last_page
    <2>3. InText(doc, pager)
      <3>1. pager.screen = Num(doc) /\ pager.title = Num(doc)
        BY <1>3, <1>5 DEF OnPage, Least
      <3>2. QED BY <1>3, <3>1 DEF InText
    <2>4. Found(doc, part, Env, q)
      BY <1>2, <1>3, <1>4, <2>2, <2>3, NextPageRight
    <2>5. CASE /\ q.ready
               /\ UNCHANGED <<owed, asked, page_to_display, display_page_callback,
                              busy, step, current_state>>
      <3>1. FlowInv'
        BY <1>4, <2>5 DEF FlowInv
      <3>2. Searches(doc, part, Env, q, want)
        BY <1>3, <2>4, <2>5 DEF Searches, Found
      <3>3. busy' /\ asked' = "none" /\ page_to_display' = want /\ step' # "generic"
        BY <1>1, <1>4, <2>5 DEF FlowInv
      <3>4. Shown(doc, part, Env, want)
        BY <2>1, <3>1, <3>2, <3>3 DEF Shown, Seen
      <3>5. QED BY <1>1, <1>6, <3>4, NowKeeps
    <2>6. CASE ~q.ready /\ Requested("next", cb, want, Env)
      <3>1. /\ FlowInv' /\ step' \in {"anterior", "posterior"} /\ page_to_display' = want
            /\ asked' = "next" /\ busy' = FALSE
        BY <1>4, <2>6, AwaitFlow DEF Requested, Reply
      <3>2. AsksNext(doc, part, Env, q, want)
        BY <1>3, <2>4, <2>6 DEF AsksNext, Found
      <3>3. Shown(doc, part, Env, want)
        BY <2>1, <3>1, <3>2 DEF Shown, Seen
      <3>4. QED BY <1>1, <1>6, <3>3, NowKeeps
    <2>7. QED BY <2>1, <2>5, <2>6
  <1>9. QED BY <1>7, <1>8 DEF FindPage

\* What get_next_data finds on the screens.
LEMMA NextDataSought ==
  ASSUME Inv, doc # NoDoc, asked = "none", NEW m \in Moves,
         m \in {"next", "prev"} => step = "generic",
         ~(m = "prev" /\ Wanted(m) < 1), ~Gone(m)
  PROVE  /\ Sought(doc, part, Env, PagerFor(m), Wanted(m))
         /\ Wanted(m) \in 1..Fixed[doc] => is_first_part
  <1>1. EnvOf(doc, part, Env) /\ Env.doc = doc /\ Env.text = text /\ screens = doc /\ Live
    BY NowEnv
  <1>2. PagerOK(pager) /\ pager \in PagerSet /\ pager.page \in Nat /\ pager.screen \in Nat
    BY DEF Inv, TypeInv, PagerOK, PagerSet
  <1>3. /\ Fixed[doc] \in Nat /\ Num(doc) = Fixed[doc] + 1 /\ Num(doc) \in Nat
    <2>1. Fixed[doc] \in Nat
      BY <1>1, DocAssumption DEF EnvOf
    <2>2. QED BY <2>1 DEF Num
  <1>4. is_first_part => Begins(doc, part, Env.text)
    BY <1>1 DEF Inv, PageInv, BaseInv
  <1>5. CASE m = "next"
    <2>1. /\ OnPage(doc, pager)
          /\ pager.page < Num(doc) => is_first_part
          /\ pager.page >= Num(doc) => Placed(doc, part, Env, pager)
      BY <1>5 DEF Inv, PageInv, GenInv
    <2>2. pager.page # 0
      BY <2>1 DEF OnPage
    <2>3. PageNow = pager.page
      BY <2>2 DEF PageNow
    <2>4. Wanted(m) = pager.page + 1
      BY <1>5, <2>3 DEF Wanted
    <2>5. PagerFor(m) = pager
      BY <1>2, <1>5, <2>3 DEF PagerFor, PagerNow, PagerSet
    <2>6. CASE pager.page < Num(doc)
      BY <1>2, <1>3, <1>4, <2>1, <2>4, <2>5, <2>6 DEF Sought
    <2>7. CASE pager.page >= Num(doc)
      <3>1. Wanted(m) \notin 1..Num(doc) /\ Wanted(m) \notin 1..Fixed[doc] /\ ~(pager.page < Num(doc))
        BY <1>2, <1>3, <2>4, <2>7
      <3>2. QED BY <2>1, <2>5, <2>7, <3>1 DEF Sought
    <2>8. QED BY <1>2, <1>3, <2>6, <2>7
  <1>6. CASE m = "first"
    <2>1. is_first_part /\ Wanted(m) = 1
      BY <1>6 DEF Gone, Wanted
    <2>2. Wanted(m) \in 1..Num(doc)
      BY <1>3, <2>1
    <2>3. QED BY <1>4, <2>1, <2>2 DEF Sought
  <1>7. CASE m \in {"prev", "last"}
    <2>1. is_first_part
      BY <1>7 DEF Gone
    <2>2. PagerFor(m).page = 0 /\ PagerFor(m).screen = 0
      BY <1>2, <1>7 DEF PagerFor, PagerNow, PagerSet
    <2>3. ~(0 >= Num(doc))
      BY <1>3
    <2>4. QED BY <1>4, <2>1, <2>2, <2>3 DEF Sought
  <1>8. QED BY <1>5, <1>6, <1>7 DEF Moves

LEMMA GetNextDataRight ==
  ASSUME Inv, doc # NoDoc, asked = "none", ~busy, NEW m \in Moves,
         m \in {"next", "prev"} => step = "generic",
         current_state = "static" <=> m \in {"first", "last"},
         get_next_data(m), UNCHANGED <<hostVars, globalVars>>
  PROVE  PageInv'
  <1>1. /\ m \in Callbacks /\ m # "none" /\ current_state \in {"static", "dynamic"}
        /\ PagerOK(pager)
    BY DEF Moves, Callbacks, Inv, TypeInv, FlowType
  <1>2. ~(0 \in 1..Fixed[doc])
    <2>1. Fixed[doc] \in Nat
      BY NowEnv, DocAssumption DEF EnvOf
    <2>2. QED BY <2>1
  <1>3. CASE Show(m, FALSE, Env)
    <2>1. FlowInv' /\ Seen' /\ ~busy' /\ asked' = "none" /\ step' # "generic"
      BY <1>1, <1>3, ShowFlow
    <2>2. Shown(doc, part, Env, 0)
      BY <2>1 DEF Shown
    <2>3. QED BY <1>2, <2>2, NowKeeps
  <1>4. CASE Requested("first", m, Wanted(m), Env)
    <2>1. /\ FlowInv' /\ step' \in {"anterior", "posterior"}
          /\ asked' = "first" /\ busy' = FALSE
      BY <1>1, <1>4, AwaitFlow DEF Requested, Reply
    <2>2. Shown(doc, part, Env, 0)
      BY <2>1 DEF Shown, Seen
    <2>3. QED BY <1>2, <2>2, NowKeeps
  <1>5. CASE /\ ~(m = "prev" /\ Wanted(m) < 1) /\ ~Gone(m)
             /\ display_proper_page(Env, PagerFor(m), m, Wanted(m))
    <2>1. EnvOf(doc, part, Env) /\ Env.text \in Seq(UnitSet)
      BY NowEnv
    <2>2. PagerOK(PagerFor(m)) /\ Wanted(m) \in Nat \cup {LastPage}
      BY <1>1, <1>5, NowType
    <2>3. /\ Sought(doc, part, Env, PagerFor(m), Wanted(m))
          /\ Wanted(m) \in 1..Fixed[doc] => is_first_part
      BY <1>5, NextDataSought
    <2>4. Shown(doc, part, Env, Wanted(m))
      BY <1>1, <1>5, <2>1, <2>2, <2>3, ProperPageRight
    <2>5. QED BY <2>3, <2>4, NowKeeps
  <1>6. QED BY <1>3, <1>4, <1>5, NextDataCases

LEMMA PressRight ==
  ASSUME Inv, PressNext \/ PressPrev
  PROVE  PageInv'
  <1>1. ~busy /\ asked = "none" /\ UNCHANGED <<hostVars, globalVars>>
    BY DEF PressNext, PressPrev, CanPress
  <1>2. doc # NoDoc
    BY <1>1 DEF Inv, RInv, Closed, PressNext, PressPrev
  <1>3. FlowInv /\ busy = FALSE
    BY <1>1 DEF Inv, RInv, PageInv
  <1>4. CASE step \in {"review", "generic"} /\ on_anterior_delimiter
    <2>1. CASE current_state = "static"
      <3>1. get_next_data("first") /\ "first" \in Moves
        BY <1>4, <2>1 DEF on_anterior_delimiter, Moves
      <3>2. QED BY <1>1, <1>2, <2>1, <3>1, GetNextDataRight
    <2>2. CASE current_state # "static"
      <3>1. get_next_data("prev") /\ "prev" \in Moves /\ step = "generic"
        BY <1>3, <1>4, <2>2 DEF on_anterior_delimiter, Moves, FlowInv
      <3>2. QED BY <1>1, <1>2, <2>2, <3>1, GetNextDataRight
    <2>3. QED BY <2>1, <2>2
  <1>5. CASE step \in {"approve", "back", "generic"} /\ on_posterior_delimiter
    <2>1. CASE current_state = "static"
      <3>1. get_next_data("last") /\ "last" \in Moves
        BY <1>5, <2>1 DEF on_posterior_delimiter, Moves
      <3>2. QED BY <1>1, <1>2, <2>1, <3>1, GetNextDataRight
    <2>2. CASE current_state # "static"
      <3>1. get_next_data("next") /\ "next" \in Moves /\ step = "generic"
        BY <1>3, <1>5, <2>2 DEF on_posterior_delimiter, Moves, FlowInv
      <3>2. QED BY <1>1, <1>2, <2>2, <3>1, GetNextDataRight
    <2>3. QED BY <2>1, <2>2
  <1>6. CASE /\ step \in {"review", "approve", "reject", "back"}
             /\ \E s \in {"review", "approve", "reject", "back"} : Step(s)
    <2>1. /\ step' \in {"review", "approve", "reject", "back"}
          /\ UNCHANGED <<asked, display_page_callback, busy, current_state>>
      BY <1>6 DEF Step
    <2>2. FlowInv' /\ Seen'
      BY <1>3, <1>6, <2>1 DEF FlowInv, Seen
    <2>3. Shown(doc, part, Env, 0)
      BY <1>1, <1>3, <2>1, <2>2 DEF Shown
    <2>4. ~(0 \in 1..Fixed[doc])
      <3>1. Fixed[doc] \in Nat
        BY <1>1, <1>2, NowEnv, DocAssumption DEF EnvOf
      <3>2. QED BY <3>1
    <2>5. QED BY <1>1, <1>2, <2>3, <2>4, NowKeeps
  <1>7. FinalStep(screens) \in {"reject", "back"}
    BY DEF FinalStep
  <1>8. QED BY <1>4, <1>5, <1>6, <1>7 DEF PressNext, PressPrev

\* The menu, or a step that a part was awaited at.
LEMMA NoDocKeeps ==
  ASSUME Inv, doc' = NoDoc, asked' = "none", busy' = FALSE, max_pages' = max_pages,
         FlowInv', step' # "generic"
  PROVE  PageInv'
  BY DEF Inv, PageInv, PartInv, BaseInv, MaxInv, SeenInv, GenInv, BusyInv, WaitInv, Live

LEMMA CloseRight ==
  ASSUME Inv, sign_transaction \/ reject_transaction \/ Back
  PROVE  PageInv'
  <1>1. ~busy /\ asked = "none" /\ step \in {"approve", "reject", "back"} /\ busy = FALSE
    BY DEF sign_transaction, reject_transaction, Back, CanPress, Inv, RInv
  <1>2. /\ doc' = NoDoc /\ step' = "menu"
        /\ UNCHANGED <<max_pages, asked, display_page_callback, busy, current_state>>
    BY DEF sign_transaction, reject_transaction, Back, Close, globalVars
  <1>3. FlowInv'
    BY <1>1, <1>2 DEF Inv, PageInv, FlowInv
  <1>4. QED BY <1>1, <1>2, <1>3, NoDocKeeps

----------------------------------------------------------------------------
\* The commands.

\* The flow as a command finds it.
LEMMA ReadyFlow ==
  ASSUME Inv, doc = NoDoc \/ asked # "none"
  PROVE  /\ owed = 0 /\ ~busy /\ step # "generic"
         /\ FlowInv /\ PagerOK(pager)
         /\ page_to_display \in Nat \cup {LastPage} /\ display_page_callback \in Callbacks
         /\ current_state \in {"static", "dynamic"}
         /\ display_page_callback # "none" =>
              (current_state = "static" <=> display_page_callback \in {"first", "last"})
  <1>1. RInv /\ FlowInv
    BY DEF Inv, PageInv
  <1>2. owed = 0 /\ ~busy /\ step \in {"menu", "anterior", "posterior"}
    BY <1>1, Ready
  <1>3. display_page_callback # "none" =>
          (current_state = "static" <=> display_page_callback \in {"first", "last"})
    BY <1>1, <1>2 DEF FlowInv
  <1>4. QED BY <1>1, <1>2, <1>3 DEF Inv, TypeInv, FlowType

\* Screens that are made for a document show it from the beginning of its text.
LEMMA ShowScreensRight ==
  ASSUME Inv, doc = NoDoc \/ asked # "none", NEW d \in Docs, NEW k \in 1..Parts(d),
         NEW us, Begins(d, k, us), NEW max, MaxOf(d, max),
         NEW complete, complete <=> k = Parts(d),
         NEW cb \in {"none", display_page_callback}, NEW want \in {0, page_to_display}, NEW n,
         ShowScreens(d, us, max, complete, cb, want, n),
         doc' = d, part' = k, is_first_part' = TRUE
  PROVE  PageInv'
  <1> DEFINE e == [doc |-> d, complete |-> complete, max |-> max, text |-> us, owed |-> owed + n]
             p == Cleared(pager)
  <1>1. /\ FlowInv /\ PagerOK(pager)
        /\ page_to_display \in Nat \cup {LastPage} /\ display_page_callback \in Callbacks
        /\ current_state \in {"static", "dynamic"}
        /\ display_page_callback # "none" =>
             (current_state = "static" <=> display_page_callback \in {"first", "last"})
    BY ReadyFlow
  <1>2. want \in Nat \cup {LastPage} /\ cb \in Callbacks
    BY <1>1 DEF Callbacks
  <1>3. /\ e.doc = d /\ e.complete = complete /\ e.max = max /\ e.text = us
    OBVIOUS
  <1>4. display_proper_page(e, p, cb, want)
    BY DEF ShowScreens
  <1>5. screens' = d /\ text' = us /\ max_pages' = max /\ txn_is_complete' = complete
    BY DEF ShowScreens
  <1>6. PagerOK(p)
    BY <1>1, MovedType
  <1>7. p.page = 0 /\ p.screen = 0
    <2>1. pager \in PagerSet
      BY <1>1 DEF PagerOK
    <2>2. QED BY <2>1 DEF Cleared, PagerSet
  <1> HIDE DEF e, p
  <1>8. EnvOf(d, k, e)
    BY <1>3 DEF EnvOf
  <1>9. Begins(d, k, e.text) /\ e.text \in Seq(UnitSet)
    BY <1>3 DEF Begins, Starts
  <1>10. Num(d) \in Nat /\ Num(d) > 0
    <2>1. Fixed[d] \in Nat
      BY DocAssumption
    <2>2. QED BY <2>1 DEF Num
  <1>11. Sought(d, k, e, p, want)
    <2>1. ~(p.page >= Num(d)) /\ ~(p.screen >= Num(d))
      BY <1>7, <1>10
    <2>2. QED BY <1>9, <2>1 DEF Sought
  <1>12. cb # "none" => (current_state = "static" <=> cb \in {"first", "last"})
    BY <1>1
  <1>13. Shown(d, k, e, want)
    BY <1>1, <1>2, <1>4, <1>6, <1>8, <1>9, <1>11, <1>12, ProperPageRight
  <1>14. QED BY <1>3, <1>5, <1>8, <1>9, <1>13, ShownKeeps

\* A deployment whose payload comes in parts is not yet displayed.
LEMMA AwaitDeployRight ==
  ASSUME Inv, doc = NoDoc \/ asked # "none", NEW d \in Docs, NEW p \in 1..Parts(d),
         Kind[d] = "deploy", doc' = d, part' = p, AwaitDeploy(d, p)
  PROVE  PageInv'
  <1>1. /\ txn_is_complete' = FALSE /\ asked' = "next" /\ p < Parts(d)
        /\ UNCHANGED <<max_pages, display_page_callback, busy, step, current_state>>
    BY DEF AwaitDeploy
  <1>2. ~busy /\ step # "generic" /\ FlowInv
    BY ReadyFlow
  <1>3. FlowInv' /\ SeenInv' /\ GenInv' /\ BusyInv' /\ WaitInv'
    BY <1>1, <1>2 DEF FlowInv, SeenInv, Seen, GenInv, BusyInv, WaitInv
  <1>4. ~Live'
    BY <1>1 DEF Live
  <1>5. MaxInv'
    BY <1>1, <1>4 DEF MaxInv, Inv, PageInv
  <1>6. Parts(d) \in Nat
    BY DocAssumption DEF Parts
  <1>7. PartInv' /\ BaseInv'
    BY <1>1, <1>4, <1>6 DEF PartInv, BaseInv, Parts
  <1>8. QED BY <1>3, <1>5, <1>7 DEF PageInv

\* A refused part leaves the screen as it is.
LEMMA RefuseRight ==
  ASSUME Inv, doc = NoDoc \/ asked # "none", NEW first, Refuse(first)
  PROVE  PageInv'
  <1>1. ~busy /\ busy \in BOOLEAN /\ step # "generic" /\ FlowInv
    BY ReadyFlow DEF Inv, RInv
  <1>2. /\ doc' = NoDoc /\ asked' = "none"
        /\ UNCHANGED <<max_pages, display_page_callback, busy, step, current_state>>
    BY DEF Refuse
  <1>3. FlowInv' /\ busy' = FALSE
    BY <1>1, <1>2 DEF FlowInv
  <1>4. QED BY <1>1, <1>2, <1>3, NoDocKeeps

\* The maximum that a transaction's screens are made with.
LEMMA TxnMaximum ==
  ASSUME NEW d \in Docs, IsTxn(d)
  PROVE  MaxOf(d, IF Long[d] THEN MaxPages ELSE 0)
  BY PageAssumption DEF MaxOf

\* What a transaction's first part is displayed from begins its text.
LEMMA FirstBegins ==
  ASSUME NEW d \in Docs, IsTxn(d), Kind[d] = "deploy" => Parts(d) = 1
  PROVE  Begins(d, 1, PartUnits(d, 1))
  <1>1. Starts(d, 1, PartUnits(d, 1))
    BY FirstPart DEF Starts
  <1>2. Kind[d] # "transfer" => 1 = Parts(d) \/ W <= Upto(d, 1)
    <2>1. 1 \in 1..Parts(d)
      BY DocAssumption DEF Parts
    <2>2. Upto(d, 1) \in Nat /\ W \in Nat
      BY <2>1, UptoOrder, PageAssumption
    <2>3. Kind[d] = "payload" => Parts(d) = 1 \/ Upto(d, 1) >= W
      BY OrdinaryAssumption DEF FirstPageSent
    <2>4. QED BY <2>2, <2>3 DEF IsTxn
  <1>3. QED BY <1>1, <1>2 DEF Begins

\* A deployment's hash is there with its last part.
LEMMA DeployBegins ==
  ASSUME NEW d \in Docs, Kind[d] = "deploy"
  PROVE  Begins(d, Parts(d), PartUnits(d, Parts(d)))
  <1>1. Parts(d) \in Nat /\ Parts(d) >= 1
    BY DocAssumption DEF Parts
  <1>2. CASE Parts(d) = 1
    BY <1>2, FirstBegins DEF IsTxn
  <1>3. CASE Parts(d) > 1
    <2>1. Parts(d) \in 1..Parts(d)
      BY <1>1
    <2>2. /\ PartUnits(d, Parts(d)) \in Seq(UnitSet)
          /\ Text(PartUnits(d, Parts(d))) = SubSeq(Stream[d], Upto(d, Parts(d) - 1) + 1, Upto(d, Parts(d)))
      BY <1>3, <2>1, LaterPart
    <2>3. Sent[d][Parts(d) - 1] = 0
      BY <1>3, OrdinaryAssumption DEF FirstPageSent
    <2>4. Upto(d, Parts(d) - 1) = 0
      BY <2>3, StreamType DEF Upto, Gloss
    <2>5. Starts(d, Parts(d), PartUnits(d, Parts(d)))
      <3>1. Upto(d, Parts(d) - 1) + 1 = 1
        BY <2>4
      <3>2. QED BY <2>2, <3>1, Zenon DEF Starts
    <2>6. QED BY <2>5 DEF Begins
  <1>4. QED BY <1>1, <1>2, <1>3

\* The first part of a transaction, sent for the first time or again.
LEMMA FirstPartRight ==
  ASSUME Inv, doc = NoDoc \/ asked # "none",
         NEW d \in Docs, IsTxn(d), doc' = d, part' = 1, on_first_part(d)
  PROVE  PageInv'
  <1>1. is_first_part' = TRUE /\ 1 \in 1..Parts(d)
    BY DocAssumption DEF on_first_part, Parts
  <1>2. CASE (Kind[d] = "deploy" => Parts(d) = 1) /\ display_transaction(d, 1)
    <2>1. Begins(d, 1, PartUnits(d, 1)) /\ MaxOf(d, IF Long[d] THEN MaxPages ELSE 0)
      BY <1>2, FirstBegins, TxnMaximum
    <2>2. ShowScreens(d, PartUnits(d, 1), IF Long[d] THEN MaxPages ELSE 0, 1 = Parts(d),
                      display_page_callback, page_to_display, 1)
      BY <1>2 DEF display_transaction
    <2>3. (1 = Parts(d)) <=> 1 = Parts(d)
      OBVIOUS
    <2>4. QED BY <1>1, <2>1, <2>2, <2>3, ShowScreensRight
  <1>3. CASE Kind[d] = "deploy" /\ AwaitDeploy(d, 1)
    BY <1>1, <1>3, AwaitDeployRight
  <1>4. QED BY <1>2, <1>3 DEF on_first_part

\* A message or an account comes in one part.
LEMMA WholeRight ==
  ASSUME Inv, NEW d \in Docs, on_new_message(d) \/ on_display_account(d)
  PROVE  PageInv'
  <1>1. /\ Kind[d] \in {"message", "account"} /\ doc = NoDoc /\ doc' = d /\ part' = 1
        /\ is_first_part' = TRUE
    BY DEF on_new_message, on_display_account, Opens
  <1>2. \E cb \in {"none", display_page_callback}, want \in {0, page_to_display} : \E n :
          ShowScreens(d, Units(d), max_pages, TRUE, cb, want, n)
    BY DEF on_new_message, on_display_account
  <1>3. Parts(d) = 1 /\ 1 \in 1..Parts(d)
    BY <1>1, DocAssumption DEF Parts
  <1>4. Begins(d, 1, Units(d))
    <2>1. Units(d) \in Seq(UnitSet) /\ Stream[d] \in Seq(GlyphSet) /\ Text(Units(d)) = Stream[d]
      BY UnitsType, StreamType DEF Stream
    <2>2. Upto(d, 1) = Len(Stream[d])
      BY <1>3, UptoOrder
    <2>3. SubSeq(Stream[d], 1, Len(Stream[d])) = Stream[d]
      BY <2>1
    <2>4. QED BY <1>3, <2>1, <2>2, <2>3 DEF Begins, Starts
  <1>5. MaxOf(d, max_pages)
    <2>1. ~IsTxn(d) /\ ~Long[d]
      BY <1>1, DocAssumption DEF IsTxn
    <2>2. max_pages \in {0, MaxPages} /\ (max_pages # 0 => \E l \in Docs : Long[l])
      BY DEF Inv, TypeInv, PageInv, MaxInv
    <2>3. QED BY <2>1, <2>2 DEF MaxOf
  <1>6. TRUE <=> 1 = Parts(d)
    BY <1>3
  <1>7. QED BY <1>1, <1>2, <1>3, <1>4, <1>5, <1>6, ShowScreensRight

\* All of what has no payload is there with the first part.
LEMMA TransferSent ==
  ASSUME NEW d \in Docs, Kind[d] = "transfer", NEW p \in 1..Parts(d)
  PROVE  Sent[d][p] = Len(Glyphs[d])
  <1> DEFINE n == Parts(d)
             T == {j \in Nat : j + 1 \in 1..n => Sent[d][j + 1] = Len(Glyphs[d])}
  <1>1. n \in Nat /\ n >= 1 /\ Len(Glyphs[d]) \in Nat
    BY DocAssumption, UnitsType DEF Parts
  <1>2. Sent[d][1] = Len(Glyphs[d])
    BY OrdinaryAssumption DEF FirstPageSent
  <1> HIDE DEF n
  <1>3. 0 \in T
    BY <1>2
  <1>4. ASSUME NEW j \in Nat, j \in T PROVE j + 1 \in T
    <2>1. SUFFICES ASSUME (j + 1) + 1 \in 1..n PROVE Sent[d][(j + 1) + 1] = Len(Glyphs[d])
      OBVIOUS
    <2>2. /\ (j + 1) + 1 = j + 2 /\ j + 1 \in 1..n /\ j + 2 \in 1..n
          /\ j + 2 > 1 /\ (j + 2) - 1 = j + 1
      BY <1>1, <2>1
    <2>3. Sent[d][j + 1] = Len(Glyphs[d])
      BY <1>4, <2>2
    <2>4. /\ Sent[d][j + 2] \in Nat /\ Sent[d][j + 2] <= Len(Glyphs[d])
          /\ Sent[d][(j + 2) - 1] <= Sent[d][j + 2]
      BY <2>2, SentOrder DEF n
    <2>5. QED BY <1>1, <2>2, <2>3, <2>4
  <1>5. Nat \subseteq T
    BY <1>3, <1>4, SetInduction
  <1>6. p - 1 \in Nat /\ (p - 1) + 1 = p
    OBVIOUS
  <1>7. p \in 1..n
    BY DEF n
  <1>8. QED BY <1>5, <1>6, <1>7

\* Two slices of the text, one after the other.
LEMMA GlyphSlices ==
  ASSUME NEW d \in Docs, NEW a \in Nat, NEW b \in Nat, NEW c \in Nat,
         a <= b, b <= c, c <= Len(Stream[d])
  PROVE  SubSeq(Stream[d], a + 1, b) \o SubSeq(Stream[d], b + 1, c) = SubSeq(Stream[d], a + 1, c)
  <1>1. Stream[d] \in Seq(GlyphSet)
    BY StreamType
  <1>2. QED BY <1>1, Slices

\* The next part continues the text where the one before it was used up.
LEMMA ContinueFollows ==
  ASSUME NEW d \in Docs, NEW k \in 1..Parts(d), NEW j \in 1..Parts(d), k = j + 1,
         NEW p, PagerOK(p), p.page >= Fixed[d], Follows(d, j, p), p.pos = Len(p.input),
         NEW q, q.page = p.page, q.parsed = p.parsed,
         Text(Drop(q.input, q.pos)) = SubSeq(Stream[d], Upto(d, j) + 1, Upto(d, k))
  PROVE  Follows(d, k, q)
  <1>1. p.page \in Nat
    BY DEF PagerOK, PagerSet
  <1>2. Before(d, p.page) \in Nat
    BY <1>1, BeforeNext
  <1>3. k > 1 /\ k - 1 = j /\ j < Parts(d)
    BY DocAssumption DEF Parts
  <1>4. /\ Upto(d, j) \in Nat /\ Upto(d, k) \in Nat /\ Upto(d, j) <= Upto(d, k)
        /\ Upto(d, k) <= Len(Stream[d])
    BY <1>3, UptoOrder
  <1>5. Before(d, p.page) <= Upto(d, j)
    BY <1>3 DEF Follows
  <1>6. p.parsed = SubSeq(Stream[d], Before(d, p.page) + 1, Upto(d, j))
    BY AllRead DEF Follows
  <1>7. q.parsed \o Text(Drop(q.input, q.pos))
          = SubSeq(Stream[d], Before(d, p.page) + 1, Upto(d, k))
    <2>a. PICK a \in Nat, b \in Nat, c \in Nat :
            a = Before(d, p.page) /\ b = Upto(d, j) /\ c = Upto(d, k)
      BY <1>2, <1>4
    <2>b. SubSeq(Stream[d], a + 1, b) \o SubSeq(Stream[d], b + 1, c) = SubSeq(Stream[d], a + 1, c)
      <3>1. a <= b /\ b <= c /\ c <= Len(Stream[d])
        BY <1>4, <1>5, <2>a
      <3>2. QED BY <3>1, GlyphSlices
    <2>1. SubSeq(Stream[d], Before(d, p.page) + 1, Upto(d, j)) \o SubSeq(Stream[d], Upto(d, j) + 1, Upto(d, k))
            = SubSeq(Stream[d], Before(d, p.page) + 1, Upto(d, k))
      BY <2>a, <2>b, Zenon
    <2>2. QED BY <1>6, <2>1, Zenon
  <1>8. Before(d, q.page) <= Upto(d, k)
    BY <1>2, <1>4, <1>5
  <1>9. QED BY <1>7, <1>8 DEF Follows

\* The display goes on with part p, where the text and the page are those awaited.
Resumes(p) ==
  \E e, q :
    /\ EnvOf(doc, p, e) /\ e.text \in Seq(UnitSet)
    /\ PagerOK(q) /\ q.page = pager.page
    /\ Sought(doc, p, e, q, page_to_display)
    /\ display_proper_page(e, q, display_page_callback, page_to_display)

\* A part that continues the text is read where a page of it is awaited.
LEMMA ContinueRight ==
  ASSUME Inv, asked = "next", Kind[doc] # "deploy", doc' = doc,
         NEW p \in 1..Parts(doc), part' = p, is_first_part' = FALSE,
         NEW e, EnvOf(doc, p, e), e.max = max_pages, e.text \in Seq(UnitSet),
         NEW q, PagerOK(q), q.screen = pager.screen, q.title = pager.title,
         q.page = pager.page, q.shown = pager.shown,
         Follows(doc, part, pager) /\ pager.pos = Len(pager.input) => Follows(doc, p, q),
         Kind[doc] # "payload" => Begins(doc, p, e.text),
         page_to_display \in 1..Num(doc) => Begins(doc, p, e.text),
         display_proper_page(e, q, display_page_callback, page_to_display),
         text' = e.text, txn_is_complete' = e.complete, UNCHANGED <<screens, max_pages>>
  PROVE  PageInv' /\ Resumes(p)
  <1>1. /\ PagerOK(pager) /\ FlowInv
        /\ page_to_display \in Nat \cup {LastPage} /\ display_page_callback \in Callbacks
        /\ current_state \in {"static", "dynamic"}
        /\ display_page_callback # "none" =>
             (current_state = "static" <=> display_page_callback \in {"first", "last"})
    BY ReadyFlow
  <1>2. doc \in Docs /\ screens = doc
    BY DEF Inv, RInv, Asked
  <1>3. /\ InText(doc, pager) /\ Waits(doc, part, Env, pager)
        /\ page_to_display \in 1..Num(doc) => page_to_display = Num(doc)
    BY DEF Inv, PageInv, WaitInv, AsksNext
  <1>4. InText(doc, q) /\ (OnPage(doc, pager) => OnPage(doc, q))
    <2>1. OnPage(doc, pager) => OnPage(doc, q)
      BY Zenon DEF OnPage
    <2>2. QED BY <1>3, <2>1, Zenon DEF InText
  <1>5. AtMaxPages(Env, pager) => AtMaxPages(e, q)
    <2>1. e.doc = doc /\ Env.doc = doc /\ Env.max = max_pages
      BY <1>2 DEF EnvOf, Env
    <2>2. QED BY <2>1 DEF AtMaxPages
  <1>6. Placed(doc, p, e, q)
    BY <1>3, <1>5 DEF Waits, Placed
  <1>7. q.page \in Nat /\ q.screen = Num(doc) /\ Num(doc) \in Nat /\ Num(doc) = Fixed[doc] + 1
        /\ Fixed[doc] \in Nat
    <2>1. Fixed[doc] \in Nat
      BY <1>2, DocAssumption
    <2>2. q.page \in Nat /\ q.screen = Num(doc)
      BY <1>4 DEF InText, PagerOK, PagerSet
    <2>3. QED BY <2>1, <2>2 DEF Num
  <1>8. Sought(doc, p, e, q, page_to_display)
    <2>1. q.page >= Num(doc) => OnPage(doc, q)
      BY <1>4, <1>7 DEF InText
    <2>2. ~(q.screen < Num(doc))
      BY <1>7
    <2>3. QED BY <1>4, <1>6, <2>1, <2>2 DEF Sought
  <1>9. Shown(doc, p, e, page_to_display)
    BY <1>1, <1>8, ProperPageRight
  <1>10. ~(page_to_display \in 1..Fixed[doc])
    BY <1>3, <1>7
  <1>11. screens' = doc /\ max_pages' = e.max
    BY <1>2
  <1>12. PageInv'
    BY <1>9, <1>10, <1>11, ShownKeeps
  <1>13. Resumes(p)
    BY <1>8, Zenon DEF Resumes
  <1>14. QED BY <1>12, <1>13

\* The maximum and the part of a transaction whose next part is awaited.
LEMMA NextEnv ==
  ASSUME Inv, asked = "next", Kind[doc] # "deploy"
  PROVE  /\ doc \in Docs /\ Kind[doc] \in {"payload", "transfer"} /\ Live
         /\ part \in 1..Parts(doc) /\ MaxOf(doc, max_pages)
         /\ PagerOK(pager) /\ text \in Seq(UnitSet)
         /\ page_to_display \in 1..Num(doc) => Kind[doc] = "transfer"
  <1>1. doc \in Docs /\ doc # NoDoc /\ Kind[doc] \in {"payload", "transfer"} /\ Live
    BY DEF Inv, RInv, Asked, IsTxn, Live
  <1>2. part \in 1..Parts(doc) /\ MaxOf(doc, max_pages)
    BY <1>1 DEF Inv, PageInv, PartInv, MaxInv
  <1>3. page_to_display \in 1..Num(doc) => Kind[doc] = "transfer"
    BY DEF Inv, PageInv, WaitInv, AsksNext
  <1>4. QED BY <1>1, <1>2, <1>3 DEF Inv, TypeInv

\* A part with more of the payload.
LEMMA ShowPartRight ==
  ASSUME Inv, asked = "next", Kind[doc] # "deploy", doc' = doc,
         NEW p \in 1..Parts(doc), p = part + 1, part' = p, MorePayload(doc, part), ShowPart(p)
  PROVE  PageInv' /\ Resumes(p)
  <1> DEFINE e == [doc |-> doc, complete |-> p = Parts(doc), max |-> max_pages,
                   text |-> PartUnits(doc, p), owed |-> owed + 1]
             q == [pager EXCEPT !.input = ScreenText(e, pager.screen), !.pos = 0]
  <1>1. /\ doc \in Docs /\ Kind[doc] \in {"payload", "transfer"}
        /\ part \in 1..Parts(doc) /\ MaxOf(doc, max_pages) /\ PagerOK(pager)
        /\ page_to_display \in 1..Num(doc) => Kind[doc] = "transfer"
    BY NextEnv
  <1>2. Kind[doc] = "payload"
    <2>1. ASSUME Kind[doc] = "transfer" PROVE FALSE
      <3>1. Sent[doc][part] = Len(Glyphs[doc]) /\ Len(Glyphs[doc]) \in Nat
        BY <1>1, <2>1, TransferSent, UnitsType
      <3>2. QED BY <3>1 DEF MorePayload
    <2>2. QED BY <1>1, <2>1
  <1>3. /\ text' = e.text /\ txn_is_complete' = e.complete /\ is_first_part' = FALSE
        /\ display_proper_page(e, q, display_page_callback, page_to_display)
        /\ UNCHANGED <<screens, max_pages>>
    BY DEF ShowPart
  <1>4. /\ e.doc = doc /\ e.complete = (p = Parts(doc)) /\ e.max = max_pages
        /\ e.text = PartUnits(doc, p)
    OBVIOUS
  <1> HIDE DEF e
  <1>5. part \in Nat /\ p > 1 /\ p - 1 = part
    BY <1>1
  <1>6. /\ e.text \in Seq(UnitSet)
        /\ Text(e.text) = SubSeq(Stream[doc], Upto(doc, part) + 1, Upto(doc, p))
    BY <1>1, <1>4, <1>5, LaterPart
  <1>7. EnvOf(doc, p, e)
    BY <1>1, <1>4 DEF EnvOf
  <1>8. InText(doc, pager)
    BY DEF Inv, PageInv, WaitInv, AsksNext
  <1>9. ScreenText(e, pager.screen) = e.text
    BY <1>4, <1>8 DEF InText, ScreenText
  <1>10. /\ q.screen = pager.screen /\ q.title = pager.title /\ q.page = pager.page
         /\ q.shown = pager.shown /\ q.parsed = pager.parsed /\ q.input = e.text /\ q.pos = 0
         /\ q \in PagerSet /\ Len(pager.shown) <= W /\ pager.page \in Nat
    BY <1>1, <1>6, <1>9 DEF PagerOK, PagerSet
  <1> HIDE DEF q
  <1>11. PagerOK(q)
    <2>1. 0 <= Len(e.text)
      BY <1>6
    <2>2. QED BY <1>10, <2>1 DEF PagerOK
  <1>12. pager.page >= Fixed[doc]
    <2>1. Fixed[doc] \in Nat
      BY <1>1, DocAssumption
    <2>2. pager.page = Fixed[doc] \/ pager.page >= Num(doc)
      BY <1>8 DEF InText
    <2>3. QED BY <1>10, <2>1, <2>2 DEF Num
  <1>13. Text(Drop(q.input, q.pos)) = SubSeq(Stream[doc], Upto(doc, part) + 1, Upto(doc, p))
    <2>1. Drop(e.text, 0) = e.text
      BY <1>6 DEF Drop
    <2>2. QED BY <1>6, <1>10, <2>1
  <1>14. Follows(doc, part, pager) /\ pager.pos = Len(pager.input) => Follows(doc, p, q)
    BY <1>1, <1>10, <1>12, <1>13, ContinueFollows
  <1>15. ~(page_to_display \in 1..Num(doc))
    BY <1>1, <1>2
  <1>16. QED BY <1>2, <1>3, <1>4, <1>6, <1>7, <1>10, <1>11, <1>14, <1>15, ContinueRight

\* A part after the payload: what it overwrites has been read.
LEMMA ShowTailRight ==
  ASSUME Inv, asked = "next", Kind[doc] # "deploy", doc' = doc,
         NEW p \in 1..Parts(doc), p = part + 1, part' = p, ~MorePayload(doc, part), ShowTail(p)
  PROVE  PageInv' /\ Resumes(p)
  <1> DEFINE stale(us) == IF Kind[doc] = "payload" THEN Overwritten(us) ELSE us
             e == [doc |-> doc, complete |-> p = Parts(doc), max |-> max_pages,
                   text |-> stale(text), owed |-> owed + 1]
             q == [pager EXCEPT !.input = stale(@)]
  <1>1. /\ doc \in Docs /\ Kind[doc] \in {"payload", "transfer"} /\ Live
        /\ part \in 1..Parts(doc) /\ MaxOf(doc, max_pages) /\ PagerOK(pager)
        /\ text \in Seq(UnitSet)
        /\ page_to_display \in 1..Num(doc) => Kind[doc] = "transfer"
    BY NextEnv
  <1>2. Sent[doc][part] = Len(Glyphs[doc])
    <2>1. /\ Sent[doc][part] \in Nat /\ Len(Glyphs[doc]) \in Nat
          /\ Sent[doc][part] <= Len(Glyphs[doc])
      BY <1>1, SentOrder, UnitsType
    <2>2. QED BY <2>1 DEF MorePayload
  <1>3. part \in Nat /\ p > 1 /\ p - 1 = part
    BY <1>1
  <1>4. Upto(doc, part) = Upto(doc, p) /\ Upto(doc, p) \in Nat /\ Upto(doc, p) = Len(Stream[doc])
    <2>1. Upto(doc, part) = Len(Stream[doc]) /\ Upto(doc, part) \in Nat
      BY <1>1, <1>2, UptoOrder
    <2>2. Upto(doc, p) \in Nat /\ Upto(doc, p) <= Len(Stream[doc]) /\ Upto(doc, part) <= Upto(doc, p)
      BY <1>1, <1>3, UptoOrder
    <2>3. QED BY <2>1, <2>2
  <1>5. /\ text' = e.text /\ txn_is_complete' = e.complete /\ is_first_part' = FALSE
        /\ display_proper_page(e, q, display_page_callback, page_to_display)
        /\ UNCHANGED <<screens, max_pages>>
    BY DEF ShowTail
  <1>6. \A us \in Seq(UnitSet) : stale(us) \in Seq(UnitSet) /\ Len(stale(us)) = Len(us)
    BY OverwrittenType
  <1>7. Kind[doc] # "payload" => stale(text) = text
    OBVIOUS
  <1>8. pager \in PagerSet /\ pager.input \in Seq(UnitSet) /\ pager.pos <= Len(pager.input)
        /\ Len(pager.shown) <= W /\ pager.page \in Nat /\ pager.pos \in Nat
    BY <1>1 DEF PagerOK, PagerSet
  <1>9. q = [pager EXCEPT !.input = stale(pager.input)]
    BY <1>8 DEF PagerSet
  <1> HIDE DEF stale
  <1>10. /\ e.doc = doc /\ e.complete = (p = Parts(doc)) /\ e.max = max_pages
         /\ e.text = stale(text)
    OBVIOUS
  <1> HIDE DEF e
  <1>11. EnvOf(doc, p, e) /\ e.text \in Seq(UnitSet)
    BY <1>1, <1>6, <1>10 DEF EnvOf
  <1>12. stale(pager.input) \in Seq(UnitSet) /\ Len(stale(pager.input)) = Len(pager.input)
    BY <1>6, <1>8
  <1>13. /\ q.screen = pager.screen /\ q.title = pager.title /\ q.page = pager.page
         /\ q.shown = pager.shown /\ q.parsed = pager.parsed /\ q.pos = pager.pos
         /\ q.input = stale(pager.input) /\ q \in PagerSet
    BY <1>8, <1>9, <1>12 DEF PagerSet
  <1> HIDE DEF q
  <1>14. PagerOK(q)
    BY <1>8, <1>12, <1>13 DEF PagerOK
  <1>15. ASSUME Follows(doc, part, pager), pager.pos = Len(pager.input) PROVE Follows(doc, p, q)
    <2>1. q.pos = Len(q.input)
      BY <1>12, <1>13, <1>15
    <2>2. q.parsed \o Text(Drop(q.input, q.pos)) = q.parsed
      BY <1>14, <2>1, AllRead
    <2>3. pager.parsed \o Text(Drop(pager.input, pager.pos)) = pager.parsed
      BY <1>1, <1>15, AllRead
    <2>4. q.parsed \o Text(Drop(q.input, q.pos))
            = SubSeq(Stream[doc], Before(doc, q.page) + 1, Upto(doc, p))
      BY <1>4, <1>13, <1>15, <2>2, <2>3 DEF Follows
    <2>5. part < Parts(doc)
      BY <1>1, DocAssumption DEF Parts
    <2>6. Before(doc, q.page) <= Upto(doc, p)
      BY <1>4, <1>13, <1>15, <2>5 DEF Follows
    <2>7. QED BY <2>4, <2>6 DEF Follows
  <1>16. ASSUME Kind[doc] = "transfer" PROVE Begins(doc, p, e.text)
    <2>1. e.text = text
      BY <1>7, <1>10, <1>16
    <2>2. Begins(doc, part, text)
      BY <1>1, <1>16 DEF Inv, PageInv, BaseInv
    <2>3. Starts(doc, p, text)
      BY <1>4, <2>2 DEF Begins, Starts
    <2>4. QED BY <1>16, <2>1, <2>3 DEF Begins
  <1>17. /\ Kind[doc] # "payload" => Begins(doc, p, e.text)
         /\ page_to_display \in 1..Num(doc) => Begins(doc, p, e.text)
    BY <1>1, <1>16
  <1>18. QED BY <1>5, <1>10, <1>11, <1>13, <1>14, <1>15, <1>17, ContinueRight

\* The commands of the client, one by one.
LEMMA CommandRight ==
  ASSUME Inv,
         \/ \E d \in Docs : SendTxn(d) \/ on_new_message(d) \/ on_display_account(d)
         \/ SendFirst \/ SendNext
  PROVE  PageInv'
  <1>1. ASSUME NEW d \in Docs, SendTxn(d)
        PROVE  PageInv'
    BY <1>1, FirstPartRight, RefuseRight DEF SendTxn, Opens
  <1>2. ASSUME NEW d \in Docs, on_new_message(d) \/ on_display_account(d)
        PROVE  PageInv'
    BY <1>2, WholeRight
  <1>3. CASE SendFirst
    <2>1. doc \in Docs /\ IsTxn(doc) /\ asked # "none" /\ doc' = doc /\ part' = 1
      BY <1>3 DEF SendFirst, Inv, RInv, Asked
    <2>2. QED BY <1>3, <2>1, FirstPartRight DEF SendFirst
  <1>4. CASE SendNext
    <2>1. doc \in Docs /\ IsTxn(doc) /\ doc # NoDoc /\ asked = "next" /\ part < Parts(doc)
      BY <1>4 DEF SendNext, Inv, RInv, Asked
    <2>2. part + 1 \in 1..Parts(doc) /\ (part + 1) - 1 = part
      <3>1. part \in 1..Parts(doc) /\ Parts(doc) \in Nat
        BY <2>1, DocAssumption DEF Inv, PageInv, PartInv, Parts
      <3>2. QED BY <2>1, <3>1
    <2>3. CASE Bad[doc] = part + 1 /\ Refuse(FALSE)
      BY <2>1, <2>3, RefuseRight
    <2>4. CASE part' = part + 1 /\ UNCHANGED doc /\ on_next_part(part + 1)
      <3>1. CASE /\ Kind[doc] = "deploy" /\ part + 1 = Parts(doc)
                 /\ is_first_part' = TRUE /\ display_transaction(doc, part + 1)
        <4>1. /\ Begins(doc, Parts(doc), PartUnits(doc, Parts(doc)))
              /\ MaxOf(doc, IF Long[doc] THEN MaxPages ELSE 0)
          BY <2>1, <3>1, DeployBegins, TxnMaximum
        <4>2. ShowScreens(doc, PartUnits(doc, Parts(doc)), IF Long[doc] THEN MaxPages ELSE 0,
                          Parts(doc) = Parts(doc), display_page_callback, page_to_display, 1)
          BY <3>1 DEF display_transaction
        <4>3. doc' = doc /\ part' = Parts(doc) /\ Parts(doc) \in 1..Parts(doc)
          BY <2>2, <2>4, <3>1
        <4>4. (Parts(doc) = Parts(doc)) <=> Parts(doc) = Parts(doc)
          OBVIOUS
        <4>5. QED BY <2>1, <3>1, <4>1, <4>2, <4>3, <4>4, ShowScreensRight
      <3>2. CASE Kind[doc] = "deploy" /\ AwaitDeploy(doc, part + 1)
        BY <2>1, <2>2, <2>4, <3>2, AwaitDeployRight
      <3>3. CASE Kind[doc] # "deploy" /\ MorePayload(doc, (part + 1) - 1) /\ ShowPart(part + 1)
        BY <2>1, <2>2, <2>4, <3>3, ShowPartRight
      <3>4. CASE Kind[doc] # "deploy" /\ ~MorePayload(doc, (part + 1) - 1) /\ ShowTail(part + 1)
        BY <2>1, <2>2, <2>4, <3>4, ShowTailRight
      <3>5. QED BY <2>4, <3>1, <3>2, <3>3, <3>4 DEF on_next_part
    <2>5. QED BY <1>4, <2>3, <2>4 DEF SendNext
  <1>5. QED BY <1>1, <1>2, <1>3, <1>4

----------------------------------------------------------------------------
\* The theorem.

LEMMA InitPageInv == Init => PageInv
  BY DEF Init, PageInv, PartInv, BaseInv, MaxInv, FlowInv, SeenInv, GenInv, BusyInv, WaitInv, Live

LEMMA NextPageInv == Inv /\ [Next]_vars => PageInv'
  <1> SUFFICES ASSUME Inv, [Next]_vars PROVE PageInv'
    OBVIOUS
  <1>1. CASE Next
    BY <1>1, CommandRight, FindPageRight, PressRight, CloseRight DEF Next
  <1>2. CASE UNCHANGED vars
    <2>1. UNCHANGED <<doc, part, owed, asked, is_first_part, txn_is_complete, screens, text,
                      max_pages, pager, page_to_display, display_page_callback, busy, step,
                      current_state>>
      BY <1>2 DEF vars, hostVars, globalVars, displayVars
    <2>2. PartInv /\ BaseInv /\ MaxInv /\ FlowInv /\ SeenInv /\ GenInv /\ BusyInv /\ WaitInv
      BY DEF Inv, PageInv
    <2>3. Live' = Live /\ Env' = Env
      BY <2>1 DEF Live, Env
    <2>4. PartInv' /\ FlowInv' /\ SeenInv'
      BY <2>1, <2>2 DEF PartInv, FlowInv, SeenInv, Seen
    <2>5. BaseInv' /\ MaxInv'
      BY <2>1, <2>2, <2>3 DEF BaseInv, MaxInv
    <2>6. GenInv' /\ BusyInv' /\ WaitInv'
      BY <2>1, <2>2, <2>3 DEF GenInv, BusyInv, WaitInv
    <2>7. QED BY <2>4, <2>5, <2>6 DEF PageInv
  <1>3. QED BY <1>1, <1>2

LEMMA ReviewPageInv == Spec => [](RInv /\ TypeInv /\ PageInv)
  <1>1. RInv /\ TypeInv /\ PageInv /\ [Next]_vars => PageInv'
    BY NextPageInv DEF Inv
  <1>2. QED BY <1>1, InitPageInv, ReviewTypeInv, PTL DEF Spec

\* Whichever way the user comes to a page, and whatever parts are sent again for
\* it, the device displays that page of the document under its title, for all
\* documents whose text the client and the parser deliver as they should.
THEOREM ReviewShowsItsPages == Spec => []PageIsRight
  <1>1. RInv /\ TypeInv /\ PageInv => PageIsRight
    <2> SUFFICES ASSUME RInv, TypeInv, PageInv, step = "generic"
                 PROVE  /\ pager.shown = PageText(screens, pager.page)
                        /\ pager.title = Least(pager.page, Num(screens))
      BY DEF PageIsRight
    <2>1. doc # NoDoc /\ asked = "none"
      BY DEF RInv, Closed, Asked
    <2>2. screens = doc
      BY <2>1, UnderReview
    <2>3. OnPage(doc, pager)
      BY DEF PageInv, GenInv
    <2>4. QED BY <2>2, <2>3 DEF OnPage
  <1>2. QED BY <1>1, ReviewPageInv, PTL

----------------------------------------------------------------------------
(* The book.                                                               *)

\* The document that the book is open at, and its places.
BookDoc   == IF step = "menu" THEN NoDoc ELSE screens
Places(d) == 1 + PageCount[d] + Finals[d]

\* The place that was left for the page that is awaited.
From(d, cb, want) ==
  CASE cb = "first" -> 0
    [] cb = "last"  -> PageCount[d] + 1
    [] cb = "next"  -> want - 1
    [] cb = "prev"  -> want + 1

BookStep == Book!Next \/ UNCHANGED <<BookDoc, Place>>

\* The place of each step: no page is awaited but at a delimiter.
PlaceIs ==
  /\ step \in {"menu", "review"} => Place = 0
  /\ step = "generic" => Place = pager.page
  /\ step \in {"approve", "back"} => Place = PageCount[screens] + 1
  /\ step = "reject" => Place = PageCount[screens] + 2
  /\ step \in {"anterior", "posterior"} =>
       Place = From(screens, display_page_callback, page_to_display)

LEMMA PlaceOf == FlowInv /\ display_page_callback \in Callbacks => PlaceIs
  <1> SUFFICES ASSUME FlowInv, display_page_callback \in Callbacks PROVE PlaceIs
    OBVIOUS
  <1>1. CASE step \in {"menu", "review"}
    <2>1. display_page_callback = "none"
      BY <1>1 DEF FlowInv
    <2>2. QED BY <1>1, <2>1 DEF PlaceIs, Place
  <1>2. CASE step = "generic"
    <2>1. display_page_callback = "none"
      BY <1>2 DEF FlowInv
    <2>2. QED BY <1>2, <2>1 DEF PlaceIs, Place
  <1>3. CASE step \in {"approve", "back"}
    <2>1. display_page_callback = "none"
      BY <1>3 DEF FlowInv
    <2>2. QED BY <1>3, <2>1 DEF PlaceIs, Place
  <1>4. CASE step = "reject"
    <2>1. display_page_callback = "none"
      BY <1>4 DEF FlowInv
    <2>2. QED BY <1>4, <2>1 DEF PlaceIs, Place
  <1>5. CASE step \in {"anterior", "posterior"}
    <2>1. display_page_callback \in {"first", "prev", "last", "next"}
      BY <1>5 DEF FlowInv, Callbacks
    <2>2. QED BY <1>5, <2>1 DEF PlaceIs, Place, From
  <1>6. QED BY <1>1, <1>2, <1>3, <1>4, <1>5 DEF PlaceIs

\* The numbers of the places.
LEMMA PlacesOf ==
  ASSUME NEW d \in Docs
  PROVE  /\ PageCount[d] \in Nat /\ PageCount[d] >= 1 /\ Num(d) \in Nat /\ Num(d) >= 1
         /\ Num(d) <= PageCount[d] /\ Fixed[d] \in Nat /\ Num(d) = Fixed[d] + 1
         /\ Finals[d] = IF Signing(d) THEN 2 ELSE 1
         /\ Places(d) \in Nat
         /\ Places(d) = PageCount[d] + IF Signing(d) THEN 3 ELSE 2
  <1>1. Fixed[d] \in Nat
    BY DocAssumption
  <1>2. PageCount[d] \in Nat /\ PageCount[d] >= Num(d)
    BY PageCounted
  <1>3. Finals[d] = IF Signing(d) THEN 2 ELSE 1
    BY DEF Finals
  <1>4. QED BY <1>1, <1>2, <1>3 DEF Num, Places

\* Around the ring.
LEMMA Ring ==
  ASSUME NEW n \in Nat, n > 0
  PROVE  /\ \A i \in 0..(n - 1) : i % n = i
         /\ n % n = 0 /\ (-1) % n = n - 1
  OBVIOUS

\* The title of a document that is opened.
LEMMA BookOpens ==
  ASSUME step = "menu", step' = "review", screens' \in Docs, PlaceIs'
  PROVE  BookStep
  <1>1. BookDoc = NoDoc /\ BookDoc' = screens' /\ Place' = 0
    BY DEF BookDoc, PlaceIs
  <1>2. Book!Open(screens')
    BY <1>1 DEF Book!Open, BookDoc
  <1>3. QED BY <1>2 DEF BookStep, Book!Next

\* A move by one place.
LEMMA BookTurns ==
  ASSUME step # "menu", step' # "menu", screens \in Docs, screens' = screens, NEW n \in {1, -1},
         Place' = (Place + n) % Places(screens)
  PROVE  BookStep
  <1>1. screens # NoDoc
    BY DocAssumption
  <1>2. Book!Turn(n)
    BY <1>1 DEF Book!Turn, Book!Places, Places
  <1>3. QED BY <1>2 DEF BookStep, Book!Next

\* A move from one place to the next or to the one before.
LEMMA BookMoves ==
  ASSUME step # "menu", step' # "menu", screens \in Docs, screens' = screens,
         Place \in Nat, Place' \in Nat, Place < Places(screens), Place' < Places(screens),
         Place' = Place + 1 \/ Place' = Place - 1
  PROVE  BookStep
  <1>1. PICK m \in Nat : m = Places(screens)
    BY PlacesOf
  <1>2. m > 0 /\ Place' \in 0..(m - 1)
    BY <1>1
  <1>3. Place' % m = Place'
    BY <1>2, Ring
  <1>4. \E n \in {1, -1} : Place' = (Place + n) % m
    <2>1. Place - 1 = Place + (-1)
      OBVIOUS
    <2>2. QED BY <1>3, <2>1
  <1>5. QED BY <1>1, <1>4, BookTurns

\* Nothing that the book knows of.
LEMMA BookStays ==
  ASSUME step # "menu", step' # "menu", screens' = screens, Place' = Place
  PROVE  BookStep
  BY DEF BookStep, BookDoc

\* The document is closed at one of the final steps.
LEMMA BookCloses ==
  ASSUME step \in {"approve", "reject", "back"}, step' = "menu", screens \in Docs, PlaceIs, PlaceIs'
  PROVE  BookStep
  <1>1. Place > PageCount[screens]
    <2>1. PageCount[screens] \in Nat
      BY PlacesOf
    <2>2. Place = PageCount[screens] + 1 \/ Place = PageCount[screens] + 2
      BY DEF PlaceIs
    <2>3. QED BY <2>1, <2>2
  <1>2. screens # NoDoc /\ Place' = 0
    BY DocAssumption DEF PlaceIs
  <1>3. Book!Close
    BY <1>1, <1>2 DEF Book!Close
  <1>4. QED BY <1>3 DEF BookStep, Book!Next

----------------------------------------------------------------------------
\* Where the pager lands.

\* The page that a callback awaits.
Fits(d, cb, want) ==
  \/ cb = "first" /\ want = 1
  \/ cb = "last"  /\ want = LastPage
  \/ cb = "next"  /\ want \in 2..(PageCount[d] + 1)
  \/ cb = "prev"  /\ want \in 1..(PageCount[d] - 1)

\* The pager has not gone beyond the page that is awaited.
Reached(p, want) == want = LastPage \/ p.page <= want

\* The page that is awaited is the one after or before the place that was left.
LEMMA FitsPlaces ==
  ASSUME NEW d \in Docs, NEW cb, NEW want, Fits(d, cb, want)
  PROVE  /\ cb \in Callbacks /\ cb # "none"
         /\ want = LastPage \/ (want \in Nat /\ want >= 1)
         /\ want \in Nat \cup {LastPage}
         /\ want = LastPage <=> cb = "last"
         /\ From(d, cb, want) \in Nat /\ From(d, cb, want) < Places(d)
         /\ want # LastPage => want = From(d, cb, want) + 1 \/ want = From(d, cb, want) - 1
  <1>1. PageCount[d] \in Nat /\ PageCount[d] >= 1 /\ Places(d) \in Nat /\ Places(d) >= PageCount[d] + 2
    BY PlacesOf
  <1>2. CASE cb = "first" /\ want = 1
    BY <1>1, <1>2 DEF Callbacks, From, LastPage
  <1>3. CASE cb = "last" /\ want = LastPage
    BY <1>1, <1>3 DEF Callbacks, From, LastPage
  <1>4. CASE cb = "next" /\ want \in 2..(PageCount[d] + 1)
    BY <1>1, <1>4 DEF Callbacks, From, LastPage
  <1>5. CASE cb = "prev" /\ want \in 1..(PageCount[d] - 1)
    BY <1>1, <1>5 DEF Callbacks, From, LastPage
  <1>6. QED BY <1>2, <1>3, <1>4, <1>5 DEF Fits

\* parse_next_page goes one page further at most.
LEMMA NextPageNumber ==
  ASSUME NEW e, NEW p, PagerOK(p), NEW q \in parse_next_page(e, p)
  PROVE  q.page = p.page \/ q.page = p.page + 1
  <1>1. p \in PagerSet
    BY DEF PagerOK
  <1>2. CASE AtMaxPages(e, p) /\ ~e.complete
    BY <1>1, <1>2 DEF parse_next_page, PagerSet
  <1>3. CASE ~(AtMaxPages(e, p) /\ ~e.complete)
    <2>1. PICK r \in IF Len(p.parsed) < W THEN parse_page_text(p) ELSE {p} : q = NextPage(e, r)
      BY <1>3 DEF parse_next_page
    <2>2. r \in PagerSet /\ r.page = p.page
      <3>1. CASE r = p
        BY <1>1, <3>1
      <3>2. CASE r \in parse_page_text(p)
        <4>1. PICK n \in 0..(Len(p.input) - p.pos) :
                r = [p EXCEPT !.parsed = p.parsed \o Text(SubSeq(p.input, p.pos + 1, p.pos + n)),
                              !.pos = p.pos + n]
          <5>1. \E n \in 0..(Len(p.input) - p.pos) :
                  /\ r = [p EXCEPT !.parsed = p.parsed \o Text(SubSeq(p.input, p.pos + 1, p.pos + n)),
                                   !.pos = p.pos + n]
                  /\ Len(r.parsed) >= W \/ r.pos = Len(r.input)
            BY <3>2, ParsePageText, Zenon
          <5>2. QED BY <5>1
        <4>2. PagerOK(r)
          BY <3>2, ParsePageText, Zenon
        <4>3. QED BY <1>1, <4>1, <4>2 DEF PagerOK, PagerSet
      <3>3. QED BY <2>1, <3>1, <3>2
    <2>3. \/ q.page = r.page
          \/ q.page = r.page + 1
      BY <2>1, <2>2 DEF NextPage, Emit, PagerSet
    <2>4. QED BY <2>2, <2>3
  <1>4. QED BY <1>2, <1>3

\* The last screen opens at its first page.
LEMMA LastScreenNumber ==
  ASSUME NEW d, NEW k, NEW e, EnvOf(d, k, e), NEW p, PagerOK(p), Starts(d, k, e.text),
         NEW q \in prepare_screen(e, Num(d), p)
  PROVE  /\ q.page \in Nat /\ q.page <= Num(d)
         /\ q.ready => q.page = Num(d)
  <1> DEFINE a == AtScreen(e, Num(d), p)
  <1>1. d \in Docs /\ e.doc = d /\ e.text \in Seq(UnitSet)
    BY DEF EnvOf, Starts
  <1>2. Fixed[d] \in Nat /\ Num(d) = Fixed[d] + 1 /\ Num(d) \in Nat /\ Num(d) >= 1
    BY <1>1, PlacesOf
  <1>3. q \in parse_next_page(e, a)
    BY DEF prepare_screen, AtScreen
  <1>4. PagerOK(a)
    BY <1>1, <1>2, AtScreenType
  <1>5. a.page = Num(d) - 1
    BY DEF AtScreen, PagerOK, PagerSet
  <1> HIDE DEF a
  <1>6. q.page = a.page \/ q.page = a.page + 1
    BY <1>3, <1>4, NextPageNumber
  <1>7. q.ready => q.page >= Num(d)
    BY LastScreenRight DEF Found
  <1>8. QED BY <1>2, <1>5, <1>6, <1>7

\* A page that is shown, or the page that stays awaited.
Lands(d, cb, want) ==
  \/ /\ step' = "generic" /\ want \in 1..Num(d) /\ pager'.page = want
     /\ busy' = FALSE /\ asked' = "none"
  \/ /\ step' \in {"anterior", "posterior"}
     /\ display_page_callback' = cb /\ page_to_display' = want
     /\ Reached(pager', want) /\ asked' \in {"none", "next"}

\* display_proper_page lands on the page that is awaited, or before it.
LEMMA ProperPageLands ==
  ASSUME NEW d, NEW k, NEW e, EnvOf(d, k, e), e.text \in Seq(UnitSet), NEW p, PagerOK(p),
         NEW cb, NEW want, Fits(d, cb, want), Sought(d, k, e, p, want),
         want \notin 1..Num(d) /\ p.page >= Num(d) => Reached(p, want),
         display_proper_page(e, p, cb, want)
  PROVE  Lands(d, cb, want)
  <1>1. d \in Docs /\ e.doc = d
    BY DEF EnvOf
  <1>2. Fixed[d] \in Nat /\ Num(d) = Fixed[d] + 1 /\ Num(d) \in Nat /\ Num(d) >= 1
    BY <1>1, PlacesOf
  <1>3. cb # "none" /\ (want = LastPage \/ (want \in Nat /\ want >= 1))
    BY <1>1, FitsPlaces
  <1>4. CASE want \in 1..Num(d)
    <2>1. PICK q \in prepare_screen(e, want, p) :
               /\ pager' = q
               /\ \/ q.ready /\ Show(cb, TRUE, e)
                  \/ ~q.ready /\ Requested("next", cb, want, e)
      BY <1>1, <1>3, <1>4 DEF display_proper_page
    <2>2. Begins(d, k, e.text)
      BY <1>4 DEF Sought
    <2>3. /\ q.page \in Nat /\ q.page <= want
          /\ q.ready => q.page = want
      <3>1. CASE want \in 1..Fixed[d]
        <4>1. q.page = want
          BY <2>1, <3>1, FixedPageRight
        <4>2. want \in Nat
          BY <1>4
        <4>3. QED BY <4>1, <4>2
      <3>2. CASE want = Num(d)
        BY <2>1, <2>2, <3>2, LastScreenNumber DEF Begins
      <3>3. want \in 1..Fixed[d] \/ want = Num(d)
        BY <1>2, <1>4
      <3>4. QED BY <3>1, <3>2, <3>3
    <2>4. CASE q.ready /\ Show(cb, TRUE, e)
      BY <1>4, <2>1, <2>3, <2>4 DEF Show, Callback, NoReply, Lands
    <2>5. CASE ~q.ready /\ Requested("next", cb, want, e)
      BY <2>1, <2>3, <2>5 DEF Requested, Await, Reply, Delimiter, Lands, Reached
    <2>6. QED BY <2>1, <2>4, <2>5
  <1>5. CASE want \notin 1..Num(d)
    <2>1. PICK q \in IF p.page >= Num(d) THEN {[p EXCEPT !.ready = TRUE]}
                     ELSE IF p.screen < Num(d) THEN prepare_screen(e, Num(d), p)
                     ELSE parse_next_page(e, p) :
               /\ pager' = q
               /\ \/ q.ready /\ Await(cb, want) /\ busy' = TRUE /\ NoReply(e)
                  \/ ~q.ready /\ Requested("next", cb, want, e)
      BY <1>1, <1>3, <1>5 DEF display_proper_page
    <2>2. p.page \in Nat /\ p.screen \in Nat
      BY DEF PagerOK, PagerSet
    <2>3. want = LastPage \/ (want \in Nat /\ want > Num(d))
      BY <1>2, <1>3, <1>5
    <2>4. Reached(q, want)
      <3>1. CASE p.page >= Num(d)
        <4>1. q = [p EXCEPT !.ready = TRUE]
          BY <2>1, <3>1
        <4>2. q.page = p.page
          BY <4>1 DEF PagerOK, PagerSet
        <4>3. QED BY <1>5, <3>1, <4>2 DEF Reached
      <3>2. CASE p.page < Num(d) /\ p.screen < Num(d)
        <4>1. q \in prepare_screen(e, Num(d), p)
          <5>1. ~(p.page >= Num(d))
            BY <1>2, <2>2, <3>2
          <5>2. QED BY <2>1, <3>2, <5>1
        <4>2. Starts(d, k, e.text)
          BY <1>5, <3>2 DEF Sought, Begins
        <4>3. q.page \in Nat /\ q.page <= Num(d)
          BY <4>1, <4>2, LastScreenNumber
        <4>4. QED BY <1>2, <2>3, <4>3 DEF Reached
      <3>3. CASE p.page < Num(d) /\ p.screen >= Num(d)
        <4>1. q \in parse_next_page(e, p)
          <5>1. ~(p.page >= Num(d)) /\ ~(p.screen < Num(d))
            BY <1>2, <2>2, <3>3
          <5>2. QED BY <2>1, <5>1
        <4>2. q.page = p.page \/ q.page = p.page + 1
          BY <4>1, NextPageNumber
        <4>3. QED BY <1>2, <2>2, <2>3, <3>3, <4>2 DEF Reached
      <3>4. QED BY <1>2, <2>2, <3>1, <3>2, <3>3
    <2>5. QED
      BY <2>1, <2>4 DEF Requested, Await, Reply, NoReply, Delimiter, Lands
  <1>6. QED BY <1>4, <1>5

\* The last page of a complete text is the last that is displayed.
LEMMA LastPageOnly ==
  ASSUME NEW d, NEW k, NEW e, EnvOf(d, k, e), NEW p, PagerOK(p),
         OnPage(d, p), p.page >= Num(d), Placed(d, k, e, p), on_last_page(e, p)
  PROVE  p.page = PageCount[d]
  <1>1. /\ d \in Docs /\ k \in 1..Parts(d) /\ e.doc = d /\ MaxOf(d, e.max)
        /\ (e.complete <=> k = Parts(d)) /\ p.page \in Nat /\ p.page <= PageCount[d]
    <2>1. d \in Docs
      BY DEF EnvOf
    <2>2. PageCount[d] \in Nat
      BY <2>1, PlacesOf
    <2>3. QED BY <2>2 DEF EnvOf, OnPage
  <1>2. CASE AtMaxPages(e, p)
    BY <1>1, <1>2, MaximumRight
  <1>3. CASE ~AtMaxPages(e, p)
    <2>1. k = Parts(d) /\ p.parsed = <<>> /\ p.pos >= Len(p.input) /\ Follows(d, k, p)
      BY <1>1, <1>3 DEF on_last_page, Placed
    <2>2. p.pos = Len(p.input)
      <3>1. p.pos \in Nat /\ Len(p.input) \in Nat /\ p.pos <= Len(p.input)
        BY DEF PagerOK, PagerSet
      <3>2. QED BY <2>1, <3>1
    <2>3. SubSeq(Stream[d], Before(d, p.page) + 1, Upto(d, k)) = <<>>
      BY <2>1, <2>2, AllRead DEF Follows
    <2>4. Upto(d, k) = Len(Stream[d]) /\ Stream[d] \in Seq(GlyphSet) /\ Len(Stream[d]) \in Nat
      BY <1>1, <2>1, UptoOrder, StreamType
    <2>5. /\ Fixed[d] \in Nat /\ Num(d) = Fixed[d] + 1 /\ p.page >= Fixed[d]
          /\ PageCount[d] \in Nat /\ PageCount[d] >= Fixed[d]
      <3>1. Fixed[d] \in Nat /\ Num(d) = Fixed[d] + 1 /\ PageCount[d] \in Nat /\ PageCount[d] >= Num(d)
        BY <1>1, PlacesOf, PageCounted
      <3>2. QED BY <1>1, <3>1
    <2>6. /\ Before(d, p.page) \in Nat /\ Before(d, PageCount[d]) \in Nat
          /\ Before(d, p.page + 1) = Before(d, p.page) + W /\ W \in Nat /\ W > 0
      BY <1>1, <2>5, BeforeNext
    <2>7. Len(Stream[d]) <= Before(d, p.page)
      <3>1. PICK b \in Nat : b = Before(d, p.page)
        BY <2>6
      <3>2. PICK n \in Nat : n = Len(Stream[d])
        BY <2>4
      <3> DEFINE l == SubSeq(Stream[d], b + 1, n)
      <3>3. Len(l) = IF b < n THEN n - b ELSE 0
        BY <2>4, <3>2, SliceLength
      <3>4. l = <<>>
        BY <2>3, <2>4, <3>1, <3>2, Zenon
      <3> HIDE DEF l
      <3>5. Len(l) = 0
        BY <3>4
      <3>6. ~(b < n)
        BY <3>3, <3>5
      <3>7. QED BY <3>1, <3>2, <3>6
    <2>8. Before(d, PageCount[d]) < Before(d, p.page) + W
      <3>1. CASE IsCut(d)
        <4>1. PageCount[d] = Num(d) + MaxPages /\ Len(Stream[d]) > (MaxPages + 1) * W
          BY <1>1, <3>1, PageCounted DEF IsCut
        <4>2. MaxPages \in Nat
          BY PageAssumption
        <4>3. PageCount[d] - Fixed[d] = MaxPages + 1
          BY <2>5, <4>1, <4>2
        <4>4. Before(d, PageCount[d]) = (MaxPages + 1) * W
          BY <4>3 DEF Before
        <4>5. QED BY <2>4, <2>6, <2>7, <4>1, <4>4
      <3>2. CASE ~IsCut(d)
        <4>1. Before(d, PageCount[d]) < Len(Stream[d]) + W
          BY <1>1, <3>2, PageCounted
        <4>2. QED BY <2>4, <2>6, <2>7, <4>1
      <3>3. QED BY <3>1, <3>2
    <2>9. PageCount[d] < p.page + 1
      BY <1>1, <2>5, <2>6, <2>8, BeforeLess
    <2>10. QED BY <1>1, <2>5, <2>9
  <1>4. QED BY <1>2, <1>3

----------------------------------------------------------------------------
\* What the place relies on.

\* Without a document the device is at the menu.
HomeInv == doc = NoDoc => step = "menu"

\* A deployment is at the menu until all of it has come, and then has no more
\* parts to ask for.
DeployInv ==
  doc # NoDoc /\ Kind[doc] = "deploy" =>
    IF asked = "none" THEN is_first_part /\ txn_is_complete
    ELSE asked = "next" /\ step = "menu"

\* The page that is awaited is one next to the place that was left, and the pager
\* has not gone beyond it.
FitsInv ==
  step \in {"anterior", "posterior"} =>
    Fits(screens, display_page_callback, page_to_display)

ReachInv ==
  busy \/ (asked = "next" /\ Kind[doc] # "deploy") => Reached(pager, page_to_display)

BookInv == HomeInv /\ DeployInv /\ FitsInv /\ ReachInv

\* Off the menu, the document under review is on the screens.
LEMMA OnScreen ==
  ASSUME Inv, BookInv, step # "menu"
  PROVE  doc \in Docs /\ doc # NoDoc /\ screens = doc /\ Live
  <1>1. doc # NoDoc /\ doc \in Docs
    BY DEF BookInv, HomeInv, Inv, RInv
  <1>2. asked # "none" => Kind[doc] # "deploy"
    BY <1>1 DEF BookInv, DeployInv
  <1>3. screens = doc
    BY <1>1, <1>2 DEF Inv, RInv, Reviewed, Asked
  <1>4. QED BY <1>1, <1>2, <1>3 DEF Live

\* A deployment that is displayed asks for nothing.
LEMMA DeployStays ==
  ASSUME Inv, BookInv, RInv', doc # NoDoc, asked = "none", UNCHANGED <<hostVars, globalVars>>,
         asked' = "first" => ~is_first_part, asked' \in {"none", "first", "next"}
  PROVE  HomeInv' /\ DeployInv'
  <1>1. doc' = doc /\ part' = part /\ UNCHANGED <<is_first_part, txn_is_complete>>
    BY DEF hostVars, globalVars
  <1>2. HomeInv'
    BY <1>1 DEF HomeInv
  <1>3. ASSUME Kind[doc] = "deploy" PROVE is_first_part' /\ txn_is_complete' /\ asked' = "none"
    <2>1. is_first_part /\ txn_is_complete
      BY <1>3 DEF BookInv, DeployInv
    <2>2. part = Parts(doc) /\ Parts(doc) \in Nat
      <3>1. doc \in Docs
        BY DEF Inv, RInv
      <3>2. QED BY <2>1, <3>1, DocAssumption DEF Inv, PageInv, PartInv, Parts
    <2>3. asked' # "next"
      <3>1. ASSUME asked' = "next" PROVE part < Parts(doc)
        BY <1>1, <3>1 DEF RInv, Asked
      <3>2. QED BY <2>2, <3>1
    <2>4. QED BY <1>1, <2>1, <2>3
  <1>4. DeployInv'
    BY <1>1, <1>3 DEF DeployInv
  <1>5. QED BY <1>2, <1>4

\* At the menu nothing is open.
LEMMA MenuStays ==
  ASSUME step = "menu", step' = "menu", PlaceIs, PlaceIs'
  PROVE  BookStep
  BY DEF BookStep, BookDoc, PlaceIs

\* Off the delimiters nothing is awaited.
LEMMA Settles ==
  ASSUME step' \notin {"anterior", "posterior"}, busy' = FALSE, asked' = "none"
  PROVE  FitsInv' /\ ReachInv'
  BY DEF FitsInv, ReachInv

\* A page that is awaited at a delimiter is one place further when it is shown.
LEMMA LandsBook ==
  ASSUME NEW d \in Docs, NEW cb, NEW want, Fits(d, cb, want), Lands(d, cb, want),
         step # "menu", screens = d, screens' = d, Place = From(d, cb, want), PlaceIs'
  PROVE  BookStep /\ FitsInv' /\ ReachInv'
  <1>1. /\ From(d, cb, want) \in Nat /\ From(d, cb, want) < Places(d)
        /\ want # LastPage => want = From(d, cb, want) + 1 \/ want = From(d, cb, want) - 1
    BY FitsPlaces
  <1>2. /\ PageCount[d] \in Nat /\ Num(d) \in Nat /\ Num(d) <= PageCount[d]
        /\ Places(d) \in Nat /\ Places(d) >= PageCount[d] + 2
    BY PlacesOf
  <1>3. CASE step' = "generic" /\ want \in 1..Num(d) /\ pager'.page = want
             /\ busy' = FALSE /\ asked' = "none"
    <2>1. Place' = want /\ want # LastPage /\ want \in Nat /\ want < Places(d)
      <3>1. Place' = pager'.page
        BY <1>3 DEF PlaceIs
      <3>2. want # LastPage /\ want \in Nat /\ want < Places(d)
        BY <1>2, <1>3 DEF LastPage
      <3>3. QED BY <1>3, <3>1, <3>2
    <2>2. BookStep
      BY <1>1, <1>3, <2>1, BookMoves
    <2>3. QED BY <1>3, <2>2, Settles
  <1>4. CASE /\ step' \in {"anterior", "posterior"}
             /\ display_page_callback' = cb /\ page_to_display' = want
             /\ Reached(pager', want)
    <2>1. Place' = From(screens', display_page_callback', page_to_display')
      BY <1>4 DEF PlaceIs
    <2>2. Place' = Place
      BY <1>4, <2>1
    <2>3. BookStep
      BY <1>4, <2>2, BookStays
    <2>4. FitsInv' /\ ReachInv'
      BY <1>4 DEF FitsInv, ReachInv
    <2>5. QED BY <2>3, <2>4
  <1>5. QED BY <1>3, <1>4 DEF Lands

----------------------------------------------------------------------------
\* The commands.

\* A command at the menu opens the document at its title.
LEMMA OpenBook ==
  ASSUME Inv, step = "menu", NEW d \in Docs, NEW us, NEW max, NEW complete,
         NEW cb \in {"none", display_page_callback}, NEW want, NEW n,
         ShowScreens(d, us, max, complete, cb, want, n), PlaceIs'
  PROVE  BookStep /\ FitsInv' /\ ReachInv' /\ asked' = "none" /\ txn_is_complete' = complete
  <1>1. cb = "none"
    BY DEF Inv, PageInv, FlowInv
  <1>2. /\ step' = "review" /\ busy' = FALSE /\ asked' = "none" /\ screens' = d
        /\ txn_is_complete' = complete
    BY <1>1 DEF ShowScreens, display_proper_page, start_display, NoReply
  <1>3. BookStep
    BY <1>2, BookOpens
  <1>4. QED BY <1>2, <1>3, Settles

\* A part that was asked for shows the page that is awaited, or goes on with it.
LEMMA ResumeBook ==
  ASSUME Inv, BookInv, PlaceIs, PlaceIs', screens \in Docs, screens' = screens,
         step \in {"menu", "anterior", "posterior"},
         NEW k, NEW e, EnvOf(screens, k, e), e.text \in Seq(UnitSet), NEW p, PagerOK(p),
         Sought(screens, k, e, p, page_to_display),
         page_to_display \notin 1..Num(screens) /\ p.page >= Num(screens) =>
           Reached(p, page_to_display),
         display_proper_page(e, p, display_page_callback, page_to_display)
  PROVE  BookStep /\ FitsInv' /\ ReachInv'
  <1>1. CASE step = "menu"
    <2>1. display_page_callback = "none"
      BY <1>1 DEF Inv, PageInv, FlowInv
    <2>2. step' = "review" /\ busy' = FALSE /\ asked' = "none"
      BY <2>1 DEF display_proper_page, start_display, NoReply
    <2>3. BookStep
      BY <1>1, <2>2, BookOpens
    <2>4. QED BY <2>2, <2>3, Settles
  <1>2. CASE step \in {"anterior", "posterior"}
    <2>1. Fits(screens, display_page_callback, page_to_display)
      BY <1>2 DEF BookInv, FitsInv
    <2>2. Place = From(screens, display_page_callback, page_to_display)
      BY <1>2 DEF PlaceIs
    <2>3. Lands(screens, display_page_callback, page_to_display)
      BY <2>1, ProperPageLands
    <2>4. QED BY <1>2, <2>1, <2>2, <2>3, LandsBook
  <1>3. QED BY <1>1, <1>2

\* The first part, sent again, shows the page that is awaited.
LEMMA AgainBook ==
  ASSUME Inv, BookInv, PlaceIs, PlaceIs', screens \in Docs,
         step \in {"menu", "anterior", "posterior"},
         NEW k \in 1..Parts(screens), NEW us, Begins(screens, k, us), NEW max, MaxOf(screens, max),
         NEW complete, complete <=> k = Parts(screens), NEW n,
         ShowScreens(screens, us, max, complete, display_page_callback, page_to_display, n)
  PROVE  BookStep /\ FitsInv' /\ ReachInv'
  <1> DEFINE d == screens
             e == [doc |-> d, complete |-> complete, max |-> max, text |-> us, owed |-> owed + n]
             p == Cleared(pager)
  <1>1. PagerOK(pager) /\ pager \in PagerSet
    BY DEF Inv, TypeInv, PagerOK
  <1>2. /\ e.doc = d /\ e.complete = complete /\ e.max = max /\ e.text = us
    OBVIOUS
  <1>3. display_proper_page(e, p, display_page_callback, page_to_display) /\ screens' = screens
    BY DEF ShowScreens
  <1>4. PagerOK(p)
    BY <1>1, MovedType
  <1>5. p.page = 0 /\ p.screen = 0
    BY <1>1 DEF Cleared, PagerSet
  <1> HIDE DEF e, p
  <1>6. EnvOf(d, k, e)
    BY <1>2 DEF EnvOf
  <1>7. Begins(d, k, e.text) /\ e.text \in Seq(UnitSet)
    BY <1>2 DEF Begins, Starts
  <1>8. ~(p.page >= Num(d)) /\ ~(p.screen >= Num(d))
    BY <1>5, PlacesOf
  <1>9. Sought(d, k, e, p, page_to_display)
    BY <1>7, <1>8 DEF Sought
  <1>10. QED BY <1>3, <1>4, <1>6, <1>7, <1>8, <1>9, ResumeBook

\* What follows of the invariant from the document that the client then reviews.
LEMMA NewDoc ==
  ASSUME doc' # NoDoc,
         Kind[doc'] = "deploy" =>
           IF asked' = "none" THEN is_first_part' /\ txn_is_complete'
           ELSE asked' = "next" /\ step' = "menu",
         FitsInv', ReachInv'
  PROVE  BookInv'
  BY DEF BookInv, HomeInv, DeployInv

\* A deployment that is not complete stays at the menu.
LEMMA AwaitDeployBook ==
  ASSUME Inv, step = "menu", PlaceIs, PlaceIs', NEW d \in Docs, Kind[d] = "deploy", NEW p,
         doc' = d, AwaitDeploy(d, p)
  PROVE  BookStep /\ BookInv'
  <1>1. asked' = "next" /\ step' = "menu" /\ busy' = busy
    BY DEF AwaitDeploy
  <1>2. ~busy
    BY DEF Inv, PageInv, FlowInv
  <1>3. BookStep
    BY <1>1, MenuStays
  <1>4. FitsInv' /\ ReachInv' /\ doc' # NoDoc
    BY <1>1, <1>2, DocAssumption DEF FitsInv, ReachInv
  <1>5. QED BY <1>1, <1>3, <1>4, NewDoc

\* So does the device when a part is refused.
LEMMA RefuseBook ==
  ASSUME Inv, step = "menu", PlaceIs, PlaceIs', NEW first, Refuse(first)
  PROVE  BookStep /\ BookInv'
  <1>1. doc' = NoDoc /\ asked' = "none" /\ step' = "menu" /\ busy' = busy
    BY DEF Refuse
  <1>2. ~busy
    BY DEF Inv, PageInv, FlowInv
  <1>3. BookStep
    BY <1>1, MenuStays
  <1>4. QED BY <1>1, <1>2, <1>3 DEF BookInv, HomeInv, DeployInv, FitsInv, ReachInv

\* A document is opened when no other is under review.
LEMMA SendTxnBook ==
  ASSUME Inv, BookInv, PlaceIs, PlaceIs', NEW d \in Docs, SendTxn(d)
  PROVE  BookStep /\ BookInv'
  <1>1. doc = NoDoc /\ step = "menu"
    BY DEF SendTxn, Opens, BookInv, HomeInv
  <1>2. CASE Refuse(TRUE)
    BY <1>1, <1>2, RefuseBook
  <1>3. CASE doc' = d /\ (Kind[d] = "deploy" => Parts(d) = 1) /\ display_transaction(d, 1)
             /\ is_first_part' = TRUE
    <2>1. ShowScreens(d, PartUnits(d, 1), IF Long[d] THEN MaxPages ELSE 0, 1 = Parts(d),
                      display_page_callback, page_to_display, 1)
      BY <1>3 DEF display_transaction
    <2>2. /\ BookStep /\ FitsInv' /\ ReachInv' /\ asked' = "none"
          /\ txn_is_complete' = (1 = Parts(d))
      BY <1>1, <2>1, OpenBook
    <2>3. doc' # NoDoc
      BY <1>3, DocAssumption
    <2>4. QED BY <1>3, <2>2, <2>3, NewDoc
  <1>4. CASE doc' = d /\ Kind[d] = "deploy" /\ AwaitDeploy(d, 1)
    BY <1>1, <1>4, AwaitDeployBook
  <1>5. QED BY <1>2, <1>3, <1>4 DEF SendTxn, Opens, on_first_part

LEMMA WholeBook ==
  ASSUME Inv, BookInv, PlaceIs, PlaceIs', NEW d \in Docs, on_new_message(d) \/ on_display_account(d)
  PROVE  BookStep /\ BookInv'
  <1>1. /\ Kind[d] # "deploy" /\ doc = NoDoc /\ doc' = d /\ step = "menu" /\ d # NoDoc
    BY DocAssumption DEF on_new_message, on_display_account, Opens, BookInv, HomeInv
  <1>2. PICK cb \in {"none", display_page_callback} : \E want, n :
          ShowScreens(d, Units(d), max_pages, TRUE, cb, want, n)
    BY DEF on_new_message, on_display_account
  <1>3. BookStep /\ FitsInv' /\ ReachInv'
    BY <1>1, <1>2, OpenBook
  <1>4. QED BY <1>1, <1>3, NewDoc

\* The first part is asked for again only of what is displayed.
LEMMA SendFirstBook ==
  ASSUME Inv, BookInv, PlaceIs, PlaceIs', SendFirst
  PROVE  BookStep /\ BookInv'
  <1>1. /\ asked = "first" /\ doc \in Docs /\ doc # NoDoc /\ IsTxn(doc) /\ doc' = doc
        /\ step \in {"menu", "anterior", "posterior"} /\ on_first_part(doc)
    BY DEF SendFirst, Inv, RInv, Asked
  <1>2. Kind[doc] # "deploy"
    BY <1>1 DEF BookInv, DeployInv
  <1>3. screens = doc
    BY <1>1, <1>2 DEF Inv, RInv, Asked
  <1>4. ShowScreens(doc, PartUnits(doc, 1), IF Long[doc] THEN MaxPages ELSE 0, 1 = Parts(doc),
                    display_page_callback, page_to_display, 1)
    BY <1>1, <1>2 DEF on_first_part, display_transaction
  <1>5. /\ Begins(doc, 1, PartUnits(doc, 1)) /\ MaxOf(doc, IF Long[doc] THEN MaxPages ELSE 0)
        /\ 1 \in 1..Parts(doc)
    <2>1. 1 \in 1..Parts(doc)
      BY <1>1, DocAssumption DEF Parts
    <2>2. QED BY <1>1, <1>2, <2>1, FirstBegins, TxnMaximum
  <1>6. (1 = Parts(doc)) <=> 1 = Parts(doc)
    OBVIOUS
  <1>7. BookStep /\ FitsInv' /\ ReachInv'
    BY <1>1, <1>3, <1>4, <1>5, <1>6, AgainBook
  <1>8. QED BY <1>1, <1>2, <1>7, NewDoc

\* The next part of what is displayed shows what is awaited.
LEMMA NextPartBook ==
  ASSUME Inv, BookInv, PlaceIs, PlaceIs', asked = "next", Kind[doc] # "deploy",
         NEW p, Resumes(p), doc' = doc, screens' = screens
  PROVE  BookStep /\ BookInv'
  <1>1. doc \in Docs /\ doc # NoDoc /\ screens = doc /\ step \in {"menu", "anterior", "posterior"}
    BY DEF Inv, RInv, Asked
  <1>2. Reached(pager, page_to_display)
    BY DEF BookInv, ReachInv
  <1>3. PICK e : \E q :
          /\ EnvOf(doc, p, e) /\ e.text \in Seq(UnitSet)
          /\ PagerOK(q) /\ q.page = pager.page
          /\ Sought(doc, p, e, q, page_to_display)
          /\ display_proper_page(e, q, display_page_callback, page_to_display)
    BY DEF Resumes
  <1>4. PICK q :
          /\ EnvOf(doc, p, e) /\ e.text \in Seq(UnitSet)
          /\ PagerOK(q) /\ q.page = pager.page
          /\ Sought(doc, p, e, q, page_to_display)
          /\ display_proper_page(e, q, display_page_callback, page_to_display)
    BY <1>3
  <1>5. Reached(q, page_to_display)
    BY <1>2, <1>4 DEF Reached
  <1>6. BookStep /\ FitsInv' /\ ReachInv'
    BY <1>1, <1>4, <1>5, ResumeBook
  <1>7. QED BY <1>1, <1>6, NewDoc

\* Only a deployment, which is at the menu then, is refused later.
LEMMA SendNextBook ==
  ASSUME Inv, BookInv, PlaceIs, PlaceIs', SendNext
  PROVE  BookStep /\ BookInv'
  <1>1. doc \in Docs /\ IsTxn(doc) /\ doc # NoDoc /\ asked = "next" /\ part < Parts(doc)
    BY DEF SendNext, Inv, RInv, Asked
  <1>2. part + 1 \in 1..Parts(doc) /\ (part + 1) - 1 = part /\ part + 1 > 1
    <2>1. part \in 1..Parts(doc) /\ Parts(doc) \in Nat
      BY <1>1, DocAssumption DEF Inv, PageInv, PartInv, Parts
    <2>2. QED BY <1>1, <2>1
  <1>3. Kind[doc] = "deploy" => step = "menu"
    BY <1>1 DEF BookInv, DeployInv
  <1>4. CASE Bad[doc] = part + 1 /\ Refuse(FALSE)
    <2>1. Kind[doc] = "deploy"
      BY <1>1, <1>2, <1>4, RefusalAssumption
    <2>2. QED BY <1>3, <1>4, <2>1, RefuseBook
  <1>5. CASE part' = part + 1 /\ UNCHANGED doc /\ on_next_part(part + 1)
    <2>1. CASE /\ Kind[doc] = "deploy" /\ part + 1 = Parts(doc)
               /\ is_first_part' = TRUE /\ display_transaction(doc, part + 1)
      <3>1. ShowScreens(doc, PartUnits(doc, Parts(doc)), IF Long[doc] THEN MaxPages ELSE 0,
                        Parts(doc) = Parts(doc), display_page_callback, page_to_display, 1)
        BY <2>1 DEF display_transaction
      <3>2. /\ BookStep /\ FitsInv' /\ ReachInv' /\ asked' = "none"
            /\ txn_is_complete' = (Parts(doc) = Parts(doc))
        BY <1>1, <1>3, <2>1, <3>1, OpenBook
      <3>3. doc' # NoDoc /\ txn_is_complete'
        BY <1>1, <1>5, <3>2
      <3>4. QED BY <2>1, <3>2, <3>3, NewDoc
    <2>2. CASE Kind[doc] = "deploy" /\ AwaitDeploy(doc, part + 1)
      BY <1>1, <1>3, <1>5, <2>2, AwaitDeployBook
    <2>3. CASE Kind[doc] # "deploy" /\ MorePayload(doc, (part + 1) - 1) /\ ShowPart(part + 1)
      <3>1. Resumes(part + 1)
        BY <1>1, <1>2, <1>5, <2>3, ShowPartRight
      <3>2. screens' = screens
        BY <2>3 DEF ShowPart
      <3>3. QED BY <1>1, <1>5, <2>3, <3>1, <3>2, NextPartBook
    <2>4. CASE Kind[doc] # "deploy" /\ ~MorePayload(doc, (part + 1) - 1) /\ ShowTail(part + 1)
      <3>1. Resumes(part + 1)
        BY <1>1, <1>2, <1>5, <2>4, ShowTailRight
      <3>2. screens' = screens
        BY <2>4 DEF ShowTail
      <3>3. QED BY <1>1, <1>5, <2>4, <3>1, <3>2, NextPartBook
    <2>5. QED BY <1>5, <2>1, <2>2, <2>3, <2>4 DEF on_next_part
  <1>6. QED BY <1>4, <1>5 DEF SendNext

----------------------------------------------------------------------------
\* The search for a page, and the buttons.

LEMMA FindPageBook ==
  ASSUME Inv, RInv', BookInv, PlaceIs, PlaceIs', FindPage
  PROVE  BookStep /\ BookInv'
  <1> DEFINE cb   == display_page_callback
             want == page_to_display
  <1>1. /\ busy /\ step \in {"anterior", "posterior"} /\ step # "menu" /\ asked = "none"
        /\ UNCHANGED <<hostVars, globalVars>> /\ screens' = screens
    BY DEF FindPage, globalVars, Inv, RInv, Asked, PageInv, FlowInv
  <1>2. doc \in Docs /\ doc # NoDoc /\ screens = doc
    BY <1>1, OnScreen
  <1>3. EnvOf(doc, part, Env) /\ Env.doc = doc
    BY <1>1, <1>2, NowEnv
  <1>4. /\ OnPage(doc, pager) /\ pager.page >= Num(doc) /\ Placed(doc, part, Env, pager)
        /\ PagerOK(pager)
    BY <1>1 DEF Inv, TypeInv, PageInv, BusyInv, Searches
  <1>5. /\ Fits(doc, cb, want) /\ Reached(pager, want) /\ Place = From(doc, cb, want)
    BY <1>1, <1>2 DEF BookInv, FitsInv, ReachInv, PlaceIs
  <1>6. /\ PageCount[doc] \in Nat /\ Places(doc) \in Nat /\ Places(doc) >= PageCount[doc] + 2
        /\ pager.page \in Nat /\ pager.page <= PageCount[doc]
    BY <1>2, <1>4, PlacesOf DEF OnPage
  <1>7. /\ From(doc, cb, want) \in Nat /\ From(doc, cb, want) < Places(doc)
        /\ want \in Nat \cup {LastPage} /\ (want = LastPage <=> cb = "last")
        /\ want # LastPage => want = From(doc, cb, want) + 1 \/ want = From(doc, cb, want) - 1
    BY <1>2, <1>5, FitsPlaces
  <1>8. CASE pager.page = want /\ Show(cb, TRUE, Env) /\ UNCHANGED pager
    <2>1. step' = "generic" /\ busy' = FALSE /\ asked' = "none"
      BY <1>8 DEF Show, Callback, NoReply
    <2>2. Place' = want /\ want # LastPage /\ want \in Nat
      <3>1. Place' = pager.page
        BY <1>8, <2>1 DEF PlaceIs
      <3>2. QED BY <1>6, <1>8, <3>1 DEF LastPage
    <2>3. BookStep
      BY <1>1, <1>2, <1>5, <1>6, <1>7, <1>8, <2>1, <2>2, BookMoves
    <2>4. FitsInv' /\ ReachInv'
      BY <2>1, Settles
    <2>5. HomeInv' /\ DeployInv'
      BY <1>1, <1>2, <2>1, DeployStays
    <2>6. QED BY <2>3, <2>4, <2>5 DEF BookInv
  <1>9. CASE /\ pager.page # want /\ on_last_page(Env, pager)
             /\ Show(cb, want = LastPage, Env) /\ UNCHANGED pager
    <2>1. pager.page = PageCount[doc]
      BY <1>3, <1>4, <1>9, LastPageOnly
    <2>2. /\ step' = IF want = LastPage THEN "generic"
                     ELSE IF Delimiter(cb) = "anterior" THEN "review" ELSE AfterPages(doc)
          /\ busy' = FALSE /\ asked' = "none"
      BY <1>3, <1>9 DEF Show, Callback, NoReply
    <2>3. step' \notin {"anterior", "posterior", "menu"}
      BY <2>2 DEF AfterPages
    <2>4. Place' \in Nat /\ Place' < Places(doc) /\ (Place' = Place + 1 \/ Place' = Place - 1)
      <3>1. CASE want = LastPage
        <4>1. Place' = PageCount[doc]
          BY <1>9, <2>1, <2>2, <3>1 DEF PlaceIs
        <4>2. Place = PageCount[doc] + 1
          BY <1>5, <1>7, <3>1 DEF From
        <4>3. QED BY <1>6, <4>1, <4>2
      <3>2. CASE want # LastPage
        <4>1. want > PageCount[doc] /\ want \in Nat
          BY <1>5, <1>6, <1>7, <1>9, <2>1, <3>2 DEF Reached
        <4>2. cb = "next" /\ want = PageCount[doc] + 1
          <5>1. PageCount[doc] >= 1
            BY <1>2, PlacesOf
          <5>2. QED BY <1>5, <1>6, <3>2, <4>1, <5>1 DEF Fits
        <4>3. step' \in {"approve", "back"}
          BY <2>2, <3>2, <4>2 DEF Delimiter, AfterPages
        <4>4. Place' = PageCount[doc] + 1
          BY <1>1, <1>2, <4>3 DEF PlaceIs
        <4>5. Place = PageCount[doc]
          <5>1. From(doc, cb, want) = want - 1
            BY <4>2 DEF From
          <5>2. QED BY <1>5, <1>6, <4>2, <5>1
        <4>6. QED BY <1>6, <4>4, <4>5
      <3>3. QED BY <3>1, <3>2
    <2>5. BookStep
      BY <1>1, <1>2, <1>5, <1>7, <2>3, <2>4, BookMoves
    <2>6. FitsInv' /\ ReachInv'
      BY <2>2, <2>3, Settles
    <2>7. HomeInv' /\ DeployInv'
      BY <1>1, <1>2, <2>2, DeployStays
    <2>8. QED BY <2>5, <2>6, <2>7 DEF BookInv
  <1>10. CASE /\ pager.page # want
              /\ \E q \in parse_next_page(Env, pager) :
                   /\ pager' = q
                   /\ \/ /\ q.ready
                         /\ UNCHANGED <<owed, asked, page_to_display, display_page_callback,
                                        busy, step, current_state>>
                      \/ /\ ~q.ready
                         /\ Requested("next", cb, want, Env)
    <2>1. PICK q \in parse_next_page(Env, pager) :
                   /\ pager' = q
                   /\ \/ /\ q.ready
                         /\ UNCHANGED <<owed, asked, page_to_display, display_page_callback,
                                        busy, step, current_state>>
                      \/ /\ ~q.ready
                         /\ Requested("next", cb, want, Env)
      BY <1>10
    <2>2. q.page = pager.page \/ q.page = pager.page + 1
      BY <1>4, NextPageNumber
    <2>3. Reached(q, want)
      <3>1. want # LastPage => want \in Nat /\ pager.page < want
        BY <1>5, <1>6, <1>7, <1>10 DEF Reached
      <3>2. QED BY <1>6, <2>2, <3>1 DEF Reached
    <2>4. /\ step' \in {"anterior", "posterior"} /\ asked' \in {"none", "next"}
          /\ display_page_callback' = cb /\ page_to_display' = want
      BY <1>1, <2>1 DEF Requested, Await, Reply, Delimiter
    <2>5. Lands(doc, cb, want)
      BY <2>1, <2>3, <2>4 DEF Lands
    <2>6. BookStep /\ FitsInv' /\ ReachInv'
      BY <1>1, <1>2, <1>5, <2>5, LandsBook
    <2>7. HomeInv' /\ DeployInv'
      BY <1>1, <1>2, <2>4, DeployStays
    <2>8. QED BY <2>6, <2>7 DEF BookInv
  <1>11. QED BY <1>8, <1>9, <1>10 DEF FindPage

\* A press at a delimiter asks for the page next to the place.
LEMMA PressFits ==
  ASSUME Inv, PlaceIs, doc # NoDoc, asked = "none", screens = doc, NEW m \in Moves,
         m = "first" => step = "review", m = "last" => step \in {"approve", "back"},
         m \in {"next", "prev"} => step = "generic"
  PROVE  /\ doc \in Docs
         /\ Place = From(doc, m, Wanted(m))
         /\ ~(m = "prev" /\ Wanted(m) < 1) => Fits(doc, m, Wanted(m))
         /\ m = "prev" /\ Wanted(m) < 1 => Place = 1
         /\ m = "next" => Wanted(m) = pager.page + 1 /\ PagerFor(m).page = pager.page
  <1>1. doc \in Docs /\ PagerOK(pager) /\ pager \in PagerSet
    BY DEF Inv, RInv, TypeInv, PagerOK
  <1>2. PageCount[doc] \in Nat /\ PageCount[doc] >= 1
    BY <1>1, PlacesOf
  <1>3. CASE m = "first"
    <2>1. Wanted(m) = 1 /\ Place = 0
      BY <1>3 DEF Wanted, PlaceIs
    <2>2. QED BY <1>1, <1>3, <2>1 DEF From, Fits
  <1>4. CASE m = "last"
    <2>1. Wanted(m) = LastPage /\ Place = PageCount[doc] + 1
      BY <1>4 DEF Wanted, PlaceIs
    <2>2. QED BY <1>1, <1>4, <2>1 DEF From, Fits
  <1>5. CASE m \in {"next", "prev"}
    <2>1. Place = pager.page /\ OnPage(doc, pager)
      BY <1>5 DEF PlaceIs, Inv, PageInv, GenInv
    <2>2. pager.page \in Nat /\ pager.page >= 1 /\ pager.page <= PageCount[doc]
      BY <1>2, <2>1 DEF OnPage
    <2>3. pager.page # 0
      BY <2>2
    <2>4. PageNow = pager.page
      BY <2>3 DEF PageNow
    <2>5. CASE m = "next"
      <3>1. Wanted(m) = pager.page + 1
        BY <2>4, <2>5 DEF Wanted
      <3>2. From(doc, m, Wanted(m)) = Wanted(m) - 1
        BY <2>5 DEF From
      <3>3. PagerFor(m).page = pager.page
        BY <1>1, <2>4, <2>5 DEF PagerFor, PagerNow, PagerSet
      <3>4. Fits(doc, m, Wanted(m))
        BY <1>2, <2>2, <2>5, <3>1 DEF Fits
      <3>5. QED BY <1>1, <2>1, <2>2, <2>5, <3>1, <3>2, <3>3, <3>4
    <2>6. CASE m = "prev"
      <3>1. Wanted(m) = pager.page - 1
        BY <2>4, <2>6 DEF Wanted
      <3>2. From(doc, m, Wanted(m)) = Wanted(m) + 1
        BY <2>6 DEF From
      <3>3. ~(Wanted(m) < 1) => Fits(doc, m, Wanted(m))
        BY <1>2, <2>2, <2>6, <3>1 DEF Fits
      <3>4. Wanted(m) < 1 => Place = 1
        BY <2>1, <2>2, <3>1
      <3>5. QED BY <1>1, <2>1, <2>2, <2>6, <3>1, <3>2, <3>3, <3>4
    <2>7. QED BY <1>5, <2>5, <2>6
  <1>6. QED BY <1>3, <1>4, <1>5 DEF Moves

\* The press moves by one place at once, or stays until the page is there.
LEMMA GetNextDataBook ==
  ASSUME Inv, RInv', BookInv, PlaceIs, PlaceIs', doc # NoDoc, asked = "none", ~busy,
         step # "menu", NEW m \in Moves,
         m = "first" => step = "review", m = "last" => step \in {"approve", "back"},
         m \in {"next", "prev"} => step = "generic",
         get_next_data(m), UNCHANGED <<hostVars, globalVars>>
  PROVE  BookStep /\ BookInv'
  <1>1. doc \in Docs /\ screens = doc /\ screens' = screens
    BY OnScreen DEF globalVars
  <1>2. /\ Place = From(doc, m, Wanted(m))
        /\ ~(m = "prev" /\ Wanted(m) < 1) => Fits(doc, m, Wanted(m))
        /\ m = "prev" /\ Wanted(m) < 1 => Place = 1
        /\ m = "next" => Wanted(m) = pager.page + 1 /\ PagerFor(m).page = pager.page
    BY <1>1, PressFits
  <1>3. PagerOK(pager) /\ pager \in PagerSet /\ pager.page \in Nat
    BY DEF Inv, TypeInv, PagerOK, PagerSet
  <1>4. CASE /\ m = "prev" /\ Wanted(m) < 1 /\ Show(m, FALSE, Env)
    <2>1. step' = "review" /\ busy' = FALSE /\ asked' = "none"
      BY <1>4 DEF Show, Callback, NoReply, Delimiter
    <2>2. Place' = 0 /\ Place = 1
      BY <1>2, <1>4, <2>1 DEF PlaceIs
    <2>3. Places(doc) \in Nat /\ Places(doc) > 1
      BY <1>1, PlacesOf
    <2>4. BookStep
      BY <1>1, <2>1, <2>2, <2>3, BookMoves
    <2>5. FitsInv' /\ ReachInv'
      BY <2>1, Settles
    <2>6. HomeInv' /\ DeployInv'
      BY <2>1, DeployStays
    <2>7. QED BY <2>4, <2>5, <2>6 DEF BookInv
  <1>5. CASE /\ ~(m = "prev" /\ Wanted(m) < 1) /\ Gone(m)
             /\ Requested("first", m, Wanted(m), Env)
    <2>1. /\ step' \in {"anterior", "posterior"} /\ busy' = FALSE /\ asked' = "first"
          /\ display_page_callback' = m /\ page_to_display' = Wanted(m)
      BY <1>5 DEF Requested, Await, Reply, Delimiter
    <2>2. Place' = From(doc, m, Wanted(m))
      BY <1>1, <2>1 DEF PlaceIs
    <2>3. BookStep
      BY <1>1, <1>2, <2>1, <2>2, BookStays
    <2>4. FitsInv' /\ ReachInv'
      BY <1>1, <1>2, <1>5, <2>1 DEF FitsInv, ReachInv
    <2>5. HomeInv' /\ DeployInv'
      BY <1>5, <2>1, DeployStays DEF Gone
    <2>6. QED BY <2>3, <2>4, <2>5 DEF BookInv
  <1>6. CASE /\ ~(m = "prev" /\ Wanted(m) < 1) /\ ~Gone(m)
             /\ display_proper_page(Env, PagerFor(m), m, Wanted(m))
    <2>1. EnvOf(doc, part, Env) /\ Env.text \in Seq(UnitSet)
      BY NowEnv
    <2>2. PagerOK(PagerFor(m))
      BY <1>3, NowType
    <2>3. Sought(doc, part, Env, PagerFor(m), Wanted(m))
      BY <1>6, NextDataSought
    <2>4. Wanted(m) \notin 1..Num(doc) /\ PagerFor(m).page >= Num(doc) => Reached(PagerFor(m), Wanted(m))
      <3>1. CASE m = "first"
        <4>1. Wanted(m) \in 1..Num(doc)
          BY <1>1, <3>1, PlacesOf DEF Wanted
        <4>2. QED BY <4>1
      <3>2. CASE m = "last"
        BY <3>2 DEF Wanted, Reached
      <3>3. CASE m = "next"
        BY <1>2, <1>3, <3>3 DEF Reached
      <3>4. CASE m = "prev"
        <4>1. PagerNow \in PagerSet
          BY <1>3, NowType DEF PagerOK
        <4>2. PagerFor(m).page = 0
          BY <3>4, <4>1 DEF PagerFor, PagerSet
        <4>3. ~(0 >= Num(doc))
          BY <1>1, PlacesOf
        <4>4. QED BY <4>2, <4>3
      <3>5. QED BY <3>1, <3>2, <3>3, <3>4 DEF Moves
    <2>5. Lands(doc, m, Wanted(m))
      BY <1>2, <1>6, <2>1, <2>2, <2>3, <2>4, ProperPageLands
    <2>6. BookStep /\ FitsInv' /\ ReachInv'
      BY <1>1, <1>2, <1>6, <2>5, LandsBook
    <2>7. asked' \in {"none", "next"}
      BY <2>5 DEF Lands
    <2>8. HomeInv' /\ DeployInv'
      BY <2>7, DeployStays
    <2>9. QED BY <2>6, <2>8 DEF BookInv
  <1>7. QED BY <1>4, <1>5, <1>6, NextDataCases

\* A press at a step that has a screen of its own.
LEMMA StepBook ==
  ASSUME Inv, RInv', BookInv, PlaceIs, PlaceIs', doc # NoDoc, asked = "none", ~busy,
         UNCHANGED <<hostVars, globalVars>>, NEW s, Step(s),
         \/ step = "review" /\ s = FinalStep(screens)
         \/ step = "approve" /\ s = "reject"
         \/ step = "reject" /\ s = "approve"
         \/ step \in {"reject", "back"} /\ s = "review"
  PROVE  BookStep /\ BookInv'
  <1>1. step # "menu" /\ s \in {"review", "approve", "reject", "back"}
    BY DEF FinalStep
  <1>2. doc \in Docs /\ screens = doc /\ screens' = screens
    BY <1>1, OnScreen DEF globalVars
  <1>3. step' = s /\ asked' = "none" /\ busy' = FALSE
    BY DEF Step, Inv, RInv
  <1>4. /\ PageCount[doc] \in Nat /\ Places(doc) \in Nat
        /\ Places(doc) = PageCount[doc] + IF Signing(doc) THEN 3 ELSE 2
    BY <1>2, PlacesOf
  <1>5. /\ step \in {"approve", "reject"} => Signing(doc)
        /\ step = "back" => ~Signing(doc)
    BY <1>2 DEF Inv, RInv, StepOfDoc
  <1>6. BookStep
    <2>1. CASE (step = "approve" /\ s = "reject") \/ (step = "reject" /\ s = "approve")
      <3>1. Signing(doc) /\ step' # "menu"
        BY <1>3, <1>5, <2>1
      <3>2. /\ Place \in Nat /\ Place' \in Nat /\ Place < Places(doc) /\ Place' < Places(doc)
            /\ Place' = Place + 1 \/ Place' = Place - 1
        BY <1>2, <1>3, <1>4, <2>1, <3>1 DEF PlaceIs
      <3>3. QED BY <1>1, <1>2, <3>1, <3>2, BookMoves
    <2>2. CASE step \in {"reject", "back"} /\ s = "review"
      <3>1. Place = Places(doc) - 1 /\ Place' = 0
        BY <1>2, <1>3, <1>4, <1>5, <2>2 DEF PlaceIs
      <3>2. PICK n \in Nat : n = Places(doc) /\ n > 0
        BY <1>4
      <3>3. (Place + 1) % n = 0
        <4>1. Place + 1 = n
          BY <3>1, <3>2
        <4>2. QED BY <3>2, <4>1, Ring
      <3>4. QED BY <1>1, <1>2, <1>3, <2>2, <3>1, <3>2, <3>3, BookTurns
    <2>3. CASE step = "review" /\ s = FinalStep(screens)
      <3>1. Place = 0
        BY <2>3 DEF PlaceIs
      <3>2. Place' = Places(doc) - 1
        <4>1. CASE Signing(doc)
          <5>1. step' = "reject"
            BY <1>2, <1>3, <2>3, <4>1 DEF FinalStep
          <5>2. QED BY <1>2, <1>4, <4>1, <5>1 DEF PlaceIs
        <4>2. CASE ~Signing(doc)
          <5>1. step' = "back"
            BY <1>2, <1>3, <2>3, <4>2 DEF FinalStep
          <5>2. QED BY <1>2, <1>4, <4>2, <5>1 DEF PlaceIs
        <4>3. QED BY <4>1, <4>2
      <3>3. PICK n \in Nat : n = Places(doc) /\ n > 0
        BY <1>4
      <3>4. (Place + (-1)) % n = Place'
        <4>1. Place + (-1) = -1
          BY <3>1
        <4>2. (-1) % n = n - 1
          BY <3>3, Ring
        <4>3. Place' = n - 1
          BY <3>2, <3>3
        <4>4. QED BY <4>1, <4>2, <4>3, Zenon
      <3>5. step' # "menu"
        BY <1>1, <1>3
      <3>6. QED BY <1>1, <1>2, <3>3, <3>4, <3>5, BookTurns
    <2>4. QED BY <2>1, <2>2, <2>3
  <1>7. FitsInv' /\ ReachInv'
    BY <1>1, <1>3, Settles
  <1>8. HomeInv' /\ DeployInv'
    BY <1>3, DeployStays
  <1>9. QED BY <1>6, <1>7, <1>8 DEF BookInv

LEMMA PressBook ==
  ASSUME Inv, RInv', BookInv, PlaceIs, PlaceIs', PressNext \/ PressPrev
  PROVE  BookStep /\ BookInv'
  <1>1. /\ ~busy /\ asked = "none" /\ UNCHANGED <<hostVars, globalVars>>
        /\ step \in {"review", "generic", "approve", "reject", "back"}
    BY DEF PressNext, PressPrev, CanPress
  <1>2. doc # NoDoc /\ step # "menu"
    BY <1>1 DEF BookInv, HomeInv
  <1>3. /\ step \in {"review", "approve", "back"} => current_state = "static"
        /\ step = "generic" => current_state # "static"
    BY DEF Inv, PageInv, FlowInv
  <1>4. CASE step \in {"review", "generic"} /\ on_anterior_delimiter
    <2>1. CASE step = "review"
      <3>1. get_next_data("first") /\ "first" \in Moves
        BY <1>3, <1>4, <2>1 DEF on_anterior_delimiter, Moves
      <3>2. QED BY <1>1, <1>2, <2>1, <3>1, GetNextDataBook
    <2>2. CASE step = "generic"
      <3>1. get_next_data("prev") /\ "prev" \in Moves
        BY <1>3, <1>4, <2>2 DEF on_anterior_delimiter, Moves
      <3>2. QED BY <1>1, <1>2, <2>2, <3>1, GetNextDataBook
    <2>3. QED BY <1>4, <2>1, <2>2
  <1>5. CASE step \in {"approve", "back", "generic"} /\ on_posterior_delimiter
    <2>1. CASE step \in {"approve", "back"}
      <3>1. get_next_data("last") /\ "last" \in Moves
        BY <1>3, <1>5, <2>1 DEF on_posterior_delimiter, Moves
      <3>2. QED BY <1>1, <1>2, <2>1, <3>1, GetNextDataBook
    <2>2. CASE step = "generic"
      <3>1. get_next_data("next") /\ "next" \in Moves
        BY <1>3, <1>5, <2>2 DEF on_posterior_delimiter, Moves
      <3>2. QED BY <1>1, <1>2, <2>2, <3>1, GetNextDataBook
    <2>3. QED BY <1>5, <2>1, <2>2
  <1>6. CASE \E s : /\ Step(s)
                    /\ \/ step = "review" /\ s = FinalStep(screens)
                       \/ step = "approve" /\ s = "reject"
                       \/ step = "reject" /\ s = "approve"
                       \/ step \in {"reject", "back"} /\ s = "review"
    BY <1>1, <1>2, <1>6, StepBook
  <1>7. QED BY <1>4, <1>5, <1>6 DEF PressNext, PressPrev

LEMMA CloseBook ==
  ASSUME Inv, BookInv, PlaceIs, PlaceIs', sign_transaction \/ reject_transaction \/ Back
  PROVE  BookStep /\ BookInv'
  <1>1. /\ ~busy /\ asked = "none" /\ step \in {"approve", "reject", "back"}
        /\ doc' = NoDoc /\ step' = "menu" /\ asked' = asked /\ busy' = busy
    BY DEF sign_transaction, reject_transaction, Back, CanPress, Close
  <1>2. screens \in Docs
    BY <1>1, OnScreen
  <1>3. BookStep
    BY <1>1, <1>2, BookCloses
  <1>4. QED BY <1>1, <1>3 DEF BookInv, HomeInv, DeployInv, FitsInv, ReachInv

----------------------------------------------------------------------------
\* The theorem.

LEMMA InitBook == Init => BookInv /\ Book!Init
  BY DEF Init, BookInv, HomeInv, DeployInv, FitsInv, ReachInv, Book!Init, Place

LEMMA NextBook ==
  Inv /\ RInv' /\ BookInv /\ PlaceIs /\ PlaceIs' /\ [Next]_vars => BookInv' /\ BookStep
  <1> SUFFICES ASSUME Inv, RInv', BookInv, PlaceIs, PlaceIs', [Next]_vars
               PROVE  BookInv' /\ BookStep
    OBVIOUS
  <1>1. CASE Next
    BY <1>1, SendTxnBook, WholeBook, SendFirstBook, SendNextBook, FindPageBook, PressBook,
       CloseBook DEF Next
  <1>2. CASE UNCHANGED vars
    <2>1. UNCHANGED <<doc, part, owed, asked, is_first_part, txn_is_complete, screens, text,
                      max_pages, pager, page_to_display, display_page_callback, busy, step,
                      current_state>>
      BY <1>2 DEF vars, hostVars, globalVars, displayVars
    <2>2. BookInv'
      BY <2>1 DEF BookInv, HomeInv, DeployInv, FitsInv, ReachInv, Reached
    <2>3. UNCHANGED <<BookDoc, Place>>
      BY <2>1 DEF BookDoc, Place
    <2>4. QED BY <2>2, <2>3 DEF BookStep
  <1>3. QED BY <1>1, <1>2

\* What the place relies on holds throughout.
LEMMA ReviewBookInv == Spec => [](RInv /\ TypeInv /\ PageInv /\ PlaceIs /\ BookInv)
  <1>1. TypeInv /\ PageInv => PlaceIs
    BY PlaceOf DEF TypeInv, FlowType, PageInv
  <1>2. RInv /\ TypeInv /\ PageInv /\ PlaceIs /\ BookInv /\ [Next]_vars /\ RInv' /\ PlaceIs'
          => BookInv'
    BY NextBook DEF Inv
  <1>3. QED BY <1>1, <1>2, InitBook, ReviewPageInv, PTL DEF Spec

\* Whatever the user presses and whatever parts are sent again for it, the review
\* is at a place of the document under review, moves from it by one place, either
\* way and around, and closes at a final step, for all ordinary documents.
THEOREM ReviewImplementsBook == Spec => ImplementsBook
  <1>1. RInv /\ TypeInv /\ PageInv /\ PlaceIs /\ BookInv /\ [Next]_vars /\ RInv' /\ PlaceIs'
          => [Book!Next]_<<BookDoc, Place>>
    BY NextBook DEF Inv, BookStep
  <1>2. QED
    BY <1>1, InitBook, ReviewBookInv, PTL DEF Spec, ImplementsBook, Book!BookSpec, BookDoc
=============================================================================
