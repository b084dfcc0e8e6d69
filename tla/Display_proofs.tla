--------------------------- MODULE Display_proofs ---------------------------
(***************************************************************************)
(* What holds of Display for all transactions, cuts and widths of the      *)
(* display.  A turn of a text parser adds at most eleven characters to a   *)
(* page that is not full, so what is kept for the next page fits in        *)
(* parsed_text.  display_transaction makes as many screens as there are    *)
(* lines in the fields, and a function's screen has its title; the pager   *)
(* stays on these screens and within the parts there are.                  *)
(***************************************************************************)
EXTENDS Display, FiniteSetTheorems, TLAPS

\* A sequence, of whatever elements: a part's bytes are not looked at.
IsSeq(s) == \E S : s \in Seq(S)

\* A text parser whose page is a sequence.
HasPage(t) == "parsed" \in DOMAIN t /\ IsSeq(t.parsed)

\* q is t with up to n characters more on its page.
Adds(q, t, n) == HasPage(q) /\ Len(q.parsed) <= Len(t.parsed) + n

----------------------------------------------------------------------------
\* Sequences.

LEMMA LenIsNat ==
  ASSUME NEW s, IsSeq(s)
  PROVE  Len(s) \in Nat
  BY DEF IsSeq

LEMMA ConcatIsSeq ==
  ASSUME NEW s, NEW t, IsSeq(s), IsSeq(t)
  PROVE  IsSeq(s \o t) /\ Len(s \o t) = Len(s) + Len(t)
  <1>1. PICK S : s \in Seq(S)
    BY DEF IsSeq
  <1>2. PICK T : t \in Seq(T)
    BY DEF IsSeq
  <1>3. s \in Seq(S \cup T) /\ t \in Seq(S \cup T)
    BY <1>1, <1>2
  <1>4. s \o t \in Seq(S \cup T) /\ Len(s \o t) = Len(s) + Len(t)
    BY <1>3
  <1>5. QED BY <1>4 DEF IsSeq

LEMMA TuplesAreSeqs ==
  /\ IsSeq(<<>>) /\ Len(<<>>) = 0
  /\ \A a : IsSeq(<<a>>) /\ Len(<<a>>) = 1
  /\ \A a, b : IsSeq(<<a, b>>) /\ Len(<<a, b>>) = 2
  /\ \A a, b, c : IsSeq(<<a, b, c>>) /\ Len(<<a, b, c>>) = 3
  <1>1. <<>> \in Seq({}) /\ \A a : <<a>> \in Seq({a})
    OBVIOUS
  <1>2. \A a, b : <<a, b>> \in Seq({a, b})
    OBVIOUS
  <1>3. \A a, b, c : <<a, b, c>> \in Seq({a, b, c})
    OBVIOUS
  <1>4. QED BY <1>1, <1>2, <1>3 DEF IsSeq

\* A set of at most n elements.
AtMost(S, n) == IsFiniteSet(S) /\ Cardinality(S) \in 0..n

LEMMA OneMore ==
  ASSUME NEW S, NEW x, NEW n \in Nat, AtMost(S, n)
  PROVE  AtMost(S \cup {x}, n + 1)
  <1>1. IsFiniteSet(S) /\ Cardinality(S) \in 0..n
    BY DEF AtMost
  <1>2. IsFiniteSet(S \cup {x})
    BY <1>1, FS_AddElement
  <1>3. \/ Cardinality(S \cup {x}) = Cardinality(S)
        \/ Cardinality(S \cup {x}) = Cardinality(S) + 1
    BY <1>1, FS_AddElement
  <1> DEFINE k == Cardinality(S)
             m == Cardinality(S \cup {x})
  <1>4. m \in 0..(n + 1)
    <2>1. k \in 0..n /\ (m = k \/ m = k + 1)
      BY <1>1, <1>3
    <2> HIDE DEF k, m
    <2>2. QED BY <2>1
  <1>5. QED BY <1>2, <1>4 DEF AtMost

LEMMA SevenElements ==
  ASSUME NEW a, NEW b, NEW c, NEW d, NEW e, NEW f, NEW g
  PROVE  AtMost({a, b, c, d, e, f, g}, 7)
  <1>1. AtMost({}, 0)
    BY FS_EmptySet DEF AtMost
  <1>2. AtMost({a}, 1)
    <2>1. AtMost({} \cup {a}, 0 + 1)
      BY <1>1, OneMore
    <2>2. QED BY <2>1
  <1>3. AtMost({a, b}, 2)
    <2>1. AtMost({a} \cup {b}, 1 + 1) /\ {a} \cup {b} = {a, b}
      BY <1>2, OneMore
    <2>2. QED BY <2>1
  <1>4. AtMost({a, b, c}, 3)
    <2>1. AtMost({a, b} \cup {c}, 2 + 1) /\ {a, b} \cup {c} = {a, b, c}
      BY <1>3, OneMore
    <2>2. QED BY <2>1
  <1>5. AtMost({a, b, c, d}, 4)
    <2>1. AtMost({a, b, c} \cup {d}, 3 + 1) /\ {a, b, c} \cup {d} = {a, b, c, d}
      BY <1>4, OneMore
    <2>2. QED BY <2>1
  <1>6. AtMost({a, b, c, d, e}, 5)
    <2>1. AtMost({a, b, c, d} \cup {e}, 4 + 1) /\ {a, b, c, d} \cup {e} = {a, b, c, d, e}
      BY <1>5, OneMore
    <2>2. QED BY <2>1
  <1>7. AtMost({a, b, c, d, e, f}, 6)
    <2>1. AtMost({a, b, c, d, e} \cup {f}, 5 + 1)
          /\ {a, b, c, d, e} \cup {f} = {a, b, c, d, e, f}
      BY <1>6, OneMore
    <2>2. QED BY <2>1
  <1>8. QED
    <2>1. AtMost({a, b, c, d, e, f} \cup {g}, 6 + 1)
          /\ {a, b, c, d, e, f} \cup {g} = {a, b, c, d, e, f, g}
      BY <1>7, OneMore
    <2>2. QED BY <2>1

\* A code point has at most eight hexadecimal digits.
LEMMA HexLenBound == \A c : HexLen(c) \in 1..8
  <1> DEFINE P == {16, 256, 4096, 65536, 1048576, 16777216, 268435456}
  <1>1. AtMost(P, 7)
    <2>1. PICK a, b, c, d, e, f, g : /\ a = 16 /\ b = 256 /\ c = 4096 /\ d = 65536
                                     /\ e = 1048576 /\ f = 16777216 /\ g = 268435456
      BY SMT
    <2>2. P = {a, b, c, d, e, f, g}
      BY <2>1, SMT
    <2> HIDE DEF P
    <2>3. QED BY <2>2, SevenElements
  <1>2. ASSUME NEW c PROVE HexLen(c) = 1 + Cardinality({p \in P : c >= p})
    BY SMT DEF HexLen
  <1> HIDE DEF P
  <1>3. ASSUME NEW c PROVE HexLen(c) \in 1..8
    <2> DEFINE Q == {p \in P : c >= p}
    <2>1. IsFiniteSet(Q) /\ Cardinality(Q) <= Cardinality(P)
      BY <1>1, FS_Subset DEF AtMost
    <2>2. Cardinality(Q) \in Nat /\ Cardinality(P) \in 0..7
      BY <1>1, <2>1, FS_CardinalityType DEF AtMost
    <2>3. HexLen(c) = 1 + Cardinality(Q)
      BY <1>2
    <2> HIDE DEF Q
    <2>4. QED BY <2>1, <2>2, <2>3
  <1>4. QED BY <1>3

LEMMA UnicodeAdds == \A c : IsSeq(Unicode(c)) /\ Len(Unicode(c)) <= 10
  <1> SUFFICES ASSUME NEW c PROVE IsSeq(Unicode(c)) /\ Len(Unicode(c)) <= 10
    OBVIOUS
  <1> DEFINE digit(i) == HexDigit((c \div 16^(HexLen(c) - i)) % 16)
             s == [i \in 1..HexLen(c) |-> digit(i)]
  <1>1. HexLen(c) \in 1..8
    BY HexLenBound
  <1> HIDE DEF digit
  <1>2. s \in Seq({digit(i) : i \in 1..HexLen(c)}) /\ Len(s) = HexLen(c)
    BY <1>1
  <1>3. Unicode(c) = <<Backslash, 117>> \o s
    BY DEF Unicode, digit
  <1> HIDE DEF s
  <1>4. IsSeq(s) /\ Len(s) <= 8
    BY <1>1, <1>2 DEF IsSeq
  <1>5. QED BY <1>3, <1>4, ConcatIsSeq, TuplesAreSeqs, LenIsNat

\* What a character gives, in either format.
LEMMA GlyphsAdd ==
  /\ \A c, as_hex : IsSeq(Glyphs(c, as_hex)) /\ Len(Glyphs(c, as_hex)) <= 10
  /\ \A c : IsSeq(JsonGlyphs(c)) /\ Len(JsonGlyphs(c)) <= 10
  <1>1. ASSUME NEW c, NEW as_hex
        PROVE  IsSeq(Glyphs(c, as_hex)) /\ Len(Glyphs(c, as_hex)) <= 10
    <2>1. \/ \E a, b : Glyphs(c, as_hex) = <<a, b>>
          \/ \E a : Glyphs(c, as_hex) = <<a>>
          \/ Glyphs(c, as_hex) = Unicode(c)
      BY DEF Glyphs
    <2>2. CASE \E a, b : Glyphs(c, as_hex) = <<a, b>>
      <3>1. IsSeq(Glyphs(c, as_hex)) /\ Len(Glyphs(c, as_hex)) = 2
        BY <2>2, TuplesAreSeqs, Zenon
      <3>2. QED BY <3>1
    <2>3. CASE \E a : Glyphs(c, as_hex) = <<a>>
      <3>1. IsSeq(Glyphs(c, as_hex)) /\ Len(Glyphs(c, as_hex)) = 1
        BY <2>3, TuplesAreSeqs, Zenon
      <3>2. QED BY <3>1
    <2>4. CASE Glyphs(c, as_hex) = Unicode(c)
      BY <2>4, UnicodeAdds
    <2>5. QED BY <2>1, <2>2, <2>3, <2>4
  <1>2. ASSUME NEW c
        PROVE  IsSeq(JsonGlyphs(c)) /\ Len(JsonGlyphs(c)) <= 10
    <2>1. (\E a : JsonGlyphs(c) = <<a>>) \/ JsonGlyphs(c) = Unicode(c)
      BY DEF JsonGlyphs
    <2>2. ASSUME NEW u, \E a : u = <<a>>
          PROVE  IsSeq(u) /\ Len(u) = 1
      BY <2>2, TuplesAreSeqs, Zenon
    <2>3. CASE JsonGlyphs(c) = Unicode(c)
      BY <2>3, UnicodeAdds
    <2>4. CASE JsonGlyphs(c) # Unicode(c)
      <3>1. IsSeq(JsonGlyphs(c)) /\ Len(JsonGlyphs(c)) = 1
        BY <2>1, <2>2, <2>4
      <3>2. QED BY <3>1
    <2>5. QED BY <2>3, <2>4
  <1>3. QED BY <1>1, <1>2

----------------------------------------------------------------------------
\* The text parsers: what one character adds to the page.

\* u is added to the page of t, and other fields are set.
LEMMA PageAdds ==
  ASSUME NEW t, NEW q, NEW u, NEW n \in Nat, HasPage(t), IsSeq(u), Len(u) <= n,
         "parsed" \in DOMAIN q, q.parsed = t.parsed \o u
  PROVE  Adds(q, t, n)
  BY ConcatIsSeq, LenIsNat DEF HasPage, Adds

\* What leaves the page alone adds nothing to it.
LEMMA SamePageAdds ==
  ASSUME NEW t, NEW q, NEW n \in Nat, HasPage(t), "parsed" \in DOMAIN q, q.parsed = t.parsed
  PROVE  Adds(q, t, n)
  BY LenIsNat DEF HasPage, Adds

LEMMA FormatAdds ==
  ASSUME NEW t, NEW s, NEW c, HasPage(t)
  PROVE  Adds(Format(t, s, c), t, 11)
  <1> DEFINE hex == s.in_hex \/ (IF IsBreak(c) THEN t.in_hex ELSE c < 32)
             delimiter == CASE s.in_hex \/ hex = t.already_in_hex -> <<>>
                            [] OTHER -> IF hex THEN <<60>> ELSE <<62>>
             q == Format(t, s, c)
  <1>1. IsSeq(delimiter) /\ Len(delimiter) <= 1
    <2>1. delimiter = <<>> \/ \E a : delimiter = <<a>>
      OBVIOUS
    <2> HIDE DEF delimiter
    <2>2. QED BY <2>1, TuplesAreSeqs
  <1>2. "parsed" \in DOMAIN q /\ q.parsed = t.parsed \o delimiter \o Glyphs(c, hex)
    BY DEF Format, HasPage
  <1> HIDE DEF hex, delimiter, q
  <1>3. IsSeq(t.parsed \o delimiter) /\ Len(t.parsed \o delimiter) <= Len(t.parsed) + 1
    BY <1>1, ConcatIsSeq, LenIsNat DEF HasPage
  <1>4. IsSeq(Glyphs(c, hex)) /\ Len(Glyphs(c, hex)) <= 10
    BY GlyphsAdd
  <1>5. IsSeq(q.parsed) /\ Len(q.parsed) <= Len(t.parsed) + 11
    BY <1>2, <1>3, <1>4, ConcatIsSeq, LenIsNat DEF HasPage
  <1>6. QED BY <1>2, <1>5 DEF Adds, HasPage, q

LEMMA CopiedAdds ==
  ASSUME NEW t, NEW c, HasPage(t)
  PROVE  Adds(Copied(t, c), t, 10)
  <1>1. "parsed" \in DOMAIN Copied(t, c) /\ Copied(t, c).parsed = t.parsed \o JsonGlyphs(c)
    BY DEF Copied, HasPage
  <1>2. QED BY <1>1, GlyphsAdd, PageAdds

\* In an object or an array everything is copied.
LEMMA NestedAdds ==
  ASSUME NEW t, NEW c, HasPage(t)
  PROVE  Adds(InNested(t, c), t, 10)
  <1>1. CASE InNested(t, c) = [t EXCEPT !.mode = "none", !.obj_level = 0, !.ret = "yes",
                                        !.parsed = Append(@, c)]
    <2>1. IsSeq(t.parsed)
      BY DEF HasPage
    <2>2. Append(t.parsed, c) = t.parsed \o <<c>>
      BY <2>1 DEF IsSeq
    <2>3. /\ "parsed" \in DOMAIN InNested(t, c)
          /\ InNested(t, c).parsed = t.parsed \o <<c>>
      BY <1>1, <2>2 DEF HasPage
    <2>4. IsSeq(<<c>>) /\ Len(<<c>>) <= 10
      BY TuplesAreSeqs
    <2>5. QED BY <2>3, <2>4, PageAdds
  <1>2. CASE /\ "parsed" \in DOMAIN InNested(t, c)
             /\ InNested(t, c).parsed = Copied(t, c).parsed
    BY <1>2, CopiedAdds DEF Adds, HasPage
  <1>3. "parsed" \in DOMAIN Copied(t, c)
    BY CopiedAdds DEF Adds, HasPage
  <1>4. QED BY <1>1, <1>2, <1>3 DEF InNested

\* A command begins with an arrow, an element with its first character.
LEMMA BetweenAdds ==
  ASSUME NEW t, NEW c, HasPage(t)
  PROVE  Adds(BetweenElements(t, c), t, 10)
  <1> DEFINE q == BetweenElements(t, c)
  <1>1. "parsed" \in DOMAIN Copied(t, c) /\ "parsed" \in DOMAIN Passed(t, c)
        /\ Passed(t, c).parsed = t.parsed
    BY CopiedAdds DEF Adds, HasPage, Passed
  <1>2. /\ "parsed" \in DOMAIN q
        /\ q.parsed \in {Copied(t, c).parsed, t.parsed, t.parsed \o <<61, 62, 32>>}
    BY <1>1 DEF BetweenElements
  <1> HIDE DEF q
  <1>3. CASE q.parsed = Copied(t, c).parsed
    BY <1>2, <1>3, CopiedAdds DEF Adds, HasPage, q
  <1>4. CASE q.parsed = t.parsed
    BY <1>2, <1>4, SamePageAdds DEF q
  <1>5. CASE q.parsed = t.parsed \o <<61, 62, 32>>
    <2>1. IsSeq(<<61, 62, 32>>) /\ Len(<<61, 62, 32>>) <= 10
      BY TuplesAreSeqs
    <2>2. QED BY <1>2, <1>5, <2>1, PageAdds DEF q
  <1>6. QED BY <1>2, <1>3, <1>4, <1>5 DEF q

LEMMA JsonCharAdds ==
  ASSUME NEW t, NEW c, HasPage(t)
  PROVE  Adds(JsonChar(t, c), t, 10)
  <1>1. /\ Adds(Copied(t, c), t, 10)
        /\ "parsed" \in DOMAIN t /\ "parsed" \in DOMAIN Copied(t, c)
    BY CopiedAdds DEF Adds, HasPage
  <1>2. Adds(InString(t, c), t, 10)
    <2>1. /\ "parsed" \in DOMAIN InString(t, c)
          /\ \/ InString(t, c) = Copied(t, c)
             \/ InString(t, c).parsed = t.parsed
      BY <1>1 DEF InString, Passed
    <2>2. QED BY <1>1, <2>1, SamePageAdds
  <1>3. Adds(InLiteral(t, c), t, 10)
    <2>1. /\ "parsed" \in DOMAIN InLiteral(t, c)
          /\ \/ InLiteral(t, c) = Copied(t, c)
             \/ InLiteral(t, c).parsed = t.parsed
      BY <1>1 DEF InLiteral
    <2>2. QED BY <1>1, <2>1, SamePageAdds
  <1>4. Adds(InInternalString(t, c), t, 10)
    <2>1. /\ "parsed" \in DOMAIN InInternalString(t, c)
          /\ InInternalString(t, c).parsed = Copied(t, c).parsed
      BY <1>1 DEF InInternalString
    <2>2. QED BY <1>1, <2>1 DEF Adds, HasPage
  <1>5. QED BY <1>2, <1>3, <1>4, NestedAdds, BetweenAdds DEF JsonChar

----------------------------------------------------------------------------
\* The pager.

\* What is on the page and beyond its end.
PageFits(t) == HasPage(t) /\ Len(t.parsed) <= W + 10

\* A character is parsed only for a page that is not full.
LEMMA AddedFits ==
  ASSUME NEW t, HasPage(t), Len(t.parsed) < W, NEW q, NEW n \in 0..11, Adds(q, t, n)
  PROVE  PageFits(q)
  BY LenIsNat, TextAssumption DEF Adds, HasPage, PageFits

\* The parser as it was, but for fields that are not the page.
LEMMA SamePageFits ==
  ASSUME NEW t, PageFits(t), NEW q, "parsed" \in DOMAIN q, q.parsed = t.parsed
  PROVE  PageFits(q)
  BY DEF PageFits, HasPage

LEMMA ParsePageText ==
  ASSUME PageFits(parser), parse_page_text
  PROVE  PageFits(parser)'
  <1>1. HasPage(parser) /\ Len(parser.parsed) < W
    BY DEF parse_page_text, Reading, PageFits
  <1>2. PICK r \in {ReadChar(parser, Now.in_hex)} :
          LET t == [parser EXCEPT !.pos = r.pos, !.last_utf8_char = 0]
          IN  \/ parser' = [t EXCEPT !.last_utf8_char = r.c, !.ret = "yes"]
              \/ parser' = FunctionEnds(t, r)
              \/ parser' = SkipToArgs(t, r)
              \/ parser' = TrimEnd(t, r)
              \/ parser' = Format(t, Now, r.c)
    BY DEF parse_page_text
  <1> DEFINE t == [parser EXCEPT !.pos = r.pos, !.last_utf8_char = 0]
  <1>3. HasPage(t) /\ t.parsed = parser.parsed
    BY <1>1 DEF HasPage
  <1> HIDE DEF t
  <1>4. CASE parser' = Format(t, Now, r.c)
    BY <1>1, <1>3, <1>4, FormatAdds, AddedFits
  <1>5. CASE parser' \in {[t EXCEPT !.last_utf8_char = r.c, !.ret = "yes"],
                          FunctionEnds(t, r), SkipToArgs(t, r), TrimEnd(t, r)}
    <2>1. "parsed" \in DOMAIN parser' /\ parser'.parsed = t.parsed
      BY <1>3, <1>5 DEF HasPage, FunctionEnds, SkipToArgs, TrimEnd
    <2>2. QED BY <1>3, <2>1 DEF PageFits, HasPage
  <1>6. QED BY <1>2, <1>4, <1>5 DEF t

LEMMA ParseMulticallPage ==
  ASSUME PageFits(parser), parse_multicall_page
  PROVE  PageFits(parser)'
  <1>1. HasPage(parser) /\ Len(parser.parsed) < W
    BY DEF parse_multicall_page, Reading, PageFits
  <1>2. PICK r \in {ReadChar(parser, FALSE)} :
          LET t == [parser EXCEPT !.pos = r.pos, !.last_utf8_char = 0]
          IN  \/ parser' = [t EXCEPT !.last_utf8_char = r.c, !.ret = "no"]
              \/ parser' = JsonChar(t, r.c)
    BY DEF parse_multicall_page
  <1> DEFINE t == [parser EXCEPT !.pos = r.pos, !.last_utf8_char = 0]
  <1>3. HasPage(t) /\ t.parsed = parser.parsed
    BY <1>1 DEF HasPage
  <1> HIDE DEF t
  <1>4. CASE parser' = JsonChar(t, r.c)
    <2>1. Adds(parser', t, 10)
      BY <1>3, <1>4, JsonCharAdds
    <2>2. QED BY <1>1, <1>3, <2>1, AddedFits
  <1>5. CASE parser' = [t EXCEPT !.last_utf8_char = r.c, !.ret = "no"]
    <2>1. "parsed" \in DOMAIN parser' /\ parser'.parsed = t.parsed
      BY <1>3, <1>5 DEF HasPage
    <2>2. QED BY <1>3, <2>1 DEF PageFits, HasPage
  <1>6. QED BY <1>2, <1>4, <1>5 DEF t

\* What is beyond the end of the page begins the next one.
LEMMA EndOfPageFits ==
  ASSUME PageFits(parser), EndOfPage
  PROVE  PageFits(parser)'
  <1>1. CASE parser' = parser
    BY <1>1 DEF PageFits, HasPage
  <1>2. CASE SeekPage(parser, current_page, part)
    BY <1>2, SamePageFits DEF SeekPage, parse_next_page, PageFits, HasPage
  <1>3. CASE parser' = [parser EXCEPT !.parsed = SubSeq(@, W + 1, Len(@))]
    <2>1. PICK S : parser.parsed \in Seq(S)
      BY DEF PageFits, HasPage, IsSeq
    <2>2. W \in Nat /\ W > 0 /\ Len(parser.parsed) \in Nat
      BY <2>1, TextAssumption
    <2>3. /\ SubSeq(parser.parsed, W + 1, Len(parser.parsed)) \in Seq(S)
          /\ Len(SubSeq(parser.parsed, W + 1, Len(parser.parsed))) <= Len(parser.parsed)
      BY <2>1, <2>2
    <2>4. "parsed" \in DOMAIN parser'
          /\ parser'.parsed = SubSeq(parser.parsed, W + 1, Len(parser.parsed))
      BY <1>3 DEF PageFits, HasPage
    <2>5. IsSeq(parser'.parsed)
      BY <2>3, <2>4 DEF IsSeq
    <2>6. Len(parser'.parsed) <= W + 10
      BY <2>2, <2>3, <2>4, <2>5, LenIsNat DEF PageFits
    <2>7. QED BY <2>4, <2>5, <2>6 DEF PageFits, HasPage
  <1>4. QED BY <1>1, <1>2, <1>3 DEF EndOfPage

\* A screen begins with nothing on its page.
LEMMA PrepareFits ==
  ASSUME NEW ss, NEW n, NEW k, prepare_screen(ss, n, k)
  PROVE  PageFits(parser)'
  <1>1. "parsed" \in DOMAIN parser' /\ parser'.parsed = <<>>
    BY DEF prepare_screen, parse_next_page, reset_text_parser
  <1>2. IsSeq(parser'.parsed) /\ Len(parser'.parsed) = 0
    BY <1>1, TuplesAreSeqs
  <1>3. QED BY <1>1, <1>2, TextAssumption DEF PageFits, HasPage

LEMMA NextPressFits ==
  ASSUME PageFits(parser), NextPress
  PROVE  PageFits(parser)'
  <1>1. CASE \E page : prepare_screen(screens, page, part)
    BY <1>1, PrepareFits
  <1>2. CASE \E page : SeekPage(parser, page, part)
    BY <1>2, SamePageFits DEF SeekPage, parse_next_page, PageFits, HasPage
  <1>3. QED BY <1>1, <1>2 DEF NextPress

LEMMA PayloadPartFits ==
  ASSUME PageFits(parser), PayloadPart
  PROVE  PageFits(parser)'
  <1>1. CASE prepare_screen(screens', page_to_display, part + 1)
    BY <1>1, PrepareFits
  <1>2. CASE SeekPage([parser EXCEPT !.input = PartBytes(doc, part + 1), !.pos = 0],
                      current_page, part + 1)
    <2>1. "parsed" \in DOMAIN parser' /\ parser'.parsed = parser.parsed
      BY <1>2 DEF SeekPage, parse_next_page, PageFits, HasPage
    <2>2. QED BY <2>1, SamePageFits
  <1>3. QED BY <1>1, <1>2 DEF PayloadPart

LEMMA InitFits == Init => PageFits(parser)
  <1> SUFFICES ASSUME Init PROVE PageFits(parser)
    OBVIOUS
  <1>1. "parsed" \in DOMAIN parser /\ parser.parsed = <<>>
    BY DEF Init, reset_text_parser
  <1>2. QED BY <1>1, TuplesAreSeqs, TextAssumption DEF PageFits, HasPage

LEMMA NextFits == PageFits(parser) /\ [Next]_vars => PageFits(parser)'
  <1> SUFFICES ASSUME PageFits(parser), [Next]_vars PROVE PageFits(parser)'
    OBVIOUS
  <1>1. CASE parser' = parser
    BY <1>1 DEF PageFits, HasPage
  <1>2. CASE FirstPart \/ DeployPart \/ Stop \/ UNCHANGED vars
    BY <1>1, <1>2 DEF FirstPart, DeployPart, Stop, vars
  <1>3. CASE PayloadPart \/ NextPress
    BY <1>3, PayloadPartFits, NextPressFits
  <1>4. CASE Parse
    BY <1>4, ParsePageText, ParseMulticallPage, EndOfPageFits DEF Parse
  <1>5. QED BY <1>2, <1>3, <1>4 DEF Next

\* Whatever the transaction, its bytes and its parts, and however wide the
\* display, what a character adds stays within parsed_text.
THEOREM ParsedTextAlwaysFits == Spec => []ParsedTextFits
  <1>1. PageFits(parser) => ParsedTextFits
    BY DEF PageFits, ParsedTextFits
  <1>2. QED BY <1>1, InitFits, NextFits, PTL DEF Spec

----------------------------------------------------------------------------
\* The screens that display_transaction fills.

\* A sequence of screens, each with a title.
Titled(ss) == IsSeq(ss) /\ \A i \in 1..Len(ss) : "title" \in DOMAIN ss[i]

LEMMA ConcatTitled ==
  ASSUME NEW a, NEW b, Titled(a), Titled(b)
  PROVE  Titled(a \o b) /\ Len(a \o b) = Len(a) + Len(b)
  <1>1. IsSeq(a \o b) /\ Len(a \o b) = Len(a) + Len(b)
    BY ConcatIsSeq DEF Titled
  <1>2. PICK S : a \in Seq(S)
    BY DEF Titled, IsSeq
  <1>3. PICK T : b \in Seq(T)
    BY DEF Titled, IsSeq
  <1>4. a \in Seq(S \cup T) /\ b \in Seq(S \cup T)
    BY <1>2, <1>3
  <1>5. ASSUME NEW i \in 1..Len(a \o b) PROVE "title" \in DOMAIN (a \o b)[i]
    <2>1. Len(a) \in Nat /\ Len(b) \in Nat /\ i \in 1..(Len(a) + Len(b))
      BY <1>1, <1>4
    <2>2. CASE i <= Len(a)
      <3>1. (a \o b)[i] = a[i] /\ i \in 1..Len(a)
        BY <1>4, <2>1, <2>2
      <3>2. QED BY <3>1 DEF Titled
    <2>3. CASE i > Len(a)
      <3>1. (a \o b)[i] = b[i - Len(a)] /\ i - Len(a) \in 1..Len(b)
        BY <1>4, <2>1, <2>3
      <3>2. QED BY <3>1 DEF Titled
    <2>4. QED BY <2>1, <2>2, <2>3
  <1>6. QED BY <1>1, <1>5 DEF Titled

\* One more screen is the last one.
LEMMA AppendTitled ==
  ASSUME NEW ss, NEW s, Titled(ss), "title" \in DOMAIN s
  PROVE  /\ Titled(Append(ss, s))
         /\ Len(Append(ss, s)) = Len(ss) + 1
         /\ Append(ss, s)[Len(ss) + 1] = s
  <1>1. PICK S : ss \in Seq(S)
    BY DEF Titled, IsSeq
  <1>2. ss \in Seq(S \cup {s}) /\ s \in S \cup {s}
    BY <1>1
  <1>3. /\ Append(ss, s) \in Seq(S \cup {s})
        /\ Len(ss) \in Nat /\ Len(Append(ss, s)) = Len(ss) + 1
        /\ Append(ss, s)[Len(ss) + 1] = s
        /\ \A i \in 1..Len(ss) : Append(ss, s)[i] = ss[i]
    BY <1>2
  <1>4. ASSUME NEW i \in 1..(Len(ss) + 1) PROVE "title" \in DOMAIN Append(ss, s)[i]
    <2>1. CASE i = Len(ss) + 1
      BY <1>3, <2>1
    <2>2. CASE i \in 1..Len(ss)
      BY <1>3, <2>2 DEF Titled
    <2>3. QED BY <1>3, <2>1, <2>2
  <1>5. QED BY <1>3, <1>4 DEF Titled, IsSeq

LEMMA ScreenHasTitle ==
  \A title, text : /\ "title" \in DOMAIN Screen(title, text)
                   /\ Screen(title, text).title = title
  BY DEF Screen

LEMMA NothingTitled == Titled(<<>>) /\ Len(<<>>) = 0
  BY TuplesAreSeqs DEF Titled

\* As many pieces as lines, four of them at most.
Lines(text) == (Len(text) + W - 1) \div W

LEMMA FourLines ==
  ASSUME NEW text, IsSeq(text), Len(text) <= 52
  PROVE  /\ Lines(text) \in Nat /\ Lines(text) <= 4
         /\ 0 < Len(text) => 0 < Lines(text)
  <1>1. PICK n \in Nat : n = Len(text) /\ n <= 52
    BY LenIsNat
  <1>2. PICK w \in Nat : w = W /\ w >= 13
    BY TextAssumption, FieldAssumption
  <1>3. PICK c : c = (n + w - 1) \div w
    OBVIOUS
  <1>4. c \in Nat /\ n <= c * w /\ c * w < n + w
    BY <1>2, <1>3
  <1>5. c <= 4
    <2>1. SUFFICES ASSUME c > 4 PROVE FALSE
      BY <1>4
    <2>2. PICK k \in Nat : c = 5 + k
      <3>1. c - 5 \in Nat /\ c = 5 + (c - 5)
        BY <1>4, <2>1
      <3>2. QED BY <3>1
    <2>3. c * w = 5 * w + k * w /\ k * w \in Nat
      BY <1>2, <2>2
    <2>4. QED BY <1>1, <1>2, <1>4, <2>3
  <1>6. n > 0 => c > 0
    <2>1. c = 0 => c * w = 0
      BY <1>2
    <2>2. QED BY <1>4, <2>1
  <1>7. Lines(text) = c
    BY <1>1, <1>2, <1>3 DEF Lines
  <1>8. QED BY <1>1, <1>4, <1>5, <1>6, <1>7

LEMMA PiecesTitled ==
  ASSUME NEW title, NEW text, IsSeq(text), Len(text) <= 52
  PROVE  Titled(Pieces(title, text)) /\ Len(Pieces(title, text)) = Lines(text)
  <1> DEFINE piece(i) == Screen(title, SubSeq(text, (i - 1) * W + 1, Shorter(i * W, Len(text))))
  <1>1. PICK n \in Nat : n = Lines(text)
    BY FourLines
  <1>2. Pieces(title, text) = [i \in 1..n |-> piece(i)]
    BY <1>1 DEF Pieces, Lines
  <1>3. \A i \in 1..n : "title" \in DOMAIN piece(i)
    BY ScreenHasTitle
  <1> HIDE DEF piece
  <1>4. [i \in 1..n |-> piece(i)] \in Seq({piece(i) : i \in 1..n})
    OBVIOUS
  <1>5. Len([i \in 1..n |-> piece(i)]) = n
    OBVIOUS
  <1>6. QED BY <1>1, <1>2, <1>3, <1>4, <1>5 DEF Titled, IsSeq

LEMMA HashTitled == Titled(display_payload_hash) /\ Len(display_payload_hash) = 6
  <1> DEFINE piece(i) == [Screen("New Contract", SubSeq(PayloadHash, 6 * i - 5, Shorter(6 * i, 32)))
                            EXCEPT !.in_hex = TRUE]
  <1>1. display_payload_hash = [i \in 1..6 |-> piece(i)]
    BY DEF display_payload_hash
  <1>2. \A i \in 1..6 : "title" \in DOMAIN piece(i)
    BY ScreenHasTitle
  <1> HIDE DEF piece
  <1>3. [i \in 1..6 |-> piece(i)] \in Seq({piece(i) : i \in 1..6})
        /\ Len([i \in 1..6 |-> piece(i)]) = 6
    OBVIOUS
  <1>4. QED BY <1>1, <1>2, <1>3 DEF Titled, IsSeq

----------------------------------------------------------------------------
\* The functions of the governance contracts.

Tables == {SystemFunctions, NameFunctions, EnterpriseFunctions}

\* The elements of a prefix.
LEMMA PrefixElements ==
  ASSUME NEW s, NEW t, IsSeq(s), IsSeq(t), IsPrefix(s, t)
  PROVE  Len(s) <= Len(t) /\ \A k \in 1..Len(s) : s[k] = t[k]
  <1>1. PICK S, T : s \in Seq(S) /\ t \in Seq(T)
    BY DEF IsSeq
  <1>1a. Len(s) \in Nat /\ Len(t) \in Nat /\ Len(s) <= Len(t)
        /\ SubSeq(s, 1, Len(s)) = SubSeq(t, 1, Len(s))
    BY <1>1 DEF IsPrefix
  <1>2. ASSUME NEW k \in 1..Len(s) PROVE s[k] = t[k]
    <2>1. SubSeq(s, 1, Len(s))[k] = s[k] /\ SubSeq(t, 1, Len(s))[k] = t[k]
      BY <1>1, <1>1a
    <2>2. QED BY <1>1a, <2>1
  <1>3. QED BY <1>1a, <1>2

\* The syllables of a name.
IsPair(n, a, b)      == IsSeq(n) /\ Len(n) = 2 /\ n[1] = a /\ n[2] = b
IsTriple(n, a, b, c) == IsSeq(n) /\ Len(n) = 3 /\ n[1] = a /\ n[2] = b /\ n[3] = c

LEMMA Syllables ==
  /\ \A a, b : IsPair(<<a, b>>, a, b)
  /\ \A a, b, c : IsTriple(<<a, b, c>>, a, b, c)
  <1>1. \A a, b : <<a, b>>[1] = a /\ <<a, b>>[2] = b
    OBVIOUS
  <1>2. \A a, b, c : <<a, b, c>>[1] = a /\ <<a, b, c>>[2] = b /\ <<a, b, c>>[3] = c
    OBVIOUS
  <1>3. QED BY <1>1, <1>2, TuplesAreSeqs, Zenon DEF IsPair, IsTriple

LEMMA SystemRows ==
  /\ Len(SystemFunctions) = 4 /\ IsSeq(SystemFunctions)
  /\ IsPair(SystemFunctions[1].name, "v1", "stake")
  /\ IsPair(SystemFunctions[2].name, "v1", "unstake")
  /\ IsTriple(SystemFunctions[3].name, "v1", "vote", "BP")
  /\ IsTriple(SystemFunctions[4].name, "v1", "vote", "DAO")
  <1>1. PICK a, b, c, d : SystemFunctions = <<a, b, c, d>>
    BY DEF SystemFunctions
  <1>2. <<a, b, c, d>> \in Seq({a, b, c, d}) /\ Len(<<a, b, c, d>>) = 4
    OBVIOUS
  <1>3. Len(SystemFunctions) = 4 /\ IsSeq(SystemFunctions)
    BY <1>1, <1>2 DEF IsSeq
  <1>5. SystemFunctions[1].name = <<"v1", "stake">>
    BY DEF SystemFunctions
  <1>6. SystemFunctions[2].name = <<"v1", "unstake">>
    BY DEF SystemFunctions
  <1>7. SystemFunctions[3].name = <<"v1", "vote", "BP">>
    BY DEF SystemFunctions
  <1>8. SystemFunctions[4].name = <<"v1", "vote", "DAO">>
    BY DEF SystemFunctions
  <1>9. QED BY <1>3, <1>5, <1>6, <1>7, <1>8, Syllables

LEMMA NameRows ==
  /\ Len(NameFunctions) = 2 /\ IsSeq(NameFunctions)
  /\ IsTriple(NameFunctions[1].name, "v1", "create", "Name")
  /\ IsTriple(NameFunctions[2].name, "v1", "update", "Name")
  <1>1. PICK a, b : NameFunctions = <<a, b>>
    BY DEF NameFunctions
  <1>2. <<a, b>> \in Seq({a, b}) /\ Len(<<a, b>>) = 2
    OBVIOUS
  <1>3. Len(NameFunctions) = 2 /\ IsSeq(NameFunctions)
    BY <1>1, <1>2 DEF IsSeq
  <1>5. NameFunctions[1].name = <<"v1", "create", "Name">>
    BY DEF NameFunctions
  <1>6. NameFunctions[2].name = <<"v1", "update", "Name">>
    BY DEF NameFunctions
  <1>7. QED BY <1>3, <1>5, <1>6, Syllables

LEMMA EnterpriseRows ==
  /\ Len(EnterpriseFunctions) = 6 /\ IsSeq(EnterpriseFunctions)
  /\ IsPair(EnterpriseFunctions[1].name, "append", "Admin")
  /\ IsPair(EnterpriseFunctions[2].name, "remove", "Admin")
  /\ IsPair(EnterpriseFunctions[3].name, "append", "Conf")
  /\ IsPair(EnterpriseFunctions[4].name, "remove", "Conf")
  /\ IsPair(EnterpriseFunctions[5].name, "enable", "Conf")
  /\ IsPair(EnterpriseFunctions[6].name, "change", "Cluster")
  <1>1. PICK a, b, c, d, e, f : EnterpriseFunctions = <<a, b, c, d, e, f>>
    BY DEF EnterpriseFunctions
  <1>2. <<a, b, c, d, e, f>> \in Seq({a, b, c, d, e, f}) /\ Len(<<a, b, c, d, e, f>>) = 6
    OBVIOUS
  <1>3. Len(EnterpriseFunctions) = 6 /\ IsSeq(EnterpriseFunctions)
    BY <1>1, <1>2 DEF IsSeq
  <1>5. EnterpriseFunctions[1].name = <<"append", "Admin">>
    BY DEF EnterpriseFunctions
  <1>6. EnterpriseFunctions[2].name = <<"remove", "Admin">>
    BY DEF EnterpriseFunctions
  <1>7. EnterpriseFunctions[3].name = <<"append", "Conf">>
    BY DEF EnterpriseFunctions
  <1>8. EnterpriseFunctions[4].name = <<"remove", "Conf">>
    BY DEF EnterpriseFunctions
  <1>9. EnterpriseFunctions[5].name = <<"enable", "Conf">>
    BY DEF EnterpriseFunctions
  <1>10. EnterpriseFunctions[6].name = <<"change", "Cluster">>
    BY DEF EnterpriseFunctions
  <1>11. QED BY <1>3, <1>5, <1>6, <1>7, <1>8, <1>9, <1>10, Syllables

LEMMA TableRows ==
  ASSUME NEW table \in Tables
  PROVE  /\ IsSeq(table) /\ Len(table) \in 0..6
         /\ \A i \in 1..Len(table) : IsSeq(table[i].name)
  <1>1. CASE table = SystemFunctions
    <2>1. \A i \in 1..4 : IsSeq(table[i].name)
      BY <1>1, SystemRows DEF IsPair, IsTriple
    <2>2. QED BY <1>1, <2>1, SystemRows
  <1>2. CASE table = NameFunctions
    <2>1. \A i \in 1..2 : IsSeq(table[i].name)
      BY <1>2, NameRows DEF IsPair, IsTriple
    <2>2. QED BY <1>2, <2>1, NameRows
  <1>3. CASE table = EnterpriseFunctions
    <2>1. \A i \in 1..6 : IsSeq(table[i].name)
      BY <1>3, EnterpriseRows DEF IsPair, IsTriple
    <2>2. QED BY <1>3, <2>1, EnterpriseRows
  <1>4. QED BY <1>1, <1>2, <1>3 DEF Tables

\* No name begins another one of its table.
LEMMA NoNameBegins ==
  ASSUME NEW table \in Tables, NEW i \in 1..Len(table), NEW j \in 1..Len(table),
         IsPrefix(table[j].name, table[i].name)
  PROVE  i = j
  <1> DEFINE m == table[i].name
             n == table[j].name
  <1>1. /\ IsSeq(m) /\ IsSeq(n)
        /\ Len(n) <= Len(m)
        /\ \A k \in 1..Len(n) : n[k] = m[k]
    BY TableRows, PrefixElements
  <1> HIDE DEF m, n
  <1>2. CASE table = SystemFunctions
    <2>1. i \in 1..4 /\ j \in 1..4
      BY <1>2, SystemRows
    <2>2. /\ i = 1 => IsPair(m, "v1", "stake")
          /\ i = 2 => IsPair(m, "v1", "unstake")
          /\ i = 3 => IsTriple(m, "v1", "vote", "BP")
          /\ i = 4 => IsTriple(m, "v1", "vote", "DAO")
      BY <1>2, <2>1, SystemRows DEF m
    <2>3. /\ j = 1 => IsPair(n, "v1", "stake")
          /\ j = 2 => IsPair(n, "v1", "unstake")
          /\ j = 3 => IsTriple(n, "v1", "vote", "BP")
          /\ j = 4 => IsTriple(n, "v1", "vote", "DAO")
      BY <1>2, <2>1, SystemRows DEF n
    <2>4. QED BY <1>1, <2>1, <2>2, <2>3 DEF IsPair, IsTriple
  <1>3. CASE table = NameFunctions
    <2>1. i \in 1..2 /\ j \in 1..2
      BY <1>3, NameRows
    <2>2. /\ i = 1 => IsTriple(m, "v1", "create", "Name")
          /\ i = 2 => IsTriple(m, "v1", "update", "Name")
      BY <1>3, <2>1, NameRows DEF m
    <2>3. /\ j = 1 => IsTriple(n, "v1", "create", "Name")
          /\ j = 2 => IsTriple(n, "v1", "update", "Name")
      BY <1>3, <2>1, NameRows DEF n
    <2>4. QED BY <1>1, <2>1, <2>2, <2>3 DEF IsPair, IsTriple
  <1>4. CASE table = EnterpriseFunctions
    <2>1. i \in 1..6 /\ j \in 1..6
      BY <1>4, EnterpriseRows
    <2>2. /\ i = 1 => IsPair(m, "append", "Admin")
          /\ i = 2 => IsPair(m, "remove", "Admin")
          /\ i = 3 => IsPair(m, "append", "Conf")
          /\ i = 4 => IsPair(m, "remove", "Conf")
          /\ i = 5 => IsPair(m, "enable", "Conf")
          /\ i = 6 => IsPair(m, "change", "Cluster")
      BY <1>4, <2>1, EnterpriseRows DEF m
    <2>3. /\ j = 1 => IsPair(n, "append", "Admin")
          /\ j = 2 => IsPair(n, "remove", "Admin")
          /\ j = 3 => IsPair(n, "append", "Conf")
          /\ j = 4 => IsPair(n, "remove", "Conf")
          /\ j = 5 => IsPair(n, "enable", "Conf")
          /\ j = 6 => IsPair(n, "change", "Cluster")
      BY <1>4, <2>1, EnterpriseRows DEF n
    <2>4. QED BY <1>1, <2>1, <2>2, <2>3 DEF IsPair, IsTriple
  <1>5. QED BY <1>2, <1>3, <1>4 DEF Tables

\* A match is a function of the table that the name begins.
LEMMA MatchIsPrefix ==
  ASSUME NEW table \in Tables, NEW name
  PROVE  /\ Match(table, name) \in 0..Len(table)
         /\ Match(table, name) # 0 => IsPrefix(name, table[Match(table, name)].name)
  <1> DEFINE I == {i \in 1..Len(table) : IsPrefix(name, table[i].name)}
  <1>1. Match(table, name) = IF I # {} THEN Min(I) ELSE 0
    BY DEF Match, SelectInSeq, Matches
  <1>2. CASE I = {}
    BY <1>1, <1>2, TableRows, LenIsNat
  <1>3. CASE I # {}
    <2>1. Len(table) \in 0..6
      BY TableRows
    <2>2. I \subseteq 1..6
      BY <2>1
    <2>3. Min(I) \in I
      <3> HIDE DEF I
      <3>1. \E x \in I : \A y \in I : x <= y
        <4>1. SUFFICES ASSUME \A x \in I : ~ \A y \in I : x <= y PROVE FALSE
          BY Zenon
        <4>2. ASSUME NEW n \in 1..6, \A k \in 1..6 : k < n => k \notin I
              PROVE  n \notin I
          BY <2>2, <4>1
        <4>3. 1 \notin I
          BY <4>2
        <4>4. 2 \notin I
          BY <4>2, <4>3
        <4>5. 3 \notin I
          BY <4>2, <4>3, <4>4
        <4>6. 4 \notin I
          BY <4>2, <4>3, <4>4, <4>5
        <4>7. 5 \notin I
          BY <4>2, <4>3, <4>4, <4>5, <4>6
        <4>8. 6 \notin I
          BY <4>2, <4>3, <4>4, <4>5, <4>6, <4>7
        <4>9. PICK x \in I : TRUE
          BY <1>3, Zenon
        <4>10. x \in 1..6
          BY <2>2, <4>9
        <4>11. QED BY <4>3, <4>4, <4>5, <4>6, <4>7, <4>8, <4>9, <4>10
      <3>2. QED BY <3>1 DEF Min
    <2>4. QED BY <1>1, <1>3, <2>3
  <1>4. QED BY <1>2, <1>3

\* A known function is displayed under its own title.
Named(table, name, title) ==
  \E f \in ToSet(table) :
    /\ f.title = title
    /\ f.name = name \/ (IsPrefix(name, f.name) /\ \A g \in ToSet(table) : g.name # name)

LEMMA MatchIsNamed ==
  ASSUME NEW table \in Tables, NEW name, Match(table, name) # 0
  PROVE  Named(table, name, table[Match(table, name)].title)
  <1> DEFINE f == Match(table, name)
  <1>1. f \in 1..Len(table) /\ IsPrefix(name, table[f].name)
    <2>1. f \in 0..Len(table) /\ IsPrefix(name, table[f].name) /\ Len(table) \in Nat
      BY MatchIsPrefix, TableRows
    <2>2. QED BY <2>1
  <1> HIDE DEF f
  <1>2. PICK S : table \in Seq(S)
    BY TableRows DEF IsSeq
  <1>3. ToSet(table) = {table[i] : i \in 1..Len(table)}
    BY <1>2 DEF ToSet
  <1>4. CASE \A g \in ToSet(table) : g.name # name
    <2>1. table[f] \in ToSet(table)
      BY <1>1, <1>3
    <2>2. Named(table, name, table[f].title)
      BY <1>1, <1>4, <2>1, Zenon DEF Named
    <2>3. QED BY <2>2 DEF f
  <1>5. ASSUME NEW g \in ToSet(table), g.name = name
        PROVE  Named(table, name, table[Match(table, name)].title)
    <2>1. PICK j \in 1..Len(table) : g = table[j]
      BY <1>3
    <2>2. IsPrefix(table[j].name, table[f].name)
      BY <1>1, <1>5, <2>1
    <2>3. f = j
      BY <1>1, <2>2, NoNameBegins
    <2>4. g.title = table[f].title
      BY <2>1, <2>3
    <2>5. Named(table, name, table[f].title)
      BY <1>5, <2>4, Zenon DEF Named
    <2>6. QED BY <2>5 DEF f
  <1>6. QED BY <1>4, <1>5

----------------------------------------------------------------------------
\* The outcome of display_transaction.

\* The room that a field takes.
Fields(t) ==
  /\ IsSeq(t.amount) /\ 0 < Len(t.amount) /\ Len(t.amount) <= 52
  /\ IsSeq(t.address) /\ Len(t.address) <= 52

\* The screens of a redeploy.
RedeployScreens(t) ==
  Lines(t.address) + 6
    + IF t.amount = ZeroAmount \/ t.recipient = "system" THEN 0 ELSE Lines(t.amount)

TableOf(recipient) ==
  CASE recipient = "system" -> SystemFunctions
    [] recipient = "name" -> NameFunctions
    [] OTHER -> EnterpriseFunctions

\* A code, or screens, of which there are at most n.
Screens(r, n) ==
  /\ r.sw \in Nat
  /\ Titled(r.screens) /\ Len(r.screens) <= n
  /\ r.sw = 0 => 0 < Len(r.screens)

LastTitle(ss) == ss[Len(ss)].title

LEMMA InvalidScreens ==
  ASSUME NEW pos \in Nat, NEW ss, NEW n \in Nat, Titled(ss), Len(ss) <= n
  PROVE  Screens(Invalid(pos, ss), n) /\ Invalid(pos, ss).sw # 0
  BY DEF Invalid, Screens

\* One screen after those there are.
LEMMA ShownAppend ==
  ASSUME NEW ss, NEW s, NEW n \in Nat, Titled(ss), Len(ss) <= n, "title" \in DOMAIN s
  PROVE  /\ Screens(Shown(Append(ss, s)), n + 1)
         /\ LastTitle(Append(ss, s)) = s.title
  <1>1. Titled(Append(ss, s)) /\ Len(Append(ss, s)) = Len(ss) + 1
        /\ Append(ss, s)[Len(ss) + 1] = s /\ Len(ss) \in Nat
    BY AppendTitled, LenIsNat DEF Titled
  <1>2. Shown(Append(ss, s)).sw = 0 /\ Shown(Append(ss, s)).screens = Append(ss, s)
    BY DEF Shown
  <1>3. QED BY <1>1, <1>2 DEF Screens, LastTitle

LEMMA AmountTitled ==
  ASSUME NEW t, Fields(t)
  PROVE  Titled(AmountScreens(t)) /\ Len(AmountScreens(t)) <= 4
  <1>1. CASE t.amount # ZeroAmount /\ t.recipient # "system"
    <2>1. AmountScreens(t) = Pieces("Amount", t.amount)
      BY <1>1 DEF AmountScreens
    <2>2. IsSeq(t.amount) /\ Len(t.amount) <= 52
      BY DEF Fields
    <2>3. QED BY <2>1, <2>2, PiecesTitled, FourLines
  <1>2. CASE ~(t.amount # ZeroAmount /\ t.recipient # "system")
    <2>1. AmountScreens(t) = <<>>
      BY <1>2 DEF AmountScreens
    <2>2. QED BY <2>1, NothingTitled
  <1>3. QED BY <1>1, <1>2

\* A field after the screens there are.
LEMMA FieldTitled ==
  ASSUME NEW ss, NEW title, NEW text, NEW n \in Nat,
         Titled(ss), Len(ss) <= n, IsSeq(text), Len(text) <= 52
  PROVE  /\ Titled(ss \o Pieces(title, text))
         /\ Len(ss \o Pieces(title, text)) = Len(ss) + Lines(text)
         /\ Len(ss \o Pieces(title, text)) <= n + 4
  <1>1. Titled(Pieces(title, text)) /\ Len(Pieces(title, text)) = Lines(text)
        /\ Lines(text) \in Nat /\ Lines(text) <= 4 /\ Len(ss) \in Nat
    BY PiecesTitled, FourLines, LenIsNat DEF Titled
  <1>2. Titled(ss \o Pieces(title, text))
        /\ Len(ss \o Pieces(title, text)) = Len(ss) + Len(Pieces(title, text))
    BY <1>1, ConcatTitled
  <1>3. QED BY <1>1, <1>2

LEMMA PayloadOutcome ==
  ASSUME NEW t, NEW ss, NEW size, NEW n \in Nat, Titled(ss), Len(ss) <= n
  PROVE  /\ PayloadScreens(t, ss, size).sw = 0
         /\ Titled(PayloadScreens(t, ss, size).screens)
         /\ Len(PayloadScreens(t, ss, size).screens) <= n + 1
         /\ Len(ss) <= Len(PayloadScreens(t, ss, size).screens)
  <1>1. Len(ss) \in Nat
    BY LenIsNat DEF Titled
  <1>2. CASE t.payload = NoPayload
    <2>1. PayloadScreens(t, ss, size) = Shown(ss)
      BY <1>2 DEF PayloadScreens
    <2>2. QED BY <1>1, <2>1 DEF Shown
  <1>3. CASE t.payload # NoPayload
    <2> DEFINE s == Screen("Payload", PayloadFrom(t, 0, size))
    <2>1. /\ PayloadScreens(t, ss, size).sw = 0
          /\ PayloadScreens(t, ss, size).screens = Append(ss, s)
      BY <1>3 DEF PayloadScreens, Shown
    <2>2. "title" \in DOMAIN s
      BY ScreenHasTitle
    <2> HIDE DEF s
    <2>3. QED BY <1>1, <2>1, <2>2, AppendTitled
  <1>4. QED BY <1>2, <1>3

LEMMA TransferOutcome ==
  ASSUME NEW t, NEW ss, NEW size, Fields(t), Titled(ss), Len(ss) <= 4
  PROVE  Screens(transfer(t, ss, size), 9)
  <1> DEFINE before == IF ss = <<>> THEN Pieces("Amount", t.amount) ELSE ss
             all    == before \o Pieces("Recipient", t.address)
  <1>1. IsSeq(t.address) /\ Len(t.address) <= 52
    BY DEF Fields
  <1>2. Titled(before) /\ Len(before) <= 4 /\ 0 < Len(before)
    <2>1. CASE ss = <<>>
      <3>1. IsSeq(t.amount) /\ 0 < Len(t.amount) /\ Len(t.amount) <= 52
        BY DEF Fields
      <3>2. before = Pieces("Amount", t.amount)
        BY <2>1
      <3>3. QED BY <3>1, <3>2, PiecesTitled, FourLines
    <2>2. CASE ss # <<>>
      <3>1. PICK S : ss \in Seq(S)
        BY DEF Titled, IsSeq
      <3>2. 0 < Len(ss)
        BY <2>2, <3>1
      <3>3. QED BY <2>2, <3>2
    <2>3. QED BY <2>1, <2>2
  <1>3. transfer(t, ss, size) = PayloadScreens(t, all, size)
    BY DEF transfer
  <1> HIDE DEF before
  <1>4. Titled(all) /\ Len(all) = Len(before) + Lines(t.address) /\ Len(all) <= 4 + 4
    BY <1>1, <1>2, FieldTitled
  <1>5. 0 < Len(all) /\ Len(all) <= 8
    BY <1>1, <1>2, <1>4, FourLines
  <1> HIDE DEF all
  <1>6. /\ transfer(t, ss, size).sw = 0
        /\ Titled(transfer(t, ss, size).screens)
        /\ Len(transfer(t, ss, size).screens) <= 8 + 1
        /\ Len(all) <= Len(transfer(t, ss, size).screens)
    BY <1>3, <1>4, <1>5, PayloadOutcome
  <1>7. Len(all) \in Nat /\ Len(transfer(t, ss, size).screens) \in Nat
    BY <1>4, <1>6, LenIsNat DEF Titled
  <1>8. QED BY <1>5, <1>6, <1>7 DEF Screens

LEMMA CallOutcome ==
  ASSUME NEW t, NEW ss, NEW size, Fields(t), Titled(ss), Len(ss) <= 4
  PROVE  Screens(call(t, ss, size), 9)
  <1> DEFINE contract == ss \o Pieces("Contract", t.address)
             default  == Screen("Function", <<100, 101, 102, 97, 117, 108, 116>>)
             function == [Screen("Function", PayloadFrom(t, 9, size))
                            EXCEPT !.is_call = TRUE, !.trim_payload = TRUE]
  <1>1. IsSeq(t.address) /\ Len(t.address) <= 52
    BY DEF Fields
  <1>2. Titled(contract) /\ Len(contract) <= 4 + 4
    BY <1>1, FieldTitled
  <1>3. "title" \in DOMAIN default /\ "title" \in DOMAIN function
    BY ScreenHasTitle
  <1>4. call(t, ss, size) \in
          {Shown(Append(contract, default)), Shown(Append(contract, function)), Invalid(2, contract)}
    BY Zenon DEF call
  <1> HIDE DEF contract, default, function
  <1>5. /\ Screens(Shown(Append(contract, default)), 8 + 1)
        /\ Screens(Shown(Append(contract, function)), 8 + 1)
    BY <1>2, <1>3, ShownAppend
  <1>6. Screens(Invalid(2, contract), 9)
    <2>1. Len(contract) <= 9
      BY <1>2, LenIsNat DEF Titled
    <2>2. QED BY <1>2, <2>1, InvalidScreens
  <1>7. QED BY <1>4, <1>5, <1>6

LEMMA MulticallOutcome ==
  ASSUME NEW t, NEW ss, NEW size, Titled(ss), Len(ss) <= 4
  PROVE  Screens(multicall(t, ss, size), 9)
  <1> DEFINE s == [Screen("MultiCall", PayloadFrom(t, 1, size)) EXCEPT !.is_multicall = TRUE]
  <1>1. "title" \in DOMAIN s
    BY ScreenHasTitle
  <1>2. multicall(t, ss, size) \in {Invalid(3, ss), Shown(Append(ss, s))}
    BY Zenon DEF multicall
  <1> HIDE DEF s
  <1>3. Len(ss) \in Nat /\ Len(ss) <= 8 /\ Len(ss) <= 9
    BY LenIsNat DEF Titled
  <1>4. Screens(Shown(Append(ss, s)), 8 + 1)
    BY <1>1, <1>3, ShownAppend
  <1>5. Screens(Invalid(3, ss), 9)
    BY <1>3, InvalidScreens
  <1>6. QED BY <1>2, <1>4, <1>5

\* The screens of a known function.
GovernanceScreens(t, r) ==
  /\ Screens(r, 9)
  /\ r.sw = 0 => Named(TableOf(t.recipient), t.payload.name, LastTitle(r.screens))

LEMMA ArgsOutcome ==
  ASSUME NEW t, NEW ss, NEW title, NEW size, Titled(ss), Len(ss) <= 8
  PROVE  /\ Screens(ArgsScreen(t, ss, title, size), 9)
         /\ LastTitle(ArgsScreen(t, ss, title, size).screens) = title
  <1> DEFINE s == [Screen(title, PayloadFrom(t, ArgsAt(t), size)) EXCEPT !.trim_payload = TRUE]
  <1>1. "title" \in DOMAIN s /\ s.title = title
    BY ScreenHasTitle
  <1>2. ArgsScreen(t, ss, title, size) = Shown(Append(ss, s))
    BY DEF ArgsScreen
  <1> HIDE DEF s
  <1>3. Shown(Append(ss, s)).screens = Append(ss, s)
    BY DEF Shown
  <1>4. Screens(Shown(Append(ss, s)), 8 + 1) /\ LastTitle(Append(ss, s)) = s.title
    BY <1>1, ShownAppend
  <1>5. QED BY <1>1, <1>2, <1>3, <1>4

LEMMA SystemOutcome ==
  ASSUME NEW t, NEW ss, NEW size, Fields(t), t.recipient = "system", Titled(ss), Len(ss) <= 4
  PROVE  GovernanceScreens(t, system(t, ss, size))
  <1> DEFINE f == Match(SystemFunctions, t.payload.name)
             amount == Screen(SystemFunctions[f].title, t.amount)
             all == ss \o IF t.amount # ZeroAmount THEN Pieces("Amount", t.amount) ELSE <<>>
             title == SystemFunctions[f].title
  <1>1. TableOf(t.recipient) = SystemFunctions /\ SystemFunctions \in Tables
    BY DEF TableOf, Tables
  <1>2. f \in 0..4 /\ (f # 0 => Named(SystemFunctions, t.payload.name, title))
    BY <1>1, SystemRows, MatchIsPrefix, MatchIsNamed
  <1>3. Titled(all) /\ Len(all) <= 8
    <2>1. IsSeq(t.amount) /\ Len(t.amount) <= 52 /\ Len(ss) \in Nat
      BY LenIsNat DEF Fields, Titled
    <2>2. CASE t.amount # ZeroAmount
      <3>1. all = ss \o Pieces("Amount", t.amount)
        BY <2>2
      <3>2. Titled(ss \o Pieces("Amount", t.amount)) /\ Len(ss \o Pieces("Amount", t.amount)) <= 4 + 4
        BY <2>1, FieldTitled
      <3>3. QED BY <3>1, <3>2
    <2>3. CASE t.amount = ZeroAmount
      <3>1. all = ss \o <<>>
        BY <2>3
      <3>2. Titled(ss \o <<>>) /\ Len(ss \o <<>>) = Len(ss) + 0
        BY ConcatTitled, NothingTitled, Zenon
      <3> HIDE DEF all
      <3>3. Titled(all) /\ Len(all) = Len(ss) + 0
        BY <3>1, <3>2
      <3>4. QED BY <2>1, <3>3
    <2>4. QED BY <2>2, <2>3
  <1>4. "title" \in DOMAIN amount /\ amount.title = title
    BY ScreenHasTitle
  <1>5. \/ system(t, ss, size) \in {Invalid(5, ss), Invalid(6, ss)}
        \/ f # 0 /\ system(t, ss, size) = Shown(Append(ss, amount))
        \/ f # 0 /\ system(t, ss, size) = ArgsScreen(t, all, title, size)
    <2>1. CASE f = 0
      BY <2>1 DEF system
    <2>2. CASE f \in {1, 2}
      BY <2>2 DEF system
    <2>3. CASE f \in {3, 4}
      <3>1. CASE ~HasArgs(t, size)
        BY <2>3, <3>1 DEF system
      <3>2. CASE HasArgs(t, size)
        <4>1. system(t, ss, size) = ArgsScreen(t, all, title, size)
          BY <2>3, <3>2 DEF system
        <4>2. QED BY <2>3, <4>1
      <3>3. QED BY <3>1, <3>2
    <2>4. QED BY <1>2, <2>1, <2>2, <2>3
  <1> HIDE DEF f, amount, all, title
  <1>6. Len(ss) \in Nat /\ Len(ss) <= 8 /\ Len(ss) <= 9
    BY LenIsNat DEF Titled
  <1>7. CASE system(t, ss, size) \in {Invalid(5, ss), Invalid(6, ss)}
    <2>1. /\ Screens(Invalid(5, ss), 9) /\ Invalid(5, ss).sw # 0
          /\ Screens(Invalid(6, ss), 9) /\ Invalid(6, ss).sw # 0
      BY <1>6, InvalidScreens
    <2>2. QED BY <1>7, <2>1 DEF GovernanceScreens
  <1>8. CASE f # 0 /\ system(t, ss, size) = Shown(Append(ss, amount))
    <2>1. Screens(Shown(Append(ss, amount)), 8 + 1) /\ LastTitle(Append(ss, amount)) = title
      BY <1>4, <1>6, ShownAppend
    <2>2. Shown(Append(ss, amount)).screens = Append(ss, amount)
      BY DEF Shown
    <2>3. QED BY <1>1, <1>2, <1>8, <2>1, <2>2 DEF GovernanceScreens
  <1>9. CASE f # 0 /\ system(t, ss, size) = ArgsScreen(t, all, title, size)
    BY <1>1, <1>2, <1>3, <1>9, ArgsOutcome DEF GovernanceScreens
  <1>10. QED BY <1>5, <1>7, <1>8, <1>9

LEMMA ConfigurationOutcome ==
  ASSUME NEW t, NEW ss, NEW size, NEW table \in Tables, NEW pos \in Nat,
         table = TableOf(t.recipient), Titled(ss), Len(ss) <= 4
  PROVE  GovernanceScreens(t, configuration(t, ss, size, table, pos))
  <1> DEFINE f == Match(table, t.payload.name)
             r == configuration(t, ss, size, table, pos)
  <1>1. \/ r \in {Invalid(pos, ss), Invalid(pos + 1, ss)}
        \/ f # 0 /\ r = ArgsScreen(t, ss, table[f].title, size)
    <2>1. CASE ~HasArgs(t, size)
      BY <2>1 DEF configuration
    <2>2. CASE HasArgs(t, size) /\ f = 0
      BY <2>2 DEF configuration
    <2>3. CASE HasArgs(t, size) /\ f # 0
      BY <2>3 DEF configuration
    <2>4. QED BY <2>1, <2>2, <2>3
  <1>2. f # 0 => Named(table, t.payload.name, table[f].title)
    BY MatchIsNamed
  <1> HIDE DEF f, r
  <1>3. Len(ss) \in Nat /\ Len(ss) <= 8 /\ Len(ss) <= 9
    BY LenIsNat DEF Titled
  <1>4. CASE r \in {Invalid(pos, ss), Invalid(pos + 1, ss)}
    <2>1. /\ Screens(Invalid(pos, ss), 9) /\ Invalid(pos, ss).sw # 0
          /\ Screens(Invalid(pos + 1, ss), 9) /\ Invalid(pos + 1, ss).sw # 0
      BY <1>3, InvalidScreens
    <2>2. GovernanceScreens(t, r)
      BY <1>4, <2>1 DEF GovernanceScreens
    <2>3. QED BY <2>2 DEF r
  <1>5. CASE f # 0 /\ r = ArgsScreen(t, ss, table[f].title, size)
    <2>1. GovernanceScreens(t, r)
      BY <1>2, <1>3, <1>5, ArgsOutcome DEF GovernanceScreens
    <2>2. QED BY <2>1 DEF r
  <1>6. QED BY <1>1, <1>4, <1>5

LEMMA GovernanceOutcome ==
  ASSUME NEW t, NEW ss, NEW size, Fields(t), Titled(ss), Len(ss) <= 4
  PROVE  GovernanceScreens(t, governance(t, ss, size))
  <1> DEFINE r == governance(t, ss, size)
  <1>1. Len(ss) \in Nat /\ Len(ss) <= 9
    BY LenIsNat DEF Titled
  <1>2. CASE r \in {Invalid(4, ss), Invalid(11, ss)}
    <2>1. /\ Screens(Invalid(4, ss), 9) /\ Invalid(4, ss).sw # 0
          /\ Screens(Invalid(11, ss), 9) /\ Invalid(11, ss).sw # 0
      BY <1>1, InvalidScreens
    <2>2. QED BY <1>2, <2>1 DEF GovernanceScreens
  <1>3. CASE t.recipient = "system" /\ r = system(t, ss, size)
    BY <1>3, SystemOutcome
  <1>4. CASE t.recipient = "name" /\ r = configuration(t, ss, size, NameFunctions, 7)
    <2>1. NameFunctions = TableOf(t.recipient) /\ NameFunctions \in Tables
      BY <1>4 DEF TableOf, Tables
    <2>2. QED BY <1>4, <2>1, ConfigurationOutcome
  <1>5. CASE t.recipient = "enterprise" /\ r = configuration(t, ss, size, EnterpriseFunctions, 9)
    <2>1. EnterpriseFunctions = TableOf(t.recipient) /\ EnterpriseFunctions \in Tables
      BY <1>5 DEF TableOf, Tables
    <2>2. QED BY <1>5, <2>1, ConfigurationOutcome
  <1>6. QED BY <1>2, <1>3, <1>4, <1>5 DEF governance

LEMMA NormalOutcome ==
  ASSUME NEW t, NEW ss, NEW size, Fields(t), Titled(ss), Len(ss) <= 4
  PROVE  Screens(normal(t, ss, size), 9)
  <1> DEFINE all == ss \o Pieces("Recipient", t.address)
             shown == PayloadScreens(t, all, size)
  <1>1. IsSeq(t.address) /\ Len(t.address) <= 52
    BY DEF Fields
  <1>2. Titled(all) /\ Len(all) <= 4 + 4
    BY <1>1, FieldTitled
  <1>3. normal(t, ss, size) = IF shown.screens = <<>> THEN Invalid(14, <<>>) ELSE shown
    BY DEF normal
  <1> HIDE DEF all
  <1>4. shown.sw = 0 /\ Titled(shown.screens) /\ Len(shown.screens) <= 8 + 1
    BY <1>2, PayloadOutcome
  <1> HIDE DEF shown
  <1>5. CASE shown.screens = <<>>
    <2>1. Screens(Invalid(14, <<>>), 9)
      <3>1. Len(<<>>) <= 9
        BY NothingTitled
      <3>2. QED BY <3>1, NothingTitled, InvalidScreens
    <2>2. QED BY <1>3, <1>5, <2>1
  <1>6. CASE shown.screens # <<>>
    <2>1. PICK S : shown.screens \in Seq(S)
      BY <1>4 DEF Titled, IsSeq
    <2>2. 0 < Len(shown.screens) /\ Len(shown.screens) <= 9
      BY <1>4, <1>6, <2>1
    <2>3. Screens(shown, 9)
      BY <1>4, <2>2 DEF Screens
    <2>4. QED BY <1>3, <1>6, <2>3
  <1>7. QED BY <1>5, <1>6

LEMMA DeployOutcome ==
  ASSUME NEW t, NEW ss, Titled(ss), Len(ss) <= 4
  PROVE  Screens(Shown(ss \o display_payload_hash), 10)
  <1> DEFINE all == ss \o display_payload_hash
  <1>1. Titled(all) /\ Len(all) = Len(ss) + 6 /\ Len(ss) \in Nat
    <2>1. Titled(all) /\ Len(all) = Len(ss) + Len(display_payload_hash)
      BY HashTitled, ConcatTitled
    <2>2. QED BY <2>1, HashTitled, LenIsNat DEF Titled
  <1> HIDE DEF all
  <1>2. Shown(all).sw = 0 /\ Shown(all).screens = all
    BY DEF Shown
  <1>3. Screens(Shown(all), 10)
    BY <1>1, <1>2 DEF Screens
  <1>4. QED BY <1>3 DEF all

LEMMA RedeployOutcome ==
  ASSUME NEW t, Fields(t)
  PROVE  LET r == Shown(AmountScreens(t) \o Pieces("Redeploy", t.address) \o display_payload_hash)
         IN  Screens(r, 14) /\ Len(r.screens) = RedeployScreens(t)
  <1> DEFINE ss == AmountScreens(t)
             fields == ss \o Pieces("Redeploy", t.address)
             all == fields \o display_payload_hash
             amount == IF t.amount = ZeroAmount \/ t.recipient = "system" THEN 0 ELSE Lines(t.amount)
  <1>1. IsSeq(t.amount) /\ Len(t.amount) <= 52 /\ IsSeq(t.address) /\ Len(t.address) <= 52
    BY DEF Fields
  <1>2. Titled(ss) /\ Len(ss) <= 4 /\ Len(ss) \in Nat
    BY AmountTitled, LenIsNat DEF Titled
  <1>3. Len(ss) = amount
    <2>1. CASE t.amount = ZeroAmount \/ t.recipient = "system"
      <3>1. ss = <<>> /\ amount = 0
        BY <2>1 DEF AmountScreens
      <3>2. QED BY <3>1, NothingTitled
    <2>2. CASE ~(t.amount = ZeroAmount \/ t.recipient = "system")
      <3>1. ss = Pieces("Amount", t.amount) /\ amount = Lines(t.amount)
        BY <2>2 DEF AmountScreens
      <3>2. QED BY <1>1, <3>1, PiecesTitled
    <2>3. QED BY <2>1, <2>2
  <1> HIDE DEF ss
  <1>4. Titled(fields) /\ Len(fields) = Len(ss) + Lines(t.address)
    BY <1>1, <1>2, FieldTitled
  <1> HIDE DEF fields
  <1>5. Titled(all) /\ Len(all) = Len(fields) + 6
    <2>1. Titled(all) /\ Len(all) = Len(fields) + Len(display_payload_hash)
      BY <1>4, HashTitled, ConcatTitled
    <2>2. QED BY <2>1, HashTitled
  <1> HIDE DEF all
  <1>6. Lines(t.address) \in Nat /\ Lines(t.address) <= 4
    BY <1>1, FourLines
  <1>7. RedeployScreens(t) = Lines(t.address) + 6 + amount
    BY DEF RedeployScreens
  <1> HIDE DEF amount
  <1>8. Titled(all) /\ Len(all) = RedeployScreens(t) /\ 0 < Len(all) /\ Len(all) <= 14
    BY <1>2, <1>3, <1>4, <1>5, <1>6, <1>7
  <1>9. Shown(all).sw = 0 /\ Shown(all).screens = all
    BY DEF Shown
  <1>10. Screens(Shown(all), 14) /\ Len(Shown(all).screens) = RedeployScreens(t)
    BY <1>8, <1>9 DEF Screens
  <1>11. QED BY <1>10 DEF all, fields, ss

\* What display_transaction does to the screens.
Outcome(t, r) ==
  /\ r.sw \in Nat
  /\ Titled(r.screens)
  /\ r.sw = 0 => 0 < Len(r.screens)
  /\ t.type # "redeploy" => Len(r.screens) <= MaxScreens
  /\ t.type = "redeploy" => Len(r.screens) = RedeployScreens(t) /\ 0 < Len(r.screens)
  /\ t.type = "governance" /\ r.sw = 0 =>
       Named(TableOf(t.recipient), t.payload.name, LastTitle(r.screens))

LEMMA DisplayTransaction ==
  ASSUME NEW t, NEW size, Fields(t)
  PROVE  Outcome(t, display_transaction(t, size))
  <1> DEFINE ss == AmountScreens(t)
             r  == display_transaction(t, size)
  <1>1. Titled(ss) /\ Len(ss) <= 4 /\ Len(ss) \in Nat
    BY AmountTitled, LenIsNat DEF Titled
  <1>2. ASSUME Screens(r, 10), t.type # "redeploy", t.type # "governance" PROVE Outcome(t, r)
    BY <1>2 DEF Screens, Outcome, MaxScreens
  <1>3. ASSUME Screens(r, 9) PROVE Screens(r, 10)
    BY <1>3, LenIsNat DEF Screens, Titled
  <1>4. CASE t.type = "transfer"
    <2>1. r = transfer(t, ss, size)
      BY <1>4 DEF display_transaction
    <2>2. QED BY <1>1, <1>2, <1>3, <1>4, <2>1, TransferOutcome
  <1>5. CASE t.type \in {"call", "feedelegation"}
    <2>1. r = call(t, ss, size)
      BY <1>5 DEF display_transaction
    <2>2. QED BY <1>1, <1>2, <1>3, <1>5, <2>1, CallOutcome
  <1>6. CASE t.type = "multicall"
    <2>1. r = multicall(t, ss, size)
      BY <1>6 DEF display_transaction
    <2>2. QED BY <1>1, <1>2, <1>3, <1>6, <2>1, MulticallOutcome
  <1>7. CASE t.type = "governance"
    <2>1. r = governance(t, ss, size)
      BY <1>7 DEF display_transaction
    <2>2. GovernanceScreens(t, r)
      BY <1>1, <2>1, GovernanceOutcome
    <2> HIDE DEF r
    <2>3. Screens(r, 10)
      BY <2>2, LenIsNat DEF GovernanceScreens, Screens, Titled
    <2>4. Outcome(t, r)
      BY <1>7, <2>2, <2>3 DEF GovernanceScreens, Screens, Outcome, MaxScreens
    <2>5. QED BY <2>4 DEF r
  <1>8. CASE t.type = "deploy"
    <2>1. r = Shown(ss \o display_payload_hash)
      BY <1>8 DEF display_transaction
    <2>2. QED BY <1>1, <1>2, <1>8, <2>1, DeployOutcome
  <1>9. CASE t.type = "redeploy"
    <2>1. r = Shown(ss \o Pieces("Redeploy", t.address) \o display_payload_hash)
      BY <1>9 DEF display_transaction
    <2>2. Screens(r, 14) /\ Len(r.screens) = RedeployScreens(t)
      BY <2>1, RedeployOutcome
    <2>3. r.sw = 0
      BY <2>1 DEF Shown
    <2> HIDE DEF r
    <2>4. Outcome(t, r)
      BY <1>9, <2>2, <2>3 DEF Screens, Outcome
    <2>5. QED BY <2>4 DEF r
  <1>10. CASE t.type = "normal"
    <2>1. r = normal(t, ss, size)
      BY <1>10 DEF display_transaction
    <2>2. QED BY <1>1, <1>2, <1>3, <1>10, <2>1, NormalOutcome
  <1>11. CASE t.type \notin {"transfer", "call", "feedelegation", "multicall", "governance",
                             "deploy", "redeploy", "normal"}
    <2>1. r = Invalid(21, ss)
      BY <1>11 DEF display_transaction
    <2>2. Len(ss) <= 10
      BY <1>1
    <2>3. QED BY <1>1, <1>2, <1>11, <2>1, <2>2, InvalidScreens
  <1>12. QED BY <1>4, <1>5, <1>6, <1>7, <1>8, <1>9, <1>10, <1>11

----------------------------------------------------------------------------
\* Where the pager is.

\* Nothing has been put on the screens.
Blank ==
  /\ screens = <<>> /\ pages = <<>>
  /\ current_screen = 0 /\ current_page = 0 /\ page_to_display = 0

Waiting == phase = "start" \/ (IsDeploy /\ phase = "await")
Seeking == phase = "parse" \/ (~IsDeploy /\ phase = "await")

TypesInv ==
  /\ doc \in Docs /\ part \in Nat /\ part <= Len(doc.cut)
  /\ phase \in Phases /\ sw \in Nat /\ restarted \in BOOLEAN
  /\ Titled(screens)
  /\ current_screen \in Nat /\ current_screen <= Len(screens)
  /\ current_page \in Nat /\ page_to_display \in Nat
  /\ Len(global_text) <= W
  /\ IsSeq(pages) /\ \A n \in 1..Len(pages) : Len(pages[n][2]) <= W

\* A part is awaited only when there is one; a contract is shown when all has come.
PartsInv ==
  /\ phase = "start" => part = 0
  /\ phase = "await" => part < Len(doc.cut)
  /\ IsDeploy /\ ~Waiting => part = Len(doc.cut)

\* The screens are those that display_transaction made.
ScreensInv ==
  /\ Waiting => Blank
  /\ ~Waiting /\ phase \notin {"refused", "overrun"} => 0 < Len(screens)
  /\ doc.t.type # "redeploy" => Len(screens) <= MaxScreens
  /\ doc.t.type = "redeploy" /\ 0 < Len(screens) => Len(screens) = RedeployScreens(doc.t)
  /\ doc.t.type = "governance" /\ phase \notin {"start", "refused"} =>
       Named(TableOf(doc.t.recipient), doc.t.payload.name, LastTitle(screens))

\* The pages are displayed one after the other, and a screen is begun before
\* it is read.
CursorInv ==
  /\ phase = "idle" =>
       /\ Len(pages) = page_to_display
       /\ page_to_display = current_page \/ page_to_display = current_page + 1
       /\ current_screen = 0 => current_page = 0
       /\ current_page = 0 => current_screen = page_to_display
  /\ Seeking =>
       /\ 0 < current_screen /\ page_to_display = current_page + 1
       /\ current_page <= Len(pages)
       /\ current_page = 0 => current_screen = 1

DInv == PageFits(parser) /\ TypesInv /\ PartsInv /\ ScreensInv /\ CursorInv

LEMMA DocFields ==
  ASSUME NEW d \in Docs
  PROVE  Fields(d.t) /\ Len(d.cut) \in Nat /\ 0 < Len(d.cut)
  <1>1. d.cut \in Seq(Nat) /\ d.cut # <<>>
    BY DocAssumption, FieldAssumption
  <1>2. Len(d.cut) \in Nat /\ 0 < Len(d.cut)
    BY <1>1
  <1>3. /\ d.t.amount \in Seq(Printable) /\ 0 < Len(d.t.amount) /\ Len(d.t.amount) <= 47
        /\ d.t.address \in Seq(0..255) /\ Len(d.t.address) <= 52
    BY FieldAssumption
  <1>4. Fields(d.t)
    BY <1>3 DEF Fields, IsSeq
  <1>5. QED BY <1>2, <1>4

LEMMA InitDInv == Init => DInv
  <1> SUFFICES ASSUME Init PROVE DInv
    OBVIOUS
  <1>1. PageFits(parser)
    BY InitFits
  <1>2. TypesInv
    <2>1. /\ doc \in Docs /\ part = 0 /\ phase = "start" /\ sw = 0 /\ restarted = FALSE
          /\ screens = <<>> /\ pages = <<>> /\ global_text = <<>>
          /\ current_screen = 0 /\ current_page = 0 /\ page_to_display = 0
      BY DEF Init
    <2>2. 0 <= Len(doc.cut)
      BY <2>1, DocFields
    <2>3. Len(global_text) <= W
      BY <2>1, NothingTitled, TextAssumption
    <2>4. IsSeq(pages) /\ \A n \in 1..Len(pages) : Len(pages[n][2]) <= W
      BY <2>1, NothingTitled DEF Titled
    <2>5. Titled(screens) /\ 0 <= Len(screens)
      BY <2>1, NothingTitled
    <2>6. QED BY <2>1, <2>2, <2>3, <2>4, <2>5 DEF TypesInv, Phases
  <1>3. PartsInv /\ CursorInv
    BY DEF Init, PartsInv, CursorInv, Waiting, Seeking
  <1>4. ScreensInv
    <2>1. phase = "start" /\ Blank /\ screens = <<>>
      BY DEF Init, Blank
    <2>2. Len(screens) = 0
      BY <2>1, NothingTitled
    <2>3. QED BY <2>1, <2>2 DEF ScreensInv, Waiting, MaxScreens
  <1>5. QED BY <1>1, <1>2, <1>3, <1>4 DEF DInv

\* What the pager does when it begins a screen or goes on.
LEMMA PrepareOutcome ==
  ASSUME NEW ss, NEW n, NEW k, prepare_screen(ss, n, k)
  PROVE  /\ phase' \in {"parse", "await"} /\ (phase' = "await" => has_partial_payload(k))
         /\ current_screen' = n /\ current_page' = n - 1
  BY DEF prepare_screen, parse_next_page, txn_is_complete

LEMMA SeekOutcome ==
  ASSUME NEW t, NEW page, NEW k, SeekPage(t, page, k)
  PROVE  phase' \in {"ended", "parse", "await"} /\ (phase' = "await" => has_partial_payload(k))
  BY DEF SeekPage, parse_next_page, txn_is_complete

\* A step that only goes on or asks for a part, with the screens as they are.
LEMMA GoesOn ==
  ASSUME TypesInv, PartsInv, ScreensInv, ~Waiting, phase \notin {"refused", "overrun"},
         UNCHANGED <<doc, part, screens>>,
         phase' \in {"idle", "ended", "parse", "await"},
         phase' = "await" => has_partial_payload(part)
  PROVE  PartsInv' /\ ScreensInv' /\ ~Waiting'
  <1>1. IsDeploy' = IsDeploy /\ doc' = doc /\ part' = part /\ screens' = screens
    BY DEF IsDeploy
  <1>2. IsDeploy => part = Len(doc.cut)
    BY DEF PartsInv
  <1>3. Len(doc.cut) \in Nat /\ part \in Nat
    BY DocFields DEF TypesInv
  <1>4. phase' = "await" => part < Len(doc.cut)
    BY DEF has_partial_payload
  <1>5. ~Waiting'
    BY <1>1, <1>2, <1>3, <1>4 DEF Waiting
  <1>6. PartsInv'
    BY <1>1, <1>2, <1>4 DEF PartsInv
  <1>7. phase # "start"
    BY DEF Waiting
  <1>8. ScreensInv'
    BY <1>1, <1>5, <1>7 DEF ScreensInv
  <1>9. QED BY <1>5, <1>6, <1>8

\* A page has room for W characters.
LEMMA PageTextFits ==
  ASSUME NEW page, PageFits(parser)
  PROVE  Len(PageText(page)) <= W
  <1>1. PICK S : parser.parsed \in Seq(S)
    BY DEF PageFits, HasPage, IsSeq
  <1>2. PICK w \in Nat : w = W
    BY TextAssumption
  <1> DEFINE k == Shorter(w, Len(parser.parsed))
             s == SubSeq(parser.parsed, 1, k)
  <1>3. k \in Nat /\ k <= w /\ k <= Len(parser.parsed)
    BY <1>1, <1>2 DEF Shorter
  <1> HIDE DEF k
  <1>4. s \in Seq(S) /\ Len(s) = k
    BY <1>1, <1>3
  <1>5. PageText(page) = IF AtMaxPages(page) /\ Len(s) > 5
                         THEN SubSeq(s, 1, Len(s) - 3) \o <<46, 46, 46>> ELSE s
    BY <1>2 DEF PageText, k
  <1> HIDE DEF s
  <1>6. CASE Len(s) > 5
    <2>1. SubSeq(s, 1, Len(s) - 3) \in Seq(S) /\ Len(SubSeq(s, 1, Len(s) - 3)) = Len(s) - 3
      BY <1>3, <1>4, <1>6
    <2>2. IsSeq(SubSeq(s, 1, Len(s) - 3)) /\ IsSeq(<<46, 46, 46>>) /\ Len(<<46, 46, 46>>) = 3
      BY <2>1, TuplesAreSeqs DEF IsSeq
    <2>3. Len(SubSeq(s, 1, Len(s) - 3) \o <<46, 46, 46>>) = (Len(s) - 3) + 3
      BY <2>1, <2>2, ConcatIsSeq
    <2>4. QED BY <1>2, <1>3, <1>4, <1>5, <2>3
  <1>7. CASE ~(Len(s) > 5)
    BY <1>2, <1>3, <1>4, <1>5, <1>7
  <1>8. QED BY <1>6, <1>7

\* The page asked for comes after those before it.
LEMMA ShowOutcome ==
  ASSUME NEW text, Show(text), Len(text) <= W, TypesInv,
         page_to_display = current_page + 1, current_page <= Len(pages)
  PROVE  /\ phase' = "idle"
         /\ IsSeq(pages') /\ Len(pages') = page_to_display
         /\ \A n \in 1..Len(pages') : Len(pages'[n][2]) <= W
  <1>1. PICK S : pages \in Seq(S)
    BY DEF TypesInv, IsSeq
  <1> DEFINE m == current_page
             p == <<parser.title, text>>
             before == SubSeq(pages, 1, m)
  <1>2. m \in Nat /\ m <= Len(pages) /\ page_to_display - 1 = m
    BY DEF TypesInv
  <1>3. pages' = Append(before, p) /\ phase' = "idle"
    BY <1>2 DEF Show
  <1>4. p[2] = text
    OBVIOUS
  <1> HIDE DEF m, p
  <1>5. before \in Seq(S) /\ Len(before) = m /\ \A n \in 1..m : before[n] = pages[n]
    BY <1>1, <1>2
  <1>6. before \in Seq(S \cup {p}) /\ p \in S \cup {p}
    BY <1>5
  <1> HIDE DEF before
  <1>7. /\ pages' \in Seq(S \cup {p}) /\ Len(pages') = m + 1
        /\ pages'[m + 1] = p /\ \A n \in 1..m : pages'[n] = before[n]
    BY <1>2, <1>3, <1>5, <1>6
  <1>8. ASSUME NEW n \in 1..(m + 1) PROVE Len(pages'[n][2]) <= W
    <2>1. CASE n = m + 1
      BY <1>4, <1>7, <2>1
    <2>2. CASE n \in 1..m
      <3>1. pages'[n] = pages[n] /\ n \in 1..Len(pages)
        BY <1>1, <1>2, <1>5, <1>7, <2>2
      <3>2. QED BY <3>1 DEF TypesInv
    <2>3. QED BY <1>2, <2>1, <2>2
  <1>9. page_to_display = m + 1
    BY DEF m
  <1>10. QED BY <1>3, <1>7, <1>8, <1>9 DEF IsSeq

LEMMA EndOfPageInv ==
  ASSUME DInv, EndOfPage
  PROVE  DInv'
  <1>1. /\ phase = "parse" /\ Seeking /\ ~Waiting /\ phase \notin {"refused", "overrun"}
        /\ UNCHANGED <<doc, part, sw, screens, current_screen, page_to_display, restarted>>
    BY DEF EndOfPage, documentVars, screenVars, Seeking, Waiting
  <1>2. TypesInv /\ PartsInv /\ ScreensInv /\ CursorInv /\ PageFits(parser)
    BY DEF DInv
  <1>3. /\ 0 < current_screen /\ page_to_display = current_page + 1
        /\ current_page <= Len(pages) /\ (current_page = 0 => current_screen = 1)
    BY <1>1, <1>2 DEF CursorInv
  <1>4. PageFits(parser)'
    BY <1>2, EndOfPageFits
  <1>5. current_page \in Nat /\ Len(pages) \in Nat /\ current_screen \in Nat
    BY <1>2, LenIsNat DEF TypesInv
  <1>6. CASE WantsPart /\ phase' = "await" /\ UNCHANGED <<current_page, global_text, pages>>
    <2>1. has_partial_payload(part)
      BY <1>6 DEF WantsPart, txn_is_complete
    <2>2. PartsInv' /\ ScreensInv' /\ ~Waiting'
      BY <1>1, <1>2, <1>6, <2>1, GoesOn
    <2>3. TypesInv'
      BY <1>1, <1>2, <1>6 DEF TypesInv, Phases, Titled
    <2>4. CursorInv'
      BY <1>1, <1>3, <1>6 DEF CursorInv
    <2>5. QED BY <1>4, <2>2, <2>3, <2>4 DEF DInv
  <1>7. CASE Show(global_text) /\ UNCHANGED <<current_page, global_text>>
    <2>1. /\ phase' = "idle" /\ IsSeq(pages') /\ Len(pages') = page_to_display
          /\ \A n \in 1..Len(pages') : Len(pages'[n][2]) <= W
      BY <1>2, <1>3, <1>7, ShowOutcome DEF TypesInv
    <2>2. PartsInv' /\ ScreensInv' /\ ~Waiting'
      BY <1>1, <1>2, <2>1, GoesOn
    <2>3. TypesInv'
      BY <1>1, <1>2, <1>7, <2>1 DEF TypesInv, Phases, Titled
    <2>4. CursorInv'
      BY <1>1, <1>3, <1>5, <1>7, <2>1 DEF CursorInv, Seeking
    <2>5. QED BY <1>4, <2>2, <2>3, <2>4 DEF DInv
  <1>8. CASE /\ SeekPage(parser, current_page, part)
             /\ UNCHANGED <<pages, current_page, global_text>>
    <2>1. phase' \in {"ended", "parse", "await"} /\ (phase' = "await" => has_partial_payload(part))
      BY <1>8, SeekOutcome
    <2>2. PartsInv' /\ ScreensInv' /\ ~Waiting'
      BY <1>1, <1>2, <2>1, GoesOn
    <2>3. TypesInv'
      BY <1>1, <1>2, <1>8, <2>1 DEF TypesInv, Phases, Titled
    <2>4. CursorInv'
      BY <1>1, <1>3, <1>8, <2>1 DEF CursorInv, Seeking
    <2>5. QED BY <1>4, <2>2, <2>3, <2>4 DEF DInv
  <1>9. CASE /\ current_page' = current_page + 1
             /\ global_text' = PageText(current_page + 1) /\ Show(global_text')
    <2>1. Len(global_text') <= W
      BY <1>2, <1>9, PageTextFits
    <2>2. /\ phase' = "idle" /\ IsSeq(pages') /\ Len(pages') = page_to_display
          /\ \A n \in 1..Len(pages') : Len(pages'[n][2]) <= W
      BY <1>2, <1>3, <1>9, <2>1, ShowOutcome
    <2>3. PartsInv' /\ ScreensInv' /\ ~Waiting'
      BY <1>1, <1>2, <2>2, GoesOn
    <2>4. TypesInv'
      BY <1>1, <1>2, <1>5, <1>9, <2>1, <2>2 DEF TypesInv, Phases, Titled
    <2>5. CursorInv'
      BY <1>1, <1>3, <1>5, <1>9, <2>2 DEF CursorInv, Seeking
    <2>6. QED BY <1>4, <2>3, <2>4, <2>5 DEF DInv
  <1>10. QED BY <1>6, <1>7, <1>8, <1>9 DEF EndOfPage

\* A turn of a text parser changes nothing but the parser.
LEMMA SameButParser ==
  ASSUME DInv, PageFits(parser)',
         UNCHANGED <<documentVars, phase, screenVars, pageVars, shownVars>>
  PROVE  DInv'
  <1>1. UNCHANGED <<doc, part, phase, sw, screens, current_screen, current_page,
                    page_to_display, global_text, pages, restarted>>
    BY DEF documentVars, screenVars, pageVars, shownVars
  <1>2. IsDeploy' = IsDeploy /\ Waiting' = Waiting /\ Seeking' = Seeking /\ Blank' = Blank
    BY <1>1 DEF IsDeploy, Waiting, Seeking, Blank
  <1>3. TypesInv' /\ PartsInv' /\ ScreensInv' /\ CursorInv'
    BY <1>1, <1>2 DEF DInv, TypesInv, PartsInv, ScreensInv, CursorInv, Titled
  <1>4. QED BY <1>3 DEF DInv

LEMMA NextPressInv ==
  ASSUME DInv, NextPress
  PROVE  DInv'
  <1>1. /\ phase = "idle" /\ ~Waiting /\ phase \notin {"refused", "overrun"}
        /\ UNCHANGED <<doc, part, sw, screens, global_text, pages, restarted>>
    BY DEF NextPress, documentVars, screenVars, shownVars, Waiting
  <1>2. TypesInv /\ PartsInv /\ ScreensInv /\ CursorInv /\ PageFits(parser)
    BY DEF DInv
  <1>3. /\ Len(pages) = page_to_display
        /\ page_to_display = current_page \/ page_to_display = current_page + 1
        /\ current_screen = 0 => current_page = 0
        /\ current_page = 0 => current_screen = page_to_display
        /\ 0 < Len(screens)
    BY <1>1, <1>2 DEF CursorInv, ScreensInv
  <1>4. PageFits(parser)'
    BY <1>2, NextPressFits
  <1>5. /\ current_page \in Nat /\ current_screen \in Nat /\ page_to_display \in Nat
        /\ Len(screens) \in Nat /\ current_screen <= Len(screens)
    BY <1>2, LenIsNat DEF TypesInv, Titled
  <1>6. PICK page :
          /\ page = IF current_page = 0 THEN current_screen ELSE current_page
          /\ page_to_display' = page + 1
          /\ \/ page < num_screens /\ prepare_screen(screens, page + 1, part)
             \/ /\ page >= num_screens
                /\ SeekPage(parser, page, part)
                /\ current_page' = page
                /\ UNCHANGED current_screen
    BY DEF NextPress
  <1>7. page \in Nat /\ page <= Len(pages) /\ (current_screen = 0 => page = 0)
    BY <1>3, <1>5, <1>6
  <1>8. CASE page < num_screens /\ prepare_screen(screens, page + 1, part)
    <2>1. /\ phase' \in {"parse", "await"} /\ (phase' = "await" => has_partial_payload(part))
          /\ current_screen' = page + 1 /\ current_page' = page
      BY <1>7, <1>8, PrepareOutcome
    <2>2. PartsInv' /\ ScreensInv' /\ ~Waiting'
      BY <1>1, <1>2, <2>1, GoesOn
    <2>3. TypesInv'
      <3>1. page + 1 \in Nat /\ page + 1 <= Len(screens)
        BY <1>5, <1>7, <1>8 DEF num_screens
      <3>2. QED BY <1>1, <1>2, <1>6, <1>7, <2>1, <3>1 DEF TypesInv, Phases, Titled
    <2>4. CursorInv'
      BY <1>1, <1>6, <1>7, <2>1 DEF CursorInv, Seeking
    <2>5. QED BY <1>4, <2>2, <2>3, <2>4 DEF DInv
  <1>9. CASE /\ page >= num_screens /\ SeekPage(parser, page, part)
             /\ current_page' = page /\ UNCHANGED current_screen
    <2>1. phase' \in {"ended", "parse", "await"} /\ (phase' = "await" => has_partial_payload(part))
      BY <1>9, SeekOutcome
    <2>2. PartsInv' /\ ScreensInv' /\ ~Waiting'
      BY <1>1, <1>2, <2>1, GoesOn
    <2>3. 0 < page /\ 0 < current_screen
      BY <1>3, <1>5, <1>7, <1>9 DEF num_screens
    <2>4. TypesInv'
      BY <1>1, <1>2, <1>6, <1>7, <1>9, <2>1 DEF TypesInv, Phases, Titled
    <2>5. CursorInv'
      BY <1>1, <1>6, <1>7, <1>9, <2>1, <2>3 DEF CursorInv, Seeking
    <2>6. QED BY <1>4, <2>2, <2>4, <2>5 DEF DInv
  <1>10. QED BY <1>6, <1>8, <1>9

\* A part replaces the text of the last screen, and nothing else of it.
LEMMA NewText ==
  ASSUME NEW ss, NEW text, Titled(ss), 0 < Len(ss)
  PROVE  LET qq == [ss EXCEPT ![Len(ss)].text = text]
         IN  Titled(qq) /\ Len(qq) = Len(ss) /\ LastTitle(qq) = LastTitle(ss)
  <1> DEFINE n == Len(ss)
             s == [ss[n] EXCEPT !.text = text]
             qq == [ss EXCEPT ![n] = s]
  <1>1. PICK S : ss \in Seq(S)
    BY DEF Titled, IsSeq
  <1>2. n \in Nat /\ n \in 1..n
    BY <1>1
  <1>3. "title" \in DOMAIN ss[n]
    BY <1>2 DEF Titled
  <1>4. "title" \in DOMAIN s /\ s.title = ss[n].title
    BY <1>3
  <1> HIDE DEF s
  <1>5. ss \in Seq(S \cup {s}) /\ s \in S \cup {s}
    BY <1>1
  <1>6. qq \in Seq(S \cup {s}) /\ Len(qq) = n /\ qq[n] = s
        /\ \A i \in 1..n : i # n => qq[i] = ss[i]
    BY <1>1, <1>2, <1>5
  <1>7. \A i \in 1..n : "title" \in DOMAIN ss[i]
    BY DEF Titled
  <1> HIDE DEF qq, n
  <1>8. Titled(qq) /\ Len(qq) = n /\ qq[n].title = ss[n].title
    BY <1>4, <1>6, <1>7 DEF Titled, IsSeq
  <1>9. [ss EXCEPT ![Len(ss)].text = text] = qq
    BY DEF qq, s, n
  <1>10. QED BY <1>8, <1>9 DEF LastTitle, n

LEMMA PayloadPartInv ==
  ASSUME DInv, PayloadPart
  PROVE  DInv'
  <1>1. /\ phase = "await" /\ ~IsDeploy /\ Seeking /\ ~Waiting
        /\ part' = part + 1
        /\ UNCHANGED <<doc, sw, max_pages, page_to_display, global_text, pages>>
    BY DEF PayloadPart, Seeking, Waiting
  <1>2. TypesInv /\ PartsInv /\ ScreensInv /\ CursorInv /\ PageFits(parser)
    BY DEF DInv
  <1>3. /\ 0 < current_screen /\ page_to_display = current_page + 1
        /\ current_page <= Len(pages) /\ (current_page = 0 => current_screen = 1)
        /\ 0 < Len(screens)
    BY <1>1, <1>2 DEF CursorInv, ScreensInv
  <1>4. PageFits(parser)'
    BY <1>2, PayloadPartFits
  <1>5. /\ current_page \in Nat /\ Len(pages) \in Nat /\ Len(doc.cut) \in Nat
        /\ part \in Nat /\ part < Len(doc.cut)
    BY <1>1, <1>2, DocFields, LenIsNat DEF TypesInv, PartsInv
  <1>6. Titled(screens') /\ Len(screens') = Len(screens) /\ LastTitle(screens') = LastTitle(screens)
    <2>1. screens' = [screens EXCEPT ![Len(screens)].text = PartBytes(doc, part + 1)]
      BY DEF PayloadPart, num_screens
    <2>2. Titled(screens)
      BY <1>2 DEF TypesInv
    <2>3. QED BY <1>3, <2>1, <2>2, NewText
  <1>7. ASSUME phase' \in {"ended", "parse", "await"}, phase' = "await" => has_partial_payload(part + 1)
        PROVE  PartsInv' /\ ScreensInv' /\ ~Waiting'
    <2>1. IsDeploy' = IsDeploy /\ doc' = doc
      BY <1>1 DEF IsDeploy
    <2>2. ~Waiting'
      BY <1>1, <1>7, <2>1 DEF Waiting
    <2>3. PartsInv'
      BY <1>1, <1>5, <1>7, <2>1 DEF PartsInv, has_partial_payload
    <2>4. ScreensInv'
      BY <1>1, <1>2, <1>3, <1>6, <2>1, <2>2 DEF ScreensInv
    <2>5. QED BY <2>2, <2>3, <2>4
  <1>8. CASE prepare_screen(screens', page_to_display, part + 1) /\ page_to_display <= num_screens
             /\ restarted' = TRUE
    <2>1. /\ phase' \in {"parse", "await"} /\ (phase' = "await" => has_partial_payload(part + 1))
          /\ current_screen' = page_to_display /\ current_page' = page_to_display - 1
      BY <1>8, PrepareOutcome
    <2>2. page_to_display - 1 = current_page /\ page_to_display <= Len(screens)
          /\ page_to_display \in Nat
      BY <1>3, <1>5, <1>8 DEF num_screens
    <2>3. PartsInv' /\ ScreensInv' /\ ~Waiting'
      BY <1>7, <2>1
    <2>4. TypesInv'
      BY <1>1, <1>2, <1>5, <1>6, <1>8, <2>1, <2>2 DEF TypesInv, Phases
    <2>5. CursorInv'
      BY <1>1, <1>3, <1>5, <2>1, <2>2 DEF CursorInv, Seeking
    <2>6. QED BY <1>4, <2>3, <2>4, <2>5 DEF DInv
  <1>9. CASE /\ SeekPage([parser EXCEPT !.input = PartBytes(doc, part + 1), !.pos = 0],
                         current_page, part + 1)
             /\ UNCHANGED <<current_screen, current_page, restarted>>
    <2>1. phase' \in {"ended", "parse", "await"} /\ (phase' = "await" => has_partial_payload(part + 1))
      BY <1>9, SeekOutcome
    <2>2. PartsInv' /\ ScreensInv' /\ ~Waiting'
      BY <1>7, <2>1
    <2>3. TypesInv'
      BY <1>1, <1>2, <1>5, <1>6, <1>9, <2>1 DEF TypesInv, Phases
    <2>4. CursorInv'
      BY <1>1, <1>3, <1>9, <2>1 DEF CursorInv, Seeking
    <2>5. QED BY <1>4, <2>2, <2>3, <2>4 DEF DInv
  <1>10. QED BY <1>8, <1>9 DEF PayloadPart

\* The screens are made once, when nothing is on them.
LEMMA SelectInv ==
  ASSUME DInv, Blank, NEW size, Select(size),
         UNCHANGED <<doc, pageVars, parser, shownVars>>,
         part' \in Nat, part' <= Len(doc.cut), IsDeploy => part' = Len(doc.cut)
  PROVE  DInv'
  <1>1. TypesInv /\ PageFits(parser)
    BY DEF DInv
  <1>2. PICK r : /\ r = display_transaction(doc.t, size)
                 /\ sw' = r.sw /\ screens' = r.screens
                 /\ phase' = CASE Len(r.screens) > MaxScreens -> "overrun"
                               [] Len(r.screens) <= MaxScreens /\ r.sw = 0 -> "idle"
                               [] OTHER -> "refused"
    BY DEF Select
  <1>3. Outcome(doc.t, r)
    BY <1>1, <1>2, DocFields, DisplayTransaction DEF TypesInv
  <1>4. UNCHANGED <<doc, current_screen, current_page, page_to_display, global_text, pages, restarted>>
        /\ IsDeploy' = IsDeploy
    BY DEF pageVars, shownVars, IsDeploy
  <1>5. Titled(screens') /\ Len(screens') \in Nat
    BY <1>2, <1>3, LenIsNat DEF Outcome, Titled
  <1>6. \/ phase' = "overrun" /\ Len(screens') > MaxScreens
        \/ phase' = "idle" /\ Len(screens') <= MaxScreens /\ r.sw = 0
        \/ phase' = "refused"
    BY <1>2, <1>5 DEF MaxScreens
  <1>7. ~Waiting' /\ ~Seeking' /\ phase' # "start" /\ phase' # "await"
    BY <1>6 DEF Waiting, Seeking
  <1>8. TypesInv'
    <2>1. /\ current_screen = 0 /\ 0 <= Len(screens') /\ sw' \in Nat /\ phase' \in Phases
      BY <1>2, <1>3, <1>5, <1>6 DEF Outcome, Blank, Phases
    <2>2. QED BY <1>1, <1>4, <1>5, <2>1 DEF TypesInv
  <1>9. PartsInv'
    BY <1>4, <1>7 DEF PartsInv
  <1>10. ScreensInv'
    <2>1. phase' \notin {"refused", "overrun"} => 0 < Len(screens')
      BY <1>2, <1>3, <1>6 DEF Outcome
    <2>2. doc.t.type # "redeploy" => Len(screens') <= MaxScreens
      BY <1>2, <1>3 DEF Outcome
    <2>3. doc.t.type = "redeploy" => Len(screens') = RedeployScreens(doc.t)
      BY <1>2, <1>3 DEF Outcome
    <2>4. ASSUME doc.t.type = "governance", phase' # "refused"
          PROVE  Named(TableOf(doc.t.recipient), doc.t.payload.name, LastTitle(screens'))
      <3>1. Len(screens') <= MaxScreens
        BY <2>2, <2>4
      <3>2. r.sw = 0
        BY <1>5, <1>6, <2>4, <3>1 DEF MaxScreens
      <3>3. QED BY <1>2, <1>3, <2>4, <3>2 DEF Outcome
    <2>5. QED BY <1>4, <1>7, <2>1, <2>2, <2>3, <2>4 DEF ScreensInv
  <1>11. CursorInv'
    <2>1. Len(pages') = 0 /\ page_to_display' = 0 /\ current_page' = 0 /\ current_screen' = 0
      BY <1>4, NothingTitled DEF Blank
    <2>2. QED BY <1>7, <2>1 DEF CursorInv
  <1>12. PageFits(parser)'
    BY <1>1
  <1>13. QED BY <1>8, <1>9, <1>10, <1>11, <1>12 DEF DInv

\* A contract goes on coming.
LEMMA StillWaiting ==
  ASSUME DInv, Blank, IsDeploy, phase' = "await",
         UNCHANGED <<doc, sw, screens, pageVars, parser, shownVars>>,
         part' \in Nat, part' < Len(doc.cut)
  PROVE  DInv'
  <1>1. UNCHANGED <<doc, current_screen, current_page, page_to_display, global_text, pages, restarted,
                    screens, sw, parser>>
        /\ IsDeploy' = IsDeploy
    BY DEF pageVars, shownVars, IsDeploy
  <1>2. TypesInv /\ ScreensInv /\ PageFits(parser)
    BY DEF DInv
  <1>3. Waiting' /\ Blank' /\ ~Seeking' /\ Len(doc.cut) \in Nat
    BY <1>1, <1>2, DocFields DEF Waiting, Blank, Seeking, TypesInv
  <1>4. TypesInv'
    BY <1>1, <1>2, <1>3 DEF TypesInv, Phases, Titled
  <1>5. PartsInv'
    BY <1>1, <1>3 DEF PartsInv
  <1>6. ScreensInv'
    <2>1. doc.t.type # "governance"
      BY DEF IsDeploy
    <2>2. QED BY <1>1, <1>2, <1>3, <2>1 DEF ScreensInv
  <1>7. CursorInv'
    BY <1>3 DEF CursorInv
  <1>8. PageFits(parser)'
    BY <1>1, <1>2
  <1>9. QED BY <1>4, <1>5, <1>6, <1>7, <1>8 DEF DInv

LEMMA FirstPartInv ==
  ASSUME DInv, FirstPart
  PROVE  DInv'
  <1>1. phase = "start" /\ part' = 1 /\ UNCHANGED <<doc, pageVars, parser, shownVars>>
    BY DEF FirstPart
  <1>2. Blank /\ Len(doc.cut) \in Nat /\ 0 < Len(doc.cut)
    BY <1>1, DocFields DEF DInv, ScreensInv, Waiting, TypesInv
  <1>3. CASE ~IsDeploy /\ Select(doc.cut[1])
    BY <1>1, <1>2, <1>3, SelectInv
  <1>4. CASE IsDeploy /\ txn_is_complete(1) /\ Select(0)
    <2>1. PICK n \in Nat : n = Len(doc.cut)
      BY <1>2
    <2>2. 0 < n /\ ~(1 < n)
      BY <1>2, <1>4, <2>1 DEF txn_is_complete, has_partial_payload
    <2>3. n = 1
      BY <2>2
    <2>4. part' = Len(doc.cut)
      BY <1>1, <2>1, <2>3, Zenon
    <2>5. QED BY <1>1, <1>2, <1>4, <2>4, SelectInv
  <1>5. CASE IsDeploy /\ ~txn_is_complete(1) /\ phase' = "await" /\ UNCHANGED screenVars
    <2>1. part' < Len(doc.cut) /\ UNCHANGED <<sw, screens>>
      BY <1>1, <1>5 DEF txn_is_complete, has_partial_payload, screenVars
    <2>2. QED BY <1>1, <1>2, <1>5, <2>1, StillWaiting
  <1>6. QED BY <1>3, <1>4, <1>5 DEF FirstPart

LEMMA DeployPartInv ==
  ASSUME DInv, DeployPart
  PROVE  DInv'
  <1>1. phase = "await" /\ IsDeploy /\ part' = part + 1 /\ UNCHANGED <<doc, pageVars, parser, shownVars>>
    BY DEF DeployPart
  <1>2. Blank /\ Len(doc.cut) \in Nat /\ part \in Nat /\ part < Len(doc.cut)
    BY <1>1, DocFields DEF DInv, ScreensInv, PartsInv, Waiting, TypesInv
  <1>3. CASE txn_is_complete(part + 1) /\ Select(0)
    <2>1. part' = Len(doc.cut)
      BY <1>1, <1>2, <1>3 DEF txn_is_complete, has_partial_payload
    <2>2. QED BY <1>1, <1>2, <1>3, <2>1, SelectInv
  <1>4. CASE ~txn_is_complete(part + 1) /\ UNCHANGED <<phase, screenVars>>
    <2>1. part' < Len(doc.cut) /\ UNCHANGED <<sw, screens>> /\ phase' = "await"
      BY <1>1, <1>4 DEF txn_is_complete, has_partial_payload, screenVars
    <2>2. QED BY <1>1, <1>2, <2>1, StillWaiting
  <1>5. QED BY <1>3, <1>4 DEF DeployPart

LEMMA NextDInv == DInv /\ [Next]_vars => DInv'
  <1> SUFFICES ASSUME DInv, [Next]_vars PROVE DInv'
    OBVIOUS
  <1>1. CASE FirstPart \/ DeployPart \/ PayloadPart \/ NextPress
    BY <1>1, FirstPartInv, DeployPartInv, PayloadPartInv, NextPressInv
  <1>2. CASE parse_page_text
    <2>1. PageFits(parser)'
      BY <1>2, ParsePageText DEF DInv
    <2>2. QED BY <1>2, <2>1, SameButParser DEF parse_page_text
  <1>3. CASE parse_multicall_page
    <2>1. PageFits(parser)'
      BY <1>3, ParseMulticallPage DEF DInv
    <2>2. QED BY <1>3, <2>1, SameButParser DEF parse_multicall_page
  <1>4. CASE EndOfPage
    BY <1>4, EndOfPageInv
  <1>5. CASE UNCHANGED vars
    <2>1. PageFits(parser)' /\ UNCHANGED <<documentVars, phase, screenVars, pageVars, shownVars>>
      BY <1>5 DEF vars, DInv
    <2>2. QED BY <2>1, SameButParser
  <1>6. QED BY <1>1, <1>2, <1>3, <1>4, <1>5 DEF Next, Parse, Stop

LEMMA DInvHolds == Spec => []DInv
  BY InitDInv, NextDInv, PTL DEF Spec

\* Whatever the transaction and its cuts, the review is of a part there is, on
\* a screen there is, and each page that it displays fits on a line.
THEOREM DisplayTypes == Spec => []TypeOK
  <1>1. DInv => TypeOK
    <2> SUFFICES ASSUME DInv PROVE TypeOK
      OBVIOUS
    <2>1. TypesInv /\ CursorInv
      BY DEF DInv
    <2>2. Len(doc.cut) \in Nat /\ Len(screens) \in Nat
      BY <2>1, DocFields, LenIsNat DEF TypesInv, Titled
    <2>3. part \in 0..Len(doc.cut) /\ current_screen \in 0..num_screens
      BY <2>1, <2>2 DEF TypesInv, num_screens
    <2>4. phase = "parse" => current_screen > 0
      BY <2>1 DEF CursorInv, Seeking, TypesInv
    <2>5. QED BY <2>1, <2>3, <2>4 DEF TypesInv, TypeOK
  <1>2. QED BY <1>1, DInvHolds, PTL

\* For fields of any contents and on lines of 13 characters or more, only a redeploy has
\* more screens than there is room for, and exactly when the lines of its
\* address and amount and the six of the hash are more (selection.h:229).
THEOREM ScreensAlwaysFit == Spec => []ScreensFit
  <1>1. DInv => ScreensFit
    <2> SUFFICES ASSUME DInv PROVE ScreensFit
      OBVIOUS
    <2>1. ScreensInv /\ Len(screens) \in Nat
      BY LenIsNat DEF DInv, TypesInv, Titled
    <2>2. num_screens > MaxScreens =>
            num_screens > 0 /\ doc.t.type = "redeploy" /\ RedeployScreens(doc.t) > MaxScreens
      BY <2>1 DEF ScreensInv, num_screens, MaxScreens
    <2>3. num_screens > 0 /\ doc.t.type = "redeploy" /\ RedeployScreens(doc.t) > MaxScreens
            => num_screens > MaxScreens
      BY <2>1 DEF ScreensInv, num_screens, MaxScreens
    <2>4. QED BY <2>2, <2>3 DEF ScreensFit, RedeployScreens, Lines
  <1>2. QED BY <1>1, DInvHolds, PTL

\* Whatever its name is, a function of the governance contracts is displayed
\* under the title of the function called, or of one whose name it begins when
\* there is no such function: a longest match is not needed, since no name of a
\* table begins another (selection.h:108).
THEOREM FunctionsHaveTheirTitles == Spec => []TitleOfFunction
  <1>1. DInv => TitleOfFunction
    <2> SUFFICES ASSUME DInv, doc.t.type = "governance", phase \notin {"start", "refused"}
                 PROVE  Named(TableOf(doc.t.recipient), doc.t.payload.name, LastTitle(screens))
      BY DEF TitleOfFunction, Named, TableOf, LastTitle, num_screens
    <2>1. QED BY DEF DInv, ScreensInv
  <1>2. QED BY <1>1, DInvHolds, PTL

=============================================================================
