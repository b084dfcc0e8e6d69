---------------------------- MODULE MCReviewDocs ----------------------------
(***************************************************************************)
(* Small documents for TLC, and the sets of them for which a review goes   *)
(* wrong.  A page has W = 6 glyphs and a long payload is cut after         *)
(* MaxPages + 1 = 2 pages.                                                 *)
(***************************************************************************)
EXTENDS Review

Plain(n) == [i \in 1..n |-> 1]

Doc(kind, fixed, glyphs, sent, long) ==
  [kind |-> kind, fixed |-> fixed, glyphs |-> glyphs, sent |-> sent, long |-> long, bad |-> 0]

Refused(kind, fixed, glyphs, sent, bad) ==
  [Doc(kind, fixed, glyphs, sent, FALSE) EXCEPT !.bad = bad]

\* A transaction whose first part ends before the first page of its payload.
EarlyCut == {Doc("payload", 1, Plain(9), <<4, 9>>, FALSE)}

\* A long payload of exactly as many pages as are displayed.
FullPages == {Doc("payload", 1, Plain(12), <<12>>, TRUE)}

\* A long payload, and a message of three pages.
TransferThenMessage ==
  {Doc("payload", 1, Plain(20), <<20>>, TRUE), Doc("message", 0, Plain(15), <<15>>, FALSE)}

\* A transaction that is refused under review, and one of more pages.
RefusedThenAnother ==
  { Refused("payload", 0, Plain(8), <<6, 8>>, 2), Doc("transfer", 2, Plain(4), <<4>>, FALSE) }

\* A message of no bytes.
EmptyMessage == {Doc("message", 0, <<>>, <<0>>, FALSE)}

MCKind   == [d \in Docs |-> d.kind]
MCFixed  == [d \in Docs |-> d.fixed]
MCGlyphs == [d \in Docs |-> d.glyphs]
MCSent   == [d \in Docs |-> d.sent]
MCBad    == [d \in Docs |-> d.bad]
MCLong   == [d \in Docs |-> d.long]

=============================================================================
