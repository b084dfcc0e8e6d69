------------------------------ MODULE MCReview ------------------------------
(***************************************************************************)
(* An instance of Review for TLC: small ordinary documents, one per way    *)
(* their text can lie on the pages and in the parts.                       *)
(***************************************************************************)
EXTENDS MCReviewDocs, OrdinaryReview

\* A text with escaped characters, whose glyphs go from one page to the next.
Escaped == <<1, 4, 3, 1, 1, 4, 4, 2, 1>>

\* That text in three parts, in ways in which the first part holds the
\* first page, the last ones with a part after the payload.
Cuts == {Doc("payload", 1, Escaped, <<a, b, 9>>, FALSE) : a, b \in {3, 5, 8, 9}}

MCDocs ==
  {d \in Cuts : d.sent[1] <= d.sent[2]}
  \cup
  { Doc("transfer", 2, Plain(4), <<4>>, FALSE),
    Doc("transfer", 1, Plain(3), <<3, 3>>, FALSE),
    \* the text ends where its second page does
    Doc("payload", 0, Plain(12), <<6, 12, 12>>, FALSE),
    \* characters that are not displayed, alone in a part
    Doc("payload", 2, <<2, 2, 2, 0, 0, 3, 3, 0, 0>>, <<4, 5, 7, 9>>, FALSE),
    \* long payloads, displayed in part and whole
    Doc("payload", 1, Plain(20), <<7, 11, 15, 20, 20>>, TRUE),
    Doc("payload", 1, Plain(10), <<6, 9, 10>>, TRUE),
    Doc("deploy", 2, Plain(4), <<0, 0, 4>>, FALSE),
    Doc("deploy", 1, Plain(4), <<4>>, FALSE),
    Doc("message", 0, Plain(6), <<6>>, FALSE),
    Doc("account", 1, Plain(5), <<5>>, FALSE),
    \* refused before anything is shown
    Refused("transfer", 1, Plain(4), <<4>>, 1),
    Refused("deploy", 1, Plain(4), <<0, 4>>, 2) }

=============================================================================
