----------------------------- MODULE ReviewBook -----------------------------
(***************************************************************************)
(* What the review of a document promises: a ring of places, the title, the*)
(* pages of the text in order, and the final steps.  A press moves one     *)
(* place, either way, and a review is closed at one of the final steps.    *)
(***************************************************************************)
EXTENDS Integers

CONSTANTS
  Docs,    \* the documents
  NoDoc,   \* no document
  Pages,   \* Pages[d]: number of pages of d
  Finals   \* Finals[d]: number of steps after the pages

VARIABLES
  doc,     \* the document under review
  at       \* the place in it: 0 is the title, then the pages, then the final steps

Places(d) == 1 + Pages[d] + Finals[d]

Init == doc = NoDoc /\ at = 0

Open(d) == doc = NoDoc /\ doc' = d /\ at' = 0

Turn(n) == doc # NoDoc /\ at' = (at + n) % Places(doc) /\ UNCHANGED doc

Close == doc # NoDoc /\ at > Pages[doc] /\ doc' = NoDoc /\ at' = 0

Next == (\E d \in Docs : Open(d)) \/ Turn(1) \/ Turn(-1) \/ Close

BookSpec == Init /\ [][Next]_<<doc, at>>

=============================================================================
