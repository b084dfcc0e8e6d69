--------------------------- MODULE OrdinaryReview ---------------------------
(***************************************************************************)
(* The documents for which the pages of a review come out right.  Each     *)
(* condition is what a client and the parser see to, or excludes one of    *)
(* the cases in which the code goes wrong (see the runs early_cut,         *)
(* transfer_then_message and empty_message, and ReviewFullPages.cfg).      *)
(***************************************************************************)
EXTENDS Review

\* The glyphs of the first k parts.
Upto(d, k) == Len(Text(SubSeq(Units(d), 1, Sent[d][k])))

\* Something is displayed.
HasText(d) == Stream[d] # <<>>

\* A payload's first page comes with the first part, which is asked to be of 50
\* bytes at least; what has no payload is displayed from globals, and a
\* deployment from the hash that its last part completes.
FirstPageSent(d) ==
  CASE Kind[d] = "payload"  -> Parts(d) = 1 \/ Upto(d, 1) >= W
    [] Kind[d] = "transfer" -> Sent[d][1] = Len(Glyphs[d])
    [] Kind[d] = "deploy"   -> Parts(d) > 1 => Sent[d][Parts(d) - 1] = 0
    [] OTHER -> TRUE

\* A text that is not cut ends before the page where it would be.
EndsBeforeDots(d) == Len(Stream[d]) <= MaxPages * W + DotsAbove

\* The maximum of pages of a long payload stays for the message after it.
MeetsMaximum(d) ==
  \/ EndsBeforeDots(d)
  \/ Long[d] /\ IsCut(d)
  \/ ~Long[d] /\ (IsTxn(d) \/ \A l \in Docs : ~Long[l])

ASSUME OrdinaryAssumption ==
  /\ \A d \in Docs : HasText(d) /\ FirstPageSent(d) /\ MeetsMaximum(d)
  /\ DotsAbove < W

\* A transaction that is displayed before all of it has come is not refused then
\* (see the run refused_then_another).
ASSUME RefusalAssumption ==
  \A d \in Docs : Bad[d] > 1 => Kind[d] = "deploy"

=============================================================================
