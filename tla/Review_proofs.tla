--------------------------- MODULE Review_proofs ---------------------------
(***************************************************************************)
(* What holds of Review for all documents, parts and pages.  Whatever page *)
(* the pager looks for, the client, the commands that wait and the screens *)
(* agree on the document (RInv); the properties follow from that.          *)
(***************************************************************************)
EXTENDS Review, Lemmas_proofs

\* Between two steps without a document: nothing waits, and the flow is not at
\* a step that a button leads from.
Closed ==
  doc = NoDoc =>
    /\ owed = 0 /\ asked = "none" /\ ~busy
    /\ step \in {"menu", "anterior", "posterior"}

\* A document under review is on the screens, and its command waits for the
\* user's answer; what has no parts is complete.
Reviewed ==
  doc # NoDoc /\ asked = "none" =>
    /\ owed = IF Signing(doc) THEN 1 ELSE 0
    /\ screens = doc
    /\ ~IsTxn(doc) => is_first_part /\ txn_is_complete

\* A part is asked for in the reply to the transaction's last one.
Asked ==
  asked # "none" =>
    /\ doc # NoDoc /\ IsTxn(doc)
    /\ owed = 0 /\ ~busy /\ step \in {"menu", "anterior", "posterior"}
    /\ asked = "next" => part < Parts(doc)
    /\ Kind[doc] # "deploy" => screens = doc

\* The transaction is complete when its last part has come.
Complete ==
  doc # NoDoc /\ IsTxn(doc) =>
    part \in 1..Parts(doc) /\ (txn_is_complete <=> part = Parts(doc))

\* The final steps are those of the document on the screens.
StepOfDoc ==
  /\ step \in {"approve", "reject"} => Signing(screens)
  /\ step = "back" => ~Signing(screens)

RInv ==
  /\ doc \in Docs \cup {NoDoc} /\ asked \in {"none", "first", "next"}
  /\ step \in Steps
  /\ txn_is_complete \in BOOLEAN /\ is_first_part \in BOOLEAN /\ busy \in BOOLEAN
  /\ "ready" \in DOMAIN pager
  /\ Closed /\ Reviewed /\ Asked /\ Complete /\ StepOfDoc
  /\ busy => display_page_callback # "none"

\* What ForwardMeansComplete says of a step.
ForwardStep == step' = "approve" /\ step \in {"generic", "posterior"} => txn_is_complete'

----------------------------------------------------------------------------
\* The pager.

\* parse_next_page asks for the next part of an incomplete transaction only.
LEMMA NextPageReady ==
  ASSUME NEW e, NEW p, "ready" \in DOMAIN p, NEW q \in parse_next_page(e, p)
  PROVE  /\ "ready" \in DOMAIN q /\ q.ready \in BOOLEAN
         /\ ~q.ready => ~e.complete
  <1>1. CASE AtMaxPages(e, p) /\ ~e.complete
    BY <1>1 DEF parse_next_page
  <1>2. CASE ~(AtMaxPages(e, p) /\ ~e.complete)
    <2>1. PICK r \in IF Len(p.parsed) < W THEN parse_page_text(p) ELSE {p} : q = NextPage(e, r)
      BY <1>2 DEF parse_next_page
    <2>2. "ready" \in DOMAIN r
      BY <2>1 DEF parse_page_text
    <2>3. "ready" \in DOMAIN Emit(e, r)
      BY <2>2 DEF Emit
    <2>4. QED BY <2>1, <2>2, <2>3 DEF NextPage, NeedsInput
  <1>3. QED BY <1>1, <1>2

\* The same of prepare_screen, which is parse_next_page on a new screen.
LEMMA PrepareReady ==
  ASSUME NEW e, NEW n, NEW p, "ready" \in DOMAIN p, NEW q \in prepare_screen(e, n, p)
  PROVE  /\ "ready" \in DOMAIN q /\ q.ready \in BOOLEAN
         /\ ~q.ready => ~e.complete
  <1>1. PICK r : /\ "ready" \in DOMAIN r
                 /\ q \in parse_next_page(e, r)
    BY DEF prepare_screen
  <1>2. QED BY <1>1, NextPageReady

\* What display_proper_page leads to: the title, a page, a request for the next
\* part of an incomplete transaction, or the search for a page.
Outcome(e) ==
  /\ "ready" \in DOMAIN pager'
  /\ \/ /\ asked' = "none" /\ owed' = e.owed /\ busy' = FALSE
        /\ step' \in {"review", "generic"}
     \/ /\ asked' = "next" /\ owed' = e.owed - 1 /\ busy' = FALSE
        /\ step' \in {"anterior", "posterior"} /\ ~e.complete
     \/ /\ asked' = "none" /\ owed' = e.owed /\ busy' = TRUE
        /\ step' \in {"anterior", "posterior"} /\ display_page_callback' # "none"

\* display_proper_page has no other outcome.
LEMMA ProperPageOutcome ==
  ASSUME NEW e, NEW p, "ready" \in DOMAIN p, NEW cb, NEW want,
         display_proper_page(e, p, cb, want)
  PROVE  Outcome(e)
  <1>1. CASE cb = "none" /\ start_display /\ pager' = p /\ NoReply(e)
    BY <1>1 DEF start_display, NoReply, Outcome
  <1>2. CASE \E q \in prepare_screen(e, want, p) :
               /\ pager' = q
               /\ \/ q.ready /\ Show(cb, TRUE, e)
                  \/ ~q.ready /\ Requested("next", cb, want, e)
    <2>1. PICK q \in prepare_screen(e, want, p) :
               /\ pager' = q
               /\ \/ q.ready /\ Show(cb, TRUE, e)
                  \/ ~q.ready /\ Requested("next", cb, want, e)
      BY <1>2
    <2>2. "ready" \in DOMAIN q /\ (~q.ready => ~e.complete)
      BY PrepareReady
    <2>3. QED BY <2>1, <2>2
      DEF Outcome, Show, Callback, NoReply, Requested, Await, Reply, Delimiter
  <1>3. CASE cb # "none" /\
             \E q \in IF p.page >= Num(e.doc) THEN {[p EXCEPT !.ready = TRUE]}
                      ELSE IF p.screen < Num(e.doc) THEN prepare_screen(e, Num(e.doc), p)
                      ELSE parse_next_page(e, p) :
               /\ pager' = q
               /\ \/ q.ready /\ Await(cb, want) /\ busy' = TRUE /\ NoReply(e)
                  \/ ~q.ready /\ Requested("next", cb, want, e)
    <2>1. PICK q \in IF p.page >= Num(e.doc) THEN {[p EXCEPT !.ready = TRUE]}
                     ELSE IF p.screen < Num(e.doc) THEN prepare_screen(e, Num(e.doc), p)
                     ELSE parse_next_page(e, p) :
               /\ pager' = q
               /\ \/ q.ready /\ Await(cb, want) /\ busy' = TRUE /\ NoReply(e)
                  \/ ~q.ready /\ Requested("next", cb, want, e)
      BY <1>3
    <2>2. "ready" \in DOMAIN q /\ (~q.ready => ~e.complete)
      BY PrepareReady, NextPageReady
    <2>3. QED
      BY <2>1, <2>2, <1>3 DEF Outcome, Await, NoReply, Requested, Reply, Delimiter
  <1>4. QED BY <1>1, <1>2, <1>3 DEF display_proper_page

\* An outcome for the document under review keeps the invariant, and Approve is
\* not among the outcomes.
LEMMA OutcomeKeeps ==
  ASSUME NEW e, Outcome(e),
         doc' \in Docs, screens' = doc',
         e.owed = IF Signing(doc)' THEN 1 ELSE 0,
         e.complete = txn_is_complete', txn_is_complete' \in BOOLEAN,
         is_first_part' \in BOOLEAN,
         IF IsTxn(doc)' THEN part' \in 1..Parts(doc)' /\ (txn_is_complete' <=> part' = Parts(doc)')
                        ELSE is_first_part' /\ txn_is_complete'
  PROVE  RInv' /\ ForwardStep
  <1>1. doc' # NoDoc
    BY DocAssumption
  <1>2. IsTxn(doc)' => Signing(doc)'
    BY DEF IsTxn, Signing
  <1>3. asked' = "next" => IsTxn(doc)' /\ ~txn_is_complete'
    BY DEF Outcome
  <1>4. asked' = "next" => (part < Parts(doc))'
    BY <1>3, DocAssumption DEF Parts
  <1>5. Closed' /\ Complete' /\ StepOfDoc'
    BY <1>1 DEF Outcome, Closed, Complete, StepOfDoc
  <1>6. Reviewed'
    BY <1>1 DEF Outcome, Reviewed
  <1>7. Asked'
    BY <1>1, <1>2, <1>3, <1>4 DEF Outcome, Asked
  <1>8. QED BY <1>5, <1>6, <1>7 DEF Outcome, RInv, Steps, ForwardStep

----------------------------------------------------------------------------
\* The buttons and the search for a page.

\* The document under review, as an outcome finds it.
LEMMA UnderReview ==
  ASSUME RInv, doc # NoDoc, asked = "none"
  PROVE  /\ doc \in Docs /\ screens = doc
         /\ owed = IF Signing(doc) THEN 1 ELSE 0
         /\ IF IsTxn(doc) THEN part \in 1..Parts(doc) /\ (txn_is_complete <=> part = Parts(doc))
                          ELSE is_first_part /\ txn_is_complete
  BY DEF RInv, Reviewed, Complete

\* An outcome that leaves the document and its parts as they are.
LEMMA SameDocKeeps ==
  ASSUME RInv, doc # NoDoc, asked = "none", Outcome(Env), UNCHANGED <<hostVars, globalVars>>
  PROVE  RInv' /\ ForwardStep
  <1>1. /\ Env.owed = owed /\ Env.complete = txn_is_complete
        /\ doc' = doc /\ part' = part /\ screens' = screens
        /\ txn_is_complete' = txn_is_complete /\ is_first_part' = is_first_part
    BY DEF Env, hostVars, globalVars
  <1>2. Signing(doc)' = Signing(doc) /\ IsTxn(doc)' = IsTxn(doc) /\ Parts(doc)' = Parts(doc)
    BY <1>1 DEF Signing, IsTxn, Parts
  <1>3. txn_is_complete \in BOOLEAN /\ is_first_part \in BOOLEAN
    BY DEF RInv
  <1>4. QED BY <1>1, <1>2, <1>3, UnderReview, OutcomeKeeps

\* The reply to nobody: a step of the flow between the pages and the buttons.
LEMMA FlowKeeps ==
  ASSUME RInv, doc # NoDoc, asked = "none", UNCHANGED <<hostVars, globalVars>>,
         asked' = "none", owed' = owed, "ready" \in DOMAIN pager', busy' = FALSE,
         step' \in Steps,
         step' \in {"approve", "reject"} => Signing(screens),
         step' = "back" => ~Signing(screens)
  PROVE  RInv'
  <1>1. /\ doc' = doc /\ part' = part /\ screens' = screens
        /\ txn_is_complete' = txn_is_complete /\ is_first_part' = is_first_part
    BY DEF hostVars, globalVars
  <1>2. Closed' /\ Asked' /\ StepOfDoc'
    BY <1>1 DEF Closed, Asked, StepOfDoc, Signing
  <1>3. Reviewed' /\ Complete'
    BY <1>1 DEF RInv, Reviewed, Complete, Signing, IsTxn, Parts
  <1>4. QED BY <1>1, <1>2, <1>3 DEF RInv

\* The search ends on the page, at the last page of a complete transaction, or at
\* a request for the next part.
LEMMA FindPageKeeps ==
  ASSUME RInv, FindPage
  PROVE  RInv' /\ ForwardStep
  <1>1. busy /\ doc # NoDoc /\ asked = "none" /\ display_page_callback # "none"
    BY DEF FindPage, RInv, Closed, Asked
  <1>2. "ready" \in DOMAIN pager /\ step \in Steps /\ UNCHANGED <<hostVars, globalVars>>
    BY DEF FindPage, RInv
  <1>3. Env.owed = owed /\ Env.complete = txn_is_complete /\ Env.doc = screens
    BY DEF Env
  <1>4. CASE /\ pager.page = page_to_display
             /\ Show(display_page_callback, TRUE, Env)
             /\ UNCHANGED pager
    <2>1. Outcome(Env)
      BY <1>4, <1>2 DEF Outcome, Show, Callback, NoReply
    <2>2. QED BY <2>1, <1>1, <1>2, SameDocKeeps
  <1>5. CASE /\ on_last_page(Env, pager)
             /\ Show(display_page_callback, page_to_display = LastPage, Env)
             /\ UNCHANGED pager
    <2>1. txn_is_complete'
      BY <1>5, <1>2, <1>3 DEF on_last_page, globalVars
    <2>2. /\ asked' = "none" /\ owed' = owed /\ busy' = FALSE
          /\ step' \in {"generic", "review", AfterPages(screens)}
      BY <1>5, <1>3 DEF Show, Callback, NoReply
    <2>3. RInv'
      BY <2>2, <1>1, <1>2, <1>5, FlowKeeps DEF AfterPages, Steps
    <2>4. QED BY <2>1, <2>3 DEF ForwardStep
  <1>6. CASE \E q \in parse_next_page(Env, pager) :
               /\ pager' = q
               /\ \/ /\ q.ready
                     /\ UNCHANGED <<owed, asked, page_to_display, display_page_callback,
                                    busy, step, current_state>>
                  \/ /\ ~q.ready
                     /\ Requested("next", display_page_callback, page_to_display, Env)
    <2>1. PICK q \in parse_next_page(Env, pager) :
               /\ pager' = q
               /\ \/ /\ q.ready
                     /\ UNCHANGED <<owed, asked, page_to_display, display_page_callback,
                                    busy, step, current_state>>
                  \/ /\ ~q.ready
                     /\ Requested("next", display_page_callback, page_to_display, Env)
      BY <1>6
    <2>2. "ready" \in DOMAIN q /\ (~q.ready => ~Env.complete)
      BY <1>2, NextPageReady
    <2>3. CASE q.ready
      <3>1. /\ UNCHANGED <<doc, part, is_first_part, txn_is_complete, screens, owed, asked,
                           display_page_callback, busy, step>>
            /\ "ready" \in DOMAIN pager'
        BY <2>1, <2>2, <2>3, <1>2 DEF hostVars, globalVars
      <3>2. Closed' /\ Reviewed' /\ Asked' /\ Complete' /\ StepOfDoc'
        BY <3>1 DEF RInv, Closed, Reviewed, Asked, Complete, StepOfDoc, Signing, IsTxn, Parts
      <3>3. QED BY <3>1, <3>2 DEF RInv, ForwardStep
    <2>4. CASE ~q.ready
      <3>1. Outcome(Env)
        BY <2>1, <2>2, <2>4 DEF Outcome, Requested, Await, Reply, Delimiter
      <3>2. QED BY <3>1, <1>1, <1>2, SameDocKeeps
    <2>5. QED BY <2>3, <2>4
  <1>7. QED BY <1>4, <1>5, <1>6 DEF FindPage

\* get_next_data goes back before the first page, asks for the first part, or
\* displays a page.
LEMMA GetNextDataKeeps ==
  ASSUME RInv, doc # NoDoc, asked = "none", ~busy, NEW move \in {"first", "next", "prev", "last"},
         get_next_data(move), UNCHANGED <<hostVars, globalVars>>
  PROVE  RInv' /\ ForwardStep
  <1>1. "ready" \in DOMAIN pager
    BY DEF RInv
  <1>2. Env.owed = owed /\ Env.complete = txn_is_complete /\ Env.doc = screens
    BY DEF Env
  <1>3. CASE \E p : "ready" \in DOMAIN p /\ Show("prev", FALSE, Env) /\ pager' = p
    <2>1. Outcome(Env)
      BY <1>3 DEF Outcome, Show, Callback, NoReply, Delimiter
    <2>2. QED BY <2>1, SameDocKeeps
  <1>4. CASE /\ ~is_first_part
             /\ \E p, want : "ready" \in DOMAIN p /\ Requested("first", move, want, Env)
                             /\ pager' = p
    <2>1. IsTxn(doc) /\ screens = doc /\ owed = 1
      BY <1>4, UnderReview DEF Signing, IsTxn
    <2>2. /\ asked' = "first" /\ owed' = 0 /\ busy' = FALSE
          /\ step' \in {"anterior", "posterior"} /\ "ready" \in DOMAIN pager'
      BY <1>4, <1>2, <2>1 DEF Requested, Await, Reply, Delimiter
    <2>3. /\ doc' = doc /\ part' = part /\ screens' = screens
          /\ txn_is_complete' = txn_is_complete /\ is_first_part' = is_first_part
      BY DEF hostVars, globalVars
    <2>4. Closed' /\ Reviewed' /\ Asked' /\ Complete' /\ StepOfDoc'
      BY <2>1, <2>2, <2>3
      DEF RInv, Closed, Reviewed, Asked, Complete, StepOfDoc, Signing, IsTxn, Parts
    <2>5. QED BY <2>2, <2>3, <2>4 DEF RInv, Steps, ForwardStep
  <1>5. CASE \E p, want : "ready" \in DOMAIN p /\ display_proper_page(Env, p, move, want)
    <2>1. Outcome(Env)
      BY <1>5, ProperPageOutcome
    <2>2. QED BY <2>1, SameDocKeeps
  <1>6. QED
    BY <1>1, <1>3, <1>4, <1>5 DEF get_next_data, Cleared

\* A press leads to another step of the flow, or asks the pager for a page.
LEMMA PressKeeps ==
  ASSUME RInv, PressNext \/ PressPrev
  PROVE  RInv' /\ ForwardStep
  <1>1. ~busy /\ asked = "none" /\ UNCHANGED <<hostVars, globalVars>>
    BY DEF PressNext, PressPrev, CanPress
  <1>2. doc # NoDoc
    BY <1>1 DEF RInv, Closed, PressNext, PressPrev
  <1>3. CASE on_anterior_delimiter
    <2>1. CASE current_state = "static"
      BY <2>1, <1>1, <1>2, <1>3, GetNextDataKeeps DEF on_anterior_delimiter
    <2>2. CASE current_state # "static"
      BY <2>2, <1>1, <1>2, <1>3, GetNextDataKeeps DEF on_anterior_delimiter
    <2>3. QED BY <2>1, <2>2
  <1>4. CASE on_posterior_delimiter
    <2>1. CASE current_state = "static"
      BY <2>1, <1>1, <1>2, <1>4, GetNextDataKeeps DEF on_posterior_delimiter
    <2>2. CASE current_state # "static"
      BY <2>2, <1>1, <1>2, <1>4, GetNextDataKeeps DEF on_posterior_delimiter
    <2>3. QED BY <2>1, <2>2
  <1>5. CASE \/ step = "approve" /\ Step("reject")
             \/ step \in {"reject", "back"} /\ Step("review")
             \/ step = "reject" /\ Step("approve")
             \/ step = "review" /\ Step(FinalStep(screens))
    <2>1. /\ asked' = "none" /\ owed' = owed /\ pager' = pager /\ busy' = FALSE
          /\ step' \in {"review", "approve", "reject", "back"}
          /\ step' \in {"approve", "reject"} => Signing(screens)
          /\ step' = "back" => ~Signing(screens)
      BY <1>1, <1>5 DEF Step, FinalStep, RInv, StepOfDoc
    <2>2. RInv'
      BY <2>1, <1>1, <1>2, FlowKeeps DEF RInv, Steps
    <2>3. QED BY <2>2, <1>5 DEF ForwardStep
  <1>6. QED BY <1>3, <1>4, <1>5 DEF PressNext, PressPrev

\* A signature or a refusal is the reply to the command that waits; after an
\* account there is none.
LEMMA CloseKeeps ==
  ASSUME RInv, sign_transaction \/ reject_transaction \/ Back
  PROVE  RInv' /\ ForwardStep
  <1>1. ~busy /\ asked = "none" /\ step \in {"approve", "reject", "back"}
    BY DEF sign_transaction, reject_transaction, Back, CanPress
  <1>2. doc # NoDoc
    BY <1>1 DEF RInv, Closed
  <1>3. screens = doc /\ owed = IF Signing(doc) THEN 1 ELSE 0
    BY <1>1, <1>2, UnderReview
  <1>4. /\ step' = "menu" /\ doc' = NoDoc /\ owed' = 0
        /\ UNCHANGED <<globalVars, asked, pager, display_page_callback, busy>>
    BY <1>3 DEF sign_transaction, reject_transaction, Back, Close, RInv, StepOfDoc
  <1>5. Closed' /\ Reviewed' /\ Asked' /\ Complete' /\ StepOfDoc'
    BY <1>1, <1>4 DEF Closed, Reviewed, Asked, Complete, StepOfDoc
  <1>6. QED BY <1>4, <1>5 DEF RInv, Steps, ForwardStep, globalVars

----------------------------------------------------------------------------
\* The commands.

\* Screens made for a document lead to an outcome for it.
LEMMA ShowScreensKeeps ==
  ASSUME RInv, owed = 0, NEW d \in Docs, doc' = d, NEW us, NEW max, NEW complete \in BOOLEAN,
         NEW cb, NEW want, ShowScreens(d, us, max, complete, cb, want, IF Signing(d) THEN 1 ELSE 0),
         is_first_part' \in BOOLEAN,
         IF IsTxn(d) THEN part' \in 1..Parts(d) /\ (complete <=> part' = Parts(d))
                     ELSE is_first_part' /\ complete
  PROVE  RInv' /\ ForwardStep
  <1> DEFINE e == [doc |-> d, complete |-> complete, max |-> max, text |-> us,
                   owed |-> owed + IF Signing(d) THEN 1 ELSE 0]
  <1>1. "ready" \in DOMAIN Cleared(pager)
    BY DEF RInv, Cleared
  <1>2. Outcome(e)
    BY <1>1, ProperPageOutcome DEF ShowScreens
  <1>3. e.owed = (IF Signing(d) THEN 1 ELSE 0) /\ e.complete = complete
    BY DEF Signing
  <1>4. screens' = doc' /\ txn_is_complete' = complete
    BY DEF ShowScreens
  <1>5. Signing(doc)' = Signing(d) /\ IsTxn(doc)' = IsTxn(d) /\ Parts(doc)' = Parts(d)
    BY DEF Signing, IsTxn, Parts
  <1> HIDE DEF e
  <1>6. QED BY <1>2, <1>3, <1>4, <1>5, OutcomeKeeps

\* An incomplete deployment is replied to with a request for its next part.
LEMMA AwaitDeployKeeps ==
  ASSUME RInv, NEW d \in Docs, doc' = d, Kind[d] = "deploy", NEW p \in 1..Parts(d), part' = p,
         is_first_part' \in BOOLEAN, AwaitDeploy(d, p),
         owed = 0, ~busy, step \in {"menu", "anterior", "posterior"}
  PROVE  RInv' /\ ForwardStep
  <1>1. /\ txn_is_complete' = FALSE /\ asked' = "next" /\ p < Parts(d)
        /\ UNCHANGED <<owed, screens, pager, display_page_callback, busy, step>>
    BY DEF AwaitDeploy
  <1>2. d # NoDoc /\ IsTxn(d) /\ Parts(d) \in Nat
    BY DocAssumption DEF IsTxn, Parts
  <1>3. Closed' /\ Reviewed' /\ Asked' /\ Complete' /\ StepOfDoc'
    BY <1>1, <1>2 DEF Closed, Reviewed, Asked, Complete, StepOfDoc, IsTxn, Parts
  <1>4. QED BY <1>1, <1>3 DEF RInv, ForwardStep

\* A refused part ends the review; what is on the screen stays.
LEMMA RefuseKeeps ==
  ASSUME RInv, NEW first \in BOOLEAN, Refuse(first),
         owed = 0, ~busy, step \in {"menu", "anterior", "posterior"}
  PROVE  RInv' /\ ForwardStep
  <1>1. /\ doc' = NoDoc /\ asked' = "none" /\ is_first_part' = first /\ txn_is_complete' = FALSE
        /\ UNCHANGED <<owed, screens, pager, display_page_callback, busy, step>>
    BY DEF Refuse
  <1>2. Closed' /\ Reviewed' /\ Asked' /\ Complete' /\ StepOfDoc'
    BY <1>1 DEF Closed, Reviewed, Asked, Complete, StepOfDoc
  <1>3. QED BY <1>1, <1>2 DEF RInv, ForwardStep

\* The state in which a command arrives: no other waits.
LEMMA Ready ==
  ASSUME RInv, doc = NoDoc \/ asked # "none"
  PROVE  owed = 0 /\ ~busy /\ step \in {"menu", "anterior", "posterior"}
  BY DEF RInv, Closed, Asked

\* The first part of a transaction, sent for the first time or again.
LEMMA FirstPartKeeps ==
  ASSUME RInv, doc = NoDoc \/ asked # "none",
         NEW d \in Docs, IsTxn(d), doc' = d, part' = 1, on_first_part(d)
  PROVE  RInv' /\ ForwardStep
  <1>1. is_first_part' = TRUE /\ Signing(d) /\ 1 \in 1..Parts(d)
    BY DocAssumption DEF on_first_part, IsTxn, Signing, Parts
  <1>2. CASE display_transaction(d, 1)
    BY <1>1, <1>2, Ready, ShowScreensKeeps DEF display_transaction
  <1>3. CASE Kind[d] = "deploy" /\ AwaitDeploy(d, 1)
    BY <1>1, <1>3, Ready, AwaitDeployKeeps
  <1>4. QED BY <1>2, <1>3 DEF on_first_part

\* A part shown on the screens there are.
LEMMA PartShownKeeps ==
  ASSUME RInv, asked = "next", Kind[doc] # "deploy", doc' = doc,
         NEW p \in 1..Parts(doc), part' = p,
         ShowPart(p) \/ ShowTail(p)
  PROVE  RInv' /\ ForwardStep
  <1>1. doc \in Docs /\ IsTxn(doc) /\ Signing(doc) /\ screens = doc /\ owed = 0
    BY DEF RInv, Asked, IsTxn, Signing
  <1>2. /\ screens' = doc' /\ is_first_part' = FALSE
        /\ txn_is_complete' = (p = Parts(doc))
    BY <1>1 DEF ShowPart, ShowTail
  <1>3. \E e : Outcome(e) /\ e.owed = owed + 1 /\ e.complete = (p = Parts(doc))
    <2>1. CASE ShowPart(p)
      <3> DEFINE e == [doc |-> doc, complete |-> p = Parts(doc), max |-> max_pages,
                       text |-> PartUnits(doc, p), owed |-> owed + 1]
                 q == [pager EXCEPT !.input = ScreenText(e, pager.screen), !.pos = 0]
      <3>1. "ready" \in DOMAIN q
        BY DEF RInv
      <3>2. display_proper_page(e, q, display_page_callback, page_to_display)
        BY <2>1 DEF ShowPart
      <3>3. Outcome(e)
        BY <3>1, <3>2, ProperPageOutcome
      <3>4. QED BY <3>3
    <2>2. CASE ShowTail(p)
      <3> DEFINE stale(us) == IF Kind[doc] = "payload" THEN Overwritten(us) ELSE us
                 e == [doc |-> doc, complete |-> p = Parts(doc), max |-> max_pages,
                       text |-> stale(text), owed |-> owed + 1]
                 q == [pager EXCEPT !.input = stale(@)]
      <3>1. "ready" \in DOMAIN q
        BY DEF RInv
      <3>2. display_proper_page(e, q, display_page_callback, page_to_display)
        BY <2>2 DEF ShowTail
      <3>3. Outcome(e)
        BY <3>1, <3>2, ProperPageOutcome
      <3>4. QED BY <3>3
    <2>3. QED BY <2>1, <2>2
  <1>4. Signing(doc)' /\ IsTxn(doc)' /\ Parts(doc)' = Parts(doc)
    BY <1>1 DEF Signing, IsTxn, Parts
  <1>5. PICK e : Outcome(e) /\ e.owed = owed + 1 /\ e.complete = (p = Parts(doc))
    BY <1>3
  <1>6. doc' \in Docs /\ e.owed = 1
    BY <1>1, <1>5
  <1>7. e.complete = txn_is_complete'
    BY <1>2, <1>5
  <1>8. txn_is_complete' \in BOOLEAN /\ is_first_part' \in BOOLEAN
    BY <1>2
  <1>9. part' \in 1..Parts(doc)' /\ (txn_is_complete' <=> part' = Parts(doc)')
    BY <1>2, <1>4
  <1>10. QED BY <1>1, <1>2, <1>4, <1>5, <1>6, <1>7, <1>8, <1>9, OutcomeKeeps

\* The commands of the client, one by one.
LEMMA CommandKeeps ==
  ASSUME RInv,
         \/ \E d \in Docs : SendTxn(d) \/ on_new_message(d) \/ on_display_account(d)
         \/ SendFirst \/ SendNext
  PROVE  RInv' /\ ForwardStep
  <1>1. ASSUME NEW d \in Docs, SendTxn(d)
        PROVE  RInv' /\ ForwardStep
    BY <1>1, FirstPartKeeps, RefuseKeeps, Ready DEF SendTxn, Opens
  <1>2. ASSUME NEW d \in Docs, on_new_message(d)
        PROVE  RInv' /\ ForwardStep
    <2>1. ~IsTxn(d) /\ Signing(d) /\ doc = NoDoc /\ doc' = d /\ is_first_part' = TRUE
      BY <1>2 DEF on_new_message, IsTxn, Signing, Opens
    <2>2. QED BY <1>2, <2>1, Ready, ShowScreensKeeps DEF on_new_message
  <1>3. ASSUME NEW d \in Docs, on_display_account(d)
        PROVE  RInv' /\ ForwardStep
    <2>1. ~IsTxn(d) /\ ~Signing(d) /\ doc = NoDoc /\ doc' = d /\ is_first_part' = TRUE
      BY <1>3 DEF on_display_account, IsTxn, Signing, Opens
    <2>2. QED BY <1>3, <2>1, Ready, ShowScreensKeeps DEF on_display_account
  <1>4. CASE SendFirst
    <2>1. doc \in Docs /\ IsTxn(doc) /\ asked # "none" /\ doc' = doc
      BY <1>4 DEF SendFirst, RInv, Asked
    <2>2. QED BY <1>4, <2>1, FirstPartKeeps DEF SendFirst
  <1>5. CASE SendNext
    <2>1. doc \in Docs /\ IsTxn(doc) /\ asked = "next" /\ part < Parts(doc)
      BY <1>5 DEF SendNext, RInv, Asked
    <2>2. part + 1 \in 1..Parts(doc)
      <3>1. part \in 1..Parts(doc) /\ Parts(doc) \in Nat
        BY <2>1, DocAssumption DEF RInv, Complete, Asked, Parts
      <3>2. QED BY <2>1, <3>1
    <2>3. CASE Bad[doc] = part + 1 /\ Refuse(FALSE)
      BY <2>1, <2>3, Ready, RefuseKeeps
    <2>4. CASE part' = part + 1 /\ UNCHANGED doc /\ on_next_part(part + 1)
      <3>1. CASE /\ Kind[doc] = "deploy" /\ part + 1 = Parts(doc)
                 /\ is_first_part' = TRUE /\ display_transaction(doc, part + 1)
        BY <2>1, <2>2, <2>4, <3>1, Ready, ShowScreensKeeps DEF display_transaction, Signing
      <3>2. CASE /\ Kind[doc] = "deploy"
                 /\ is_first_part' = FALSE /\ AwaitDeploy(doc, part + 1)
        BY <2>1, <2>2, <2>4, <3>2, Ready, AwaitDeployKeeps
      <3>3. CASE Kind[doc] # "deploy" /\ (ShowPart(part + 1) \/ ShowTail(part + 1))
        BY <2>1, <2>2, <2>4, <3>3, PartShownKeeps
      <3>4. QED BY <2>4, <3>1, <3>2, <3>3 DEF on_next_part
    <2>5. QED BY <1>5, <2>3, <2>4 DEF SendNext
  <1>6. QED BY <1>1, <1>2, <1>3, <1>4, <1>5

----------------------------------------------------------------------------
\* The theorems.

LEMMA InitRInv == Init => RInv
  BY DocAssumption
  DEF Init, RInv, Closed, Reviewed, Asked, Complete, StepOfDoc, Blank, Steps

LEMMA NextRInv == RInv /\ [Next]_vars => RInv' /\ [ForwardStep]_vars
  <1> SUFFICES ASSUME RInv, [Next]_vars PROVE RInv' /\ [ForwardStep]_vars
    OBVIOUS
  <1>1. CASE Next
    BY <1>1, CommandKeeps, FindPageKeeps, PressKeeps, CloseKeeps DEF Next
  <1>2. CASE UNCHANGED vars
    <2>1. UNCHANGED <<doc, part, owed, asked, is_first_part, txn_is_complete, screens, pager,
                      display_page_callback, busy, step>>
      BY <1>2 DEF vars, hostVars, globalVars, displayVars
    <2>2. Closed' /\ Reviewed' /\ Asked' /\ Complete' /\ StepOfDoc'
      BY <2>1
      DEF RInv, Closed, Reviewed, Asked, Complete, StepOfDoc, Signing, IsTxn, Parts
    <2>3. QED BY <1>2, <2>1, <2>2 DEF RInv
  <1>3. QED BY <1>1, <1>2

\* The client, the commands that wait and the screens agree on the document.
THEOREM ReviewInvariant == Spec => []RInv
  BY InitRInv, NextRInv, PTL DEF Spec

\* One reply for one command, whatever the document and its parts: no request for
\* a part goes out twice, and none without a command to answer.
THEOREM OneReply == Spec => []OneReplyPerCommand
  <1>1. RInv => OneReplyPerCommand
    <2> SUFFICES ASSUME RInv PROVE OneReplyPerCommand
      OBVIOUS
    <2>1. owed \in 0..1
      BY DEF RInv, Closed, Reviewed, Asked
    <2>2. QED BY <2>1 DEF RInv, Asked, OneReplyPerCommand
  <1>2. QED BY <1>1, ReviewInvariant, PTL

\* A next part is asked for only when the transaction has one.
THEOREM AsksOnlyForParts == Spec => []AsksForAPart
  <1>1. RInv => AsksForAPart
    BY DEF RInv, Asked, AsksForAPart
  <1>2. QED BY <1>1, ReviewInvariant, PTL

\* Approve is reached forwards from the pages of a complete transaction only.
THEOREM ForwardIsComplete == Spec => ForwardMeansComplete
  <1>1. RInv /\ [Next]_vars =>
          [step' = "approve" /\ step \in {"generic", "posterior"} => txn_is_complete']_vars
    BY NextRInv DEF ForwardStep
  <1>2. QED BY <1>1, ReviewInvariant, PTL DEF Spec, ForwardMeansComplete

----------------------------------------------------------------------------
(***************************************************************************)
(* The texts and the pager: what a page is cut from is a sequence of       *)
(* glyphs, a part is a slice of the whole text, and everything has its     *)
(* type.                                                                   *)
(***************************************************************************)


\* The units of the documents, and their glyphs.
UnitSet ==
  {u \in Docs \X Nat \X Nat : u[2] = Num(u[1]) => u[3] \in 1..Len(Glyphs[u[1]])}

GlyphSet == UnitSet \X Nat

----------------------------------------------------------------------------
\* Sequences.

LEMMA DropType ==
  ASSUME NEW S, NEW s \in Seq(S), NEW n \in Nat
  PROVE  /\ Drop(s, n) \in Seq(S)
         /\ Len(Drop(s, n)) = IF n <= Len(s) THEN Len(s) - n ELSE 0
         /\ \A i \in 1..Len(Drop(s, n)) : Drop(s, n)[i] = s[n + i]
  BY DEF Drop

\* Nothing is beyond the end.
LEMMA DropAll ==
  ASSUME NEW S, NEW s \in Seq(S), NEW n \in Nat, n >= Len(s)
  PROVE  Drop(s, n) = <<>>
  BY DEF Drop

LEMMA DropConcat ==
  ASSUME NEW S, NEW s \in Seq(S), NEW t \in Seq(S), NEW n \in 0..Len(s)
  PROVE  Drop(s \o t, n) = Drop(s, n) \o t
  <1> DEFINE l == Drop(s \o t, n)
             r == Drop(s, n) \o t
  <1>1. s \o t \in Seq(S) /\ Len(s \o t) = Len(s) + Len(t) /\ Len(s) \in Nat /\ Len(t) \in Nat
    OBVIOUS
  <1>0. n \in Nat
    OBVIOUS
  <1>9. /\ l \in Seq(S)
        /\ Len(l) = (IF n <= Len(s \o t) THEN Len(s \o t) - n ELSE 0)
        /\ \A i \in 1..Len(l) : l[i] = (s \o t)[n + i]
    BY <1>0, <1>1, DropType, Zenon
  <1>2. Len(l) = Len(s) + Len(t) - n
    BY <1>1, <1>9
  <1>3. Drop(s, n) \in Seq(S) /\ Len(Drop(s, n)) = Len(s) - n
    BY <1>0, <1>1, DropType
  <1>4. r \in Seq(S) /\ Len(r) = Len(s) - n + Len(t)
    BY <1>3
  <1>5. ASSUME NEW i \in 1..Len(l) PROVE l[i] = r[i]
    <2>1. l[i] = (s \o t)[n + i]
      BY <1>9
    <2>2. i \in 1..(Len(s) - n) => Drop(s, n)[i] = s[n + i]
      BY <1>3, DropType
    <2>3. (s \o t)[n + i] = IF n + i <= Len(s) THEN s[n + i] ELSE t[n + i - Len(s)]
      BY <1>1, <1>2
    <2>4. r[i] = IF i <= Len(s) - n THEN Drop(s, n)[i] ELSE t[i - (Len(s) - n)]
      BY <1>1, <1>2, <1>3
    <2>5. i - (Len(s) - n) = n + i - Len(s) /\ (i <= Len(s) - n <=> n + i <= Len(s))
      BY <1>1, <1>2
    <2>6. QED BY <1>1, <1>2, <2>1, <2>2, <2>3, <2>4, <2>5
  <1> HIDE DEF l, r
  <1>6. Len(l) = Len(r)
    BY <1>1, <1>2, <1>4
  <1>7. l = r
    BY <1>9, <1>4, <1>5, <1>6, SeqEqual
  <1>8. QED BY <1>7 DEF l, r

\* What is between a beginning and an end.
LEMMA Middle ==
  ASSUME NEW S, NEW x \in Seq(S), NEW y \in Seq(S), NEW z \in Seq(S)
  PROVE  SubSeq((x \o y) \o z, Len(x) + 1, Len(x) + Len(y)) = y
  <1> DEFINE w == (x \o y) \o z
             l == SubSeq(w, Len(x) + 1, Len(x) + Len(y))
  <1>1. /\ w \in Seq(S) /\ Len(w) = Len(x) + Len(y) + Len(z)
        /\ Len(x) \in Nat /\ Len(y) \in Nat /\ Len(z) \in Nat
    OBVIOUS
  <1>2. \A i \in 1..Len(y) : w[Len(x) + i] = y[i]
    OBVIOUS
  <1> HIDE DEF w
  <1>3. l \in Seq(S) /\ Len(l) = Len(y) /\ \A i \in 1..Len(y) : l[i] = w[Len(x) + i]
    BY <1>1, SMTT(30)
  <1> HIDE DEF l
  <1>4. l = y
    BY <1>2, <1>3, SeqEqual
  <1>5. QED BY <1>4 DEF l, w

\* Two slices of s, one after the other.
LEMMA Slices ==
  ASSUME NEW S, NEW s \in Seq(S), NEW a \in Nat, NEW b \in Nat, NEW c \in Nat,
         a <= b, b <= c, c <= Len(s)
  PROVE  SubSeq(s, a + 1, b) \o SubSeq(s, b + 1, c) = SubSeq(s, a + 1, c)
  BY ConcatAdjacentSubSeq

\* A slice, by its length and its elements.
LEMMA SliceType ==
  ASSUME NEW S, NEW s \in Seq(S), NEW a \in Nat, NEW b \in Nat, a <= b, b <= Len(s)
  PROVE  /\ SubSeq(s, a + 1, b) \in Seq(S) /\ Len(SubSeq(s, a + 1, b)) = b - a
         /\ \A i \in 1..(b - a) : SubSeq(s, a + 1, b)[i] = s[a + i]
  OBVIOUS

\* The beginning and the rest of a slice.
LEMMA SliceOfSlice ==
  ASSUME NEW S, NEW s \in Seq(S), NEW a \in Nat, NEW b \in Nat, b <= Len(s), NEW n \in Nat
  PROVE  /\ a + n <= b => SubSeq(SubSeq(s, a + 1, b), 1, n) = SubSeq(s, a + 1, a + n)
         /\ Drop(SubSeq(s, a + 1, b), n) = SubSeq(s, a + n + 1, b)
  <1> DEFINE t == SubSeq(s, a + 1, b)
  <1>1. /\ t \in Seq(S) /\ Len(t) = (IF a < b THEN b - a ELSE 0)
        /\ \A i \in 1..Len(t) : t[i] = s[a + i]
    OBVIOUS
  <1> HIDE DEF t
  <1>2. ASSUME a + n <= b PROVE SubSeq(t, 1, n) = SubSeq(s, a + 1, a + n)
    <2> DEFINE l == SubSeq(t, 1, n)
               r == SubSeq(s, a + 1, a + n)
    <2>1. l \in Seq(S) /\ Len(l) = n /\ \A i \in 1..n : l[i] = t[i]
      BY <1>1, <1>2
    <2>2. r \in Seq(S) /\ Len(r) = n /\ \A i \in 1..n : r[i] = s[a + i]
      <3>1. a + n \in Nat /\ a <= a + n /\ a + n <= Len(s) /\ (a + n) - a = n
        BY <1>2
      <3>2. r \in Seq(S) /\ Len(r) = (a + n) - a /\ \A i \in 1..((a + n) - a) : r[i] = s[a + i]
        BY <3>1, SliceType
      <3>3. QED BY <3>1, <3>2
    <2> HIDE DEF l, r
    <2>3. ASSUME NEW i \in 1..Len(l) PROVE l[i] = r[i]
      <3>1. i \in 1..n
        BY <2>1
      <3>2. i \in 1..Len(t)
        BY <1>1, <1>2, <3>1
      <3>3. l[i] = t[i] /\ r[i] = s[a + i] /\ t[i] = s[a + i]
        BY <1>1, <2>1, <2>2, <3>1, <3>2
      <3>4. QED BY <3>3
    <2>4. l = r
      BY <2>1, <2>2, <2>3, SeqEqual
    <2>5. QED BY <2>4 DEF l, r
  <1>3. Drop(t, n) = SubSeq(s, a + n + 1, b)
    <2> DEFINE l == Drop(t, n)
               r == SubSeq(s, a + n + 1, b)
    <2>1. /\ l \in Seq(S) /\ Len(l) = (IF n <= Len(t) THEN Len(t) - n ELSE 0)
          /\ \A i \in 1..Len(l) : l[i] = t[n + i]
      BY <1>1, DropType, Zenon
    <2>2. /\ r \in Seq(S) /\ Len(r) = (IF a + n < b THEN b - (a + n) ELSE 0)
          /\ \A i \in 1..Len(r) : r[i] = s[a + n + i]
      BY SMTT(30)
    <2> HIDE DEF l, r
    <2>3. Len(l) = Len(r)
      BY <1>1, <2>1, <2>2
    <2>4. ASSUME NEW i \in 1..Len(l) PROVE l[i] = r[i]
      <3>1. n + i \in 1..Len(t) /\ a + (n + i) = a + n + i
        BY <1>1, <2>1
      <3>2. l[i] = s[a + (n + i)]
        BY <1>1, <2>1, <3>1, SMTT(20)
      <3>3. QED BY <2>2, <2>3, <3>1, <3>2
    <2>5. l = r
      BY <2>1, <2>2, <2>3, <2>4, SeqEqual
    <2>6. QED BY <2>5 DEF l, r
  <1>4. QED BY <1>2, <1>3 DEF t

\* A set of numbers has a least one.
LEMMA LeastOf ==
  ASSUME NEW S, S \subseteq Nat, S # {}
  PROVE  Min(S) \in S
  <1>1. IsWellFoundedOn(NatLess, Nat)
    BY NatLessThanWellFounded DEF NatLess, OpToRel
  <1>2. PICK x \in S : \A y \in S : ~ (<<y, x>> \in NatLess)
    BY <1>1, WFMin
  <1>3. ASSUME NEW y \in S PROVE x <= y
    <2>1. x \in Nat /\ y \in Nat /\ ~ (<<y, x>> \in NatLess)
      BY <1>2
    <2>2. QED BY <2>1 DEF NatLess
  <1>4. \E z \in S : \A y \in S : z <= y
    BY <1>3
  <1>5. QED BY <1>4 DEF Min

----------------------------------------------------------------------------
\* Texts.

\* The glyphs of each of the units.
Glosses(us) == [i \in DOMAIN us |-> Displayed(us[i])]

LEMMA DisplayedType ==
  ASSUME NEW u \in UnitSet
  PROVE  Displayed(u) \in Seq(GlyphSet)
  <1>1. u[1] \in Docs /\ (u[2] = Num(u[1]) => u[3] \in 1..Len(Glyphs[u[1]]))
    BY DEF UnitSet
  <1>2. Glyphs[u[1]] \in Seq(Nat)
    BY <1>1, DocAssumption
  <1> DEFINE n == IF u[2] = Num(u[1]) THEN Glyphs[u[1]][u[3]] ELSE 1
  <1>3. n \in Nat
    BY <1>1, <1>2
  <1> HIDE DEF n
  <1>4. [j \in 1..n |-> <<u, j>>] \in Seq(GlyphSet)
    <2>1. [j \in 1..n |-> <<u, j>>] \in [1..n -> GlyphSet]
      BY <1>3 DEF GlyphSet
    <2>2. QED BY <1>3, <2>1
  <1>5. QED BY <1>4 DEF Displayed, n

LEMMA GlossesType ==
  ASSUME NEW us \in Seq(UnitSet)
  PROVE  /\ Glosses(us) \in Seq(Seq(GlyphSet))
         /\ Len(Glosses(us)) = Len(us)
         /\ \A i \in 1..Len(us) : Glosses(us)[i] = Displayed(us[i])
  <1>1. \A i \in 1..Len(us) : Displayed(us[i]) \in Seq(GlyphSet)
    BY DisplayedType
  <1>2. DOMAIN us = 1..Len(us) /\ Len(us) \in Nat
    OBVIOUS
  <1>3. QED BY <1>1, <1>2 DEF Glosses

LEMMA TextType ==
  ASSUME NEW us \in Seq(UnitSet)
  PROVE  Text(us) \in Seq(GlyphSet)
  <1>1. Glosses(us) \in Seq(Seq(GlyphSet))
    BY GlossesType
  <1>2. QED BY <1>1, FlattenType DEF Text, Glosses

LEMMA TextEmpty == Text(<<>>) = <<>>
  <1>1. [i \in DOMAIN <<>> |-> Displayed(<<>>[i])] = <<>>
    OBVIOUS
  <1>2. QED BY <1>1, FlattenEmpty DEF Text

\* The text of a unit is what is displayed for it.
LEMMA TextOne ==
  ASSUME NEW u
  PROVE  Text(<<u>>) = Displayed(u)
  <1>1. [i \in DOMAIN <<u>> |-> Displayed(<<u>>[i])] = <<Displayed(u)>>
    OBVIOUS
  <1>2. QED BY <1>1, FlattenOne DEF Text

\* The text of some units and more is their text and more.
LEMMA TextConcat ==
  ASSUME NEW us \in Seq(UnitSet), NEW vs \in Seq(UnitSet)
  PROVE  Text(us \o vs) = Text(us) \o Text(vs)
  <1> DEFINE gu == Glosses(us)
             gv == Glosses(vs)
             gw == Glosses(us \o vs)
  <1>1. us \o vs \in Seq(UnitSet) /\ Len(us \o vs) = Len(us) + Len(vs)
    OBVIOUS
  <1>2. /\ gu \in Seq(Seq(GlyphSet)) /\ Len(gu) = Len(us)
        /\ \A i \in 1..Len(us) : gu[i] = Displayed(us[i])
    BY GlossesType
  <1>3. /\ gv \in Seq(Seq(GlyphSet)) /\ Len(gv) = Len(vs)
        /\ \A i \in 1..Len(vs) : gv[i] = Displayed(vs[i])
    BY GlossesType
  <1>4. /\ gw \in Seq(Seq(GlyphSet)) /\ Len(gw) = Len(us) + Len(vs)
        /\ \A i \in 1..Len(us \o vs) : gw[i] = Displayed((us \o vs)[i])
    BY <1>1, GlossesType
  <1> HIDE DEF gu, gv, gw
  <1>5. gu \o gv \in Seq(Seq(GlyphSet)) /\ Len(gu \o gv) = Len(us) + Len(vs)
    <2>1. gu \o gv \in Seq(Seq(GlyphSet)) /\ Len(gu \o gv) = Len(gu) + Len(gv)
      BY <1>2, <1>3, ConcatProperties, Zenon
    <2>2. QED BY <1>2, <1>3, <2>1
  <1>6. ASSUME NEW i \in 1..Len(gw) PROVE gw[i] = (gu \o gv)[i]
    <2>1. Len(us) \in Nat /\ Len(vs) \in Nat /\ i \in 1..(Len(us) + Len(vs))
      BY <1>4
    <2>2. CASE i <= Len(us)
      <3>1. (us \o vs)[i] = us[i] /\ (gu \o gv)[i] = gu[i] /\ i \in 1..Len(us)
        BY <1>2, <1>3, <2>1, <2>2
      <3>2. QED BY <1>1, <1>2, <1>4, <2>1, <3>1
    <2>3. CASE i > Len(us)
      <3>1. /\ (us \o vs)[i] = vs[i - Len(us)] /\ (gu \o gv)[i] = gv[i - Len(us)]
            /\ i - Len(us) \in 1..Len(vs)
        BY <1>2, <1>3, <2>1, <2>3
      <3>2. gw[i] = Displayed((us \o vs)[i])
        <4>1. i \in 1..Len(us \o vs)
          BY <1>1, <2>1
        <4>2. QED BY <1>4, <4>1
      <3>3. gv[i - Len(us)] = Displayed(vs[i - Len(us)])
        BY <1>3, <3>1
      <3>4. QED BY <3>1, <3>2, <3>3
    <2>4. i <= Len(us) \/ i > Len(us)
      BY <2>1
    <2>5. QED BY <2>2, <2>3, <2>4
  <1>7. gw = gu \o gv
    BY <1>4, <1>5, <1>6, SeqEqual
  <1>8. FlattenSeq(gu \o gv) = FlattenSeq(gu) \o FlattenSeq(gv)
    BY <1>2, <1>3, FlattenConcat
  <1>9. Text(us) = FlattenSeq(gu) /\ Text(vs) = FlattenSeq(gv) /\ Text(us \o vs) = FlattenSeq(gw)
    BY DEF Text, Glosses, gu, gv, gw
  <1>10. QED BY <1>7, <1>8, <1>9

\* The last screen of a document.
LEMMA UnitsType ==
  ASSUME NEW d \in Docs
  PROVE  /\ Units(d) \in Seq(UnitSet)
         /\ Len(Units(d)) = Len(Glyphs[d]) /\ Len(Glyphs[d]) \in Nat
  <1>1. Glyphs[d] \in Seq(Nat) /\ Num(d) \in Nat
    BY DocAssumption DEF Num
  <1>2. Len(Glyphs[d]) \in Nat
    BY <1>1
  <1>3. \A k \in 1..Len(Glyphs[d]) : <<d, Num(d), k>> \in UnitSet
    BY <1>1 DEF UnitSet
  <1> HIDE DEF UnitSet
  <1>4. QED BY <1>2, <1>3 DEF Units

\* Overwritten units have the type of units.
LEMMA OverwrittenType ==
  ASSUME NEW us \in Seq(UnitSet)
  PROVE  Overwritten(us) \in Seq(UnitSet) /\ Len(Overwritten(us)) = Len(us)
  <1>1. \A u \in UnitSet : <<u[1], 0, u[3]>> \in UnitSet
    BY DocAssumption DEF UnitSet, Num
  <1> HIDE DEF UnitSet
  <1>2. DOMAIN us = 1..Len(us) /\ Len(us) \in Nat
    OBVIOUS
  <1>3. QED BY <1>1, <1>2 DEF Overwritten

----------------------------------------------------------------------------
\* Slices of the text.

\* The glyphs of the first k units of d.
Gloss(d, k) == Len(Text(SubSeq(Units(d), 1, k)))

\* The text of the units after the first a and up to b is a slice of the text.
LEMMA UnitSlice ==
  ASSUME NEW d \in Docs, NEW a \in Nat, NEW b \in Nat, a <= b, b <= Len(Glyphs[d])
  PROVE  /\ Gloss(d, a) \in Nat /\ Gloss(d, b) \in Nat
         /\ Gloss(d, a) <= Gloss(d, b) /\ Gloss(d, b) <= Len(Stream[d])
         /\ Text(SubSeq(Units(d), a + 1, b)) = SubSeq(Stream[d], Gloss(d, a) + 1, Gloss(d, b))
  <1> DEFINE U == Units(d)
             m == Len(Glyphs[d])
             X == SubSeq(U, 1, a)
             Y == SubSeq(U, a + 1, b)
             Z == SubSeq(U, b + 1, m)
  <1>1. U \in Seq(UnitSet) /\ Len(U) = m /\ m \in Nat /\ m <= m
    BY UnitsType
  <1>2. X \in Seq(UnitSet) /\ Y \in Seq(UnitSet) /\ Z \in Seq(UnitSet)
    BY <1>1
  <1>3. X \o Y = SubSeq(U, 1, b)
    <2>1. 0 \in Nat /\ 0 <= a /\ 0 + 1 = 1 /\ b <= Len(U)
      BY <1>1
    <2>2. SubSeq(U, 0 + 1, a) \o SubSeq(U, a + 1, b) = SubSeq(U, 0 + 1, b)
      BY <1>1, <2>1, Slices
    <2> HIDE DEF U
    <2>3. QED BY <2>1, <2>2, Zenon
  <1>4. SubSeq(U, 1, b) \o Z = U
    <2>1. 0 \in Nat /\ 0 <= b /\ 0 + 1 = 1 /\ m <= Len(U)
      BY <1>1
    <2>3. SubSeq(U, 1, m) = U
      BY <1>1
    <2> HIDE DEF U, m
    <2>2. SubSeq(U, 0 + 1, b) \o SubSeq(U, b + 1, m) = SubSeq(U, 0 + 1, m)
      <3>1. b <= m /\ m \in Nat /\ U \in Seq(UnitSet)
        BY <1>1 DEF m
      <3>2. QED BY <2>1, <3>1, Slices
    <2>4. QED BY <2>1, <2>2, <2>3, Zenon
  <1> HIDE DEF X, Y, Z, U, m
  <1>5. X \o Y \in Seq(UnitSet)
    BY <1>2
  <1>6. Text(U) = (Text(X) \o Text(Y)) \o Text(Z)
    <2>1. Text((X \o Y) \o Z) = Text(X \o Y) \o Text(Z)
      BY <1>2, <1>5, TextConcat
    <2>2. Text(X \o Y) = Text(X) \o Text(Y)
      BY <1>2, TextConcat
    <2>3. QED BY <1>3, <1>4, <2>1, <2>2, Zenon
  <1>7. /\ Text(X) \in Seq(GlyphSet) /\ Text(Y) \in Seq(GlyphSet) /\ Text(Z) \in Seq(GlyphSet)
    BY <1>2, TextType
  <1>8. Stream[d] = Text(U)
    BY DEF Stream, U
  <1>9. Gloss(d, a) = Len(Text(X)) /\ Gloss(d, b) = Len(Text(X \o Y))
    BY <1>3 DEF Gloss, X, U
  <1>10. Text(X \o Y) = Text(X) \o Text(Y)
    BY <1>2, TextConcat
  <1>11. Gloss(d, b) = Len(Text(X)) + Len(Text(Y))
    BY <1>7, <1>9, <1>10
  <1>12. SubSeq(Stream[d], Gloss(d, a) + 1, Gloss(d, b)) = Text(Y)
    BY <1>6, <1>7, <1>8, <1>9, <1>11, Middle
  <1>13. Len(Stream[d]) = Len(Text(X)) + Len(Text(Y)) + Len(Text(Z))
    BY <1>6, <1>7, <1>8
  <1>14. Len(Text(X)) \in Nat /\ Len(Text(Y)) \in Nat /\ Len(Text(Z)) \in Nat
    BY <1>7
  <1>15. QED BY <1>9, <1>11, <1>12, <1>13, <1>14 DEF Y, U

LEMMA StreamType ==
  ASSUME NEW d \in Docs
  PROVE  /\ Stream[d] \in Seq(GlyphSet) /\ Len(Stream[d]) \in Nat
         /\ Gloss(d, 0) = 0 /\ Gloss(d, Len(Glyphs[d])) = Len(Stream[d])
  <1>1. Units(d) \in Seq(UnitSet) /\ Len(Units(d)) = Len(Glyphs[d])
    BY UnitsType
  <1>2. Stream[d] = Text(Units(d))
    BY DEF Stream
  <1>3. Stream[d] \in Seq(GlyphSet)
    BY <1>1, <1>2, TextType
  <1>4. SubSeq(Units(d), 1, 0) = <<>> /\ SubSeq(Units(d), 1, Len(Glyphs[d])) = Units(d)
    BY <1>1
  <1>5. Gloss(d, 0) = Len(<<>>) /\ Gloss(d, Len(Glyphs[d])) = Len(Stream[d])
    BY <1>2, <1>4, TextEmpty DEF Gloss
  <1>6. QED BY <1>3, <1>5

\* Later parts have sent more, and no part more than there is.
LEMMA SentOrder ==
  ASSUME NEW d \in Docs, NEW p \in 1..Parts(d)
  PROVE  /\ Sent[d][p] \in Nat /\ Sent[d][p] <= Len(Glyphs[d])
         /\ Sent[d][Parts(d)] = Len(Glyphs[d])
         /\ p > 1 => p - 1 \in 1..Parts(d) /\ Sent[d][p-1] \in Nat /\ Sent[d][p-1] <= Sent[d][p]
  <1> DEFINE n == Parts(d)
             T == {j \in Nat : j < n => Sent[d][n - j] <= Len(Glyphs[d])}
  <1>1. /\ Sent[d] \in Seq(Nat) /\ n = Len(Sent[d]) /\ n \in Nat
        /\ Sent[d][n] = Len(Glyphs[d]) /\ Len(Glyphs[d]) \in Nat
        /\ \A q \in 2..n : Sent[d][q-1] <= Sent[d][q]
        /\ \A q \in 1..n : Sent[d][q] \in Nat
    BY DocAssumption, UnitsType DEF Parts
  <1> HIDE DEF n
  <1>2. 0 \in T
    BY <1>1
  <1>3. ASSUME NEW j \in Nat, j \in T PROVE j + 1 \in T
    <2>1. SUFFICES ASSUME j + 1 < n PROVE Sent[d][n - (j + 1)] <= Len(Glyphs[d])
      OBVIOUS
    <2>2. n - j \in 2..n /\ (n - j) - 1 = n - (j + 1) /\ n - (j + 1) \in 1..n /\ n - j \in 1..n
      BY <1>1, <2>1
    <2>3. Sent[d][n - j] <= Len(Glyphs[d])
      BY <1>1, <1>3, <2>1
    <2>4. Sent[d][n - (j + 1)] <= Sent[d][n - j]
      BY <1>1, <2>2
    <2>5. Sent[d][n - (j + 1)] \in Nat /\ Sent[d][n - j] \in Nat
      <3>1. \A q \in 1..n : Sent[d][q] \in Nat
        BY <1>1
      <3>2. QED BY <2>2, <3>1, Zenon
    <2>6. \A x, y, z \in Nat : x <= y /\ y <= z => x <= z
      OBVIOUS
    <2>7. Len(Glyphs[d]) \in Nat
      BY <1>1
    <2>8. QED BY <2>3, <2>4, <2>5, <2>6, <2>7, Zenon
  <1>4. Nat \subseteq T
    BY <1>2, <1>3, SetInduction
  <1>5. p \in 1..n /\ n - p \in Nat /\ n - p < n /\ n - (n - p) = p
    BY <1>1 DEF n
  <1>6. Sent[d][p] <= Len(Glyphs[d])
    BY <1>4, <1>5
  <1>7. p > 1 => p \in 2..n /\ p - 1 \in 1..n
    BY <1>1, <1>5
  <1>8. QED BY <1>1, <1>5, <1>6, <1>7 DEF n

\* The units of a part are units of the document.
LEMMA PartUnitsType ==
  ASSUME NEW d \in Docs, NEW p \in 1..Parts(d)
  PROVE  PartUnits(d, p) \in Seq(UnitSet)
  <1>1. /\ Sent[d][p] \in Nat /\ Sent[d][p] <= Len(Glyphs[d])
        /\ p > 1 => Sent[d][p-1] \in Nat
    BY SentOrder
  <1>2. p = 1 \/ (p > 1 /\ p # 1)
    BY DocAssumption DEF Parts
  <1>3. CASE p = 1
    <2>1. PartUnits(d, p) = SubSeq(Units(d), 1, Sent[d][p])
      BY <1>3 DEF PartUnits
    <2>2. QED BY <1>1, <2>1, UnitsType
  <1>4. CASE p > 1 /\ p # 1
    <2>1. PartUnits(d, p) = SubSeq(Units(d), Sent[d][p-1] + 1, Sent[d][p])
      BY <1>4 DEF PartUnits
    <2>2. Units(d) \in Seq(UnitSet) /\ Len(Units(d)) = Len(Glyphs[d])
      BY UnitsType
    <2>3. ASSUME NEW a \in Nat PROVE SubSeq(Units(d), a + 1, Sent[d][p]) \in Seq(UnitSet)
      BY <1>1, <2>2
    <2>4. QED BY <1>1, <1>4, <2>1, <2>3
  <1>5. QED BY <1>2, <1>3, <1>4

----------------------------------------------------------------------------
\* Types of the pager.

PagerSet ==
  [screen : Nat, title : Nat, page : Nat, input : Seq(UnitSet), pos : Nat,
   parsed : Seq(GlyphSet), shown : Seq(GlyphSet \cup {Dot}), ready : BOOLEAN]

\* The pager has its type, reads within the input and writes within the page.
PagerOK(p) == p \in PagerSet /\ p.pos <= Len(p.input) /\ Len(p.shown) <= W

\* parse_page_text takes some units, enough for a page or all.
LEMMA ParsePageText ==
  ASSUME NEW p, PagerOK(p), NEW q \in parse_page_text(p)
  PROVE  /\ PagerOK(q)
         /\ \E n \in 0..(Len(p.input) - p.pos) :
              /\ q = [p EXCEPT !.parsed = p.parsed \o Text(SubSeq(p.input, p.pos + 1, p.pos + n)),
                               !.pos = p.pos + n]
              /\ Len(q.parsed) >= W \/ q.pos = Len(q.input)
  <1> DEFINE out(n) == p.parsed \o Text(SubSeq(p.input, p.pos + 1, p.pos + n))
             left   == Len(p.input) - p.pos
             full   == {n \in 0..left : Len(out(n)) >= W \/ n = left}
             r(n)   == [p EXCEPT !.parsed = out(n), !.pos = p.pos + n]
  <1>1. p \in PagerSet /\ p.pos <= Len(p.input) /\ Len(p.shown) <= W
    BY DEF PagerOK
  <1>0. p.input \in Seq(UnitSet) /\ p.pos \in Nat /\ p.parsed \in Seq(GlyphSet)
    BY <1>1 DEF PagerSet
  <1>2. /\ p.input \in Seq(UnitSet) /\ Len(p.input) \in Nat /\ p.pos \in Nat
        /\ p.parsed \in Seq(GlyphSet) /\ left \in Nat
    BY <1>0, <1>1
  <1> HIDE DEF out, left
  <1>3. full \subseteq Nat /\ left \in full
    BY <1>2
  <1>4. Min(full) \in full
    BY <1>3, LeastOf
  <1>5. q = r(Min(full))
    BY DEF parse_page_text, out, left, full
  <1> HIDE DEF full
  <1>6. PICK n \in full : q = r(n)
    BY <1>4, <1>5
  <1>7. n \in 0..left /\ (Len(out(n)) >= W \/ n = left)
    BY <1>6 DEF full
  <1> USE DEF out, left
  <1>8. SubSeq(p.input, p.pos + 1, p.pos + n) \in Seq(UnitSet)
    BY <1>2, <1>7
  <1>9. Text(SubSeq(p.input, p.pos + 1, p.pos + n)) \in Seq(GlyphSet)
    BY <1>8, TextType
  <1>10. out(n) \in Seq(GlyphSet) /\ p.pos + n \in Nat /\ p.pos + n <= Len(p.input)
    BY <1>2, <1>7, <1>9
  <1>11. q.parsed = out(n) /\ q.pos = p.pos + n /\ q.input = p.input /\ q.shown = p.shown
    BY <1>1, <1>6 DEF PagerSet
  <1>12. q \in PagerSet
    BY <1>1, <1>6, <1>10 DEF PagerSet
  <1>13. PagerOK(q)
    BY <1>1, <1>10, <1>11, <1>12 DEF PagerOK
  <1>14. n = left => p.pos + n = Len(p.input)
    BY <1>2
  <1>15. Len(q.parsed) >= W \/ q.pos = Len(q.input)
    BY <1>7, <1>11, <1>14
  <1>16. QED BY <1>6, <1>7, <1>13, <1>15

\* What is displayed of a page, dotted or not, is as long as what was parsed for it.
LEMMA DottedType ==
  ASSUME NEW e, NEW p, NEW s \in Seq(GlyphSet)
  PROVE  Dotted(e, p, s) \in Seq(GlyphSet \cup {Dot}) /\ Len(Dotted(e, p, s)) = Len(s)
  <1>1. s \in Seq(GlyphSet \cup {Dot}) /\ Len(s) \in Nat
    OBVIOUS
  <1>2. CASE AtMaxPages(e, p) /\ Len(s) > DotsAbove
    <2>1. Len(s) > 3 /\ Len(s) - 3 \in Nat
      BY <1>1, <1>2, PageAssumption
    <2>2. /\ SubSeq(s, 1, Len(s) - 3) \in Seq(GlyphSet \cup {Dot})
          /\ Len(SubSeq(s, 1, Len(s) - 3)) = Len(s) - 3
      BY <1>1, <2>1
    <2>3. <<Dot, Dot, Dot>> \in Seq(GlyphSet \cup {Dot}) /\ Len(<<Dot, Dot, Dot>>) = 3
      OBVIOUS
    <2>4. /\ SubSeq(s, 1, Len(s) - 3) \o <<Dot, Dot, Dot>> \in Seq(GlyphSet \cup {Dot})
          /\ Len(SubSeq(s, 1, Len(s) - 3) \o <<Dot, Dot, Dot>>) = (Len(s) - 3) + 3
      BY <2>2, <2>3, ConcatProperties
    <2>5. QED BY <1>1, <1>2, <2>4 DEF Dotted
  <1>3. CASE ~(AtMaxPages(e, p) /\ Len(s) > DotsAbove)
    BY <1>1, <1>3 DEF Dotted
  <1>4. QED BY <1>2, <1>3

\* The parsed text becomes a page that fits.
LEMMA EmitType ==
  ASSUME NEW e, NEW p, PagerOK(p)
  PROVE  PagerOK(Emit(e, p))
  <1> DEFINE q == [p EXCEPT !.page = p.page + 1]
             s == SubSeq(p.parsed, 1, Least(W, Len(p.parsed)))
             r == [q EXCEPT !.shown = Dotted(e, q, s), !.parsed = Drop(p.parsed, W)]
  <1>1. p \in PagerSet /\ p.pos <= Len(p.input)
    BY DEF PagerOK
  <1>2. p.parsed \in Seq(GlyphSet) /\ Len(p.parsed) \in Nat /\ p.page \in Nat /\ W \in Nat
    BY <1>1, PageAssumption DEF PagerSet
  <1>3. s \in Seq(GlyphSet) /\ Len(s) = Least(W, Len(p.parsed)) /\ Len(s) <= W
    BY <1>2 DEF Least
  <1>4. Drop(p.parsed, W) \in Seq(GlyphSet)
    BY <1>2, DropType
  <1> HIDE DEF s
  <1>5. q \in PagerSet
    <2>1. \A m \in Nat : [p EXCEPT !.page = m] \in PagerSet
      BY <1>1 DEF PagerSet
    <2>2. p.page + 1 \in Nat
      BY <1>2
    <2>3. QED BY <2>1, <2>2
  <1>6. Dotted(e, q, s) \in Seq(GlyphSet \cup {Dot}) /\ Len(Dotted(e, q, s)) <= W
    BY <1>3, DottedType
  <1>7. r \in PagerSet
    BY <1>4, <1>5, <1>6 DEF PagerSet
  <1>8. r.pos = p.pos /\ r.input = p.input /\ r.shown = Dotted(e, q, s)
    BY <1>1 DEF PagerSet
  <1>9. PagerOK(r)
    BY <1>1, <1>6, <1>7, <1>8 DEF PagerOK
  <1>10. QED BY <1>9 DEF Emit, s

\* A pager that has its type keeps it when only the answer is set.
LEMMA ReadyType ==
  ASSUME NEW p, PagerOK(p), NEW b \in BOOLEAN
  PROVE  PagerOK([p EXCEPT !.ready = b])
  BY DEF PagerOK, PagerSet

LEMMA NextPageType ==
  ASSUME NEW e, NEW p, PagerOK(p), NEW q \in parse_next_page(e, p)
  PROVE  PagerOK(q)
  <1>1. ASSUME NEW r, PagerOK(r) PROVE PagerOK(NextPage(e, r))
    <2>1. PagerOK(Emit(e, r))
      BY <1>1, EmitType
    <2>2. PagerOK([r EXCEPT !.ready = FALSE]) /\ PagerOK([r EXCEPT !.ready = TRUE])
      BY <1>1, ReadyType
    <2>3. PagerOK([Emit(e, r) EXCEPT !.ready = TRUE])
      BY <2>1, ReadyType
    <2>4. QED BY <2>2, <2>3 DEF NextPage
  <1>2. CASE AtMaxPages(e, p) /\ ~e.complete
    BY <1>2, ReadyType DEF parse_next_page
  <1>3. CASE ~(AtMaxPages(e, p) /\ ~e.complete)
    <2>1. PICK r \in IF Len(p.parsed) < W THEN parse_page_text(p) ELSE {p} : q = NextPage(e, r)
      BY <1>3 DEF parse_next_page
    <2>2. PagerOK(r)
      BY <2>1, ParsePageText
    <2>3. QED BY <1>1, <2>1, <2>2
  <1>4. QED BY <1>2, <1>3

\* The text of a screen has the type of an input.
LEMMA ScreenTextType ==
  ASSUME NEW e, e.doc \in Docs, e.text \in Seq(UnitSet), NEW n \in Nat
  PROVE  ScreenText(e, n) \in Seq(UnitSet)
  <1>1. n # Num(e.doc) => <<e.doc, n, 1>> \in UnitSet
    BY DEF UnitSet
  <1> HIDE DEF UnitSet
  <1>2. n # Num(e.doc) => << <<e.doc, n, 1>> >> \in Seq(UnitSet)
    BY <1>1
  <1>3. QED BY <1>2 DEF ScreenText

\* The pager at the beginning of screen n.
AtScreen(e, n, p) ==
  [p EXCEPT !.screen = n, !.title = n, !.page = n - 1,
            !.input = ScreenText(e, n), !.pos = 0, !.parsed = <<>>]

LEMMA AtScreenType ==
  ASSUME NEW e, e.doc \in Docs, e.text \in Seq(UnitSet), NEW n \in Nat, n >= 1,
         NEW p, PagerOK(p)
  PROVE  PagerOK(AtScreen(e, n, p))
  <1>1. ScreenText(e, n) \in Seq(UnitSet)
    BY ScreenTextType
  <1>2. <<>> \in Seq(GlyphSet)
    BY EmptySeq, Zenon
  <1>3. 0 <= Len(ScreenText(e, n)) /\ n - 1 \in Nat /\ 0 \in Nat
    BY <1>1
  <1>4. p \in PagerSet /\ Len(p.shown) <= W
    BY DEF PagerOK
  <1>5. AtScreen(e, n, p) \in PagerSet
    BY <1>1, <1>2, <1>3, <1>4 DEF AtScreen, PagerSet
  <1>6. /\ AtScreen(e, n, p).pos = 0 /\ AtScreen(e, n, p).input = ScreenText(e, n)
        /\ AtScreen(e, n, p).shown = p.shown
    BY <1>4 DEF AtScreen, PagerSet
  <1>7. QED BY <1>3, <1>4, <1>5, <1>6 DEF PagerOK

LEMMA PrepareType ==
  ASSUME NEW e, e.doc \in Docs, e.text \in Seq(UnitSet), NEW n \in Nat, n >= 1,
         NEW p, PagerOK(p), NEW q \in prepare_screen(e, n, p)
  PROVE  PagerOK(q)
  <1>1. q \in parse_next_page(e, AtScreen(e, n, p))
    BY DEF prepare_screen, AtScreen
  <1>2. QED BY <1>1, AtScreenType, NextPageType

----------------------------------------------------------------------------
\* Types of the program.

Callbacks == {"none", "first", "prev", "last", "next"}

FlowType ==
  /\ page_to_display \in Nat \cup {LastPage}
  /\ display_page_callback \in Callbacks
  /\ current_state \in {"static", "dynamic"}

TypeInv ==
  /\ part \in Nat
  /\ screens \in Docs \cup {NoDoc} /\ text \in Seq(UnitSet) /\ max_pages \in {0, MaxPages}
  /\ PagerOK(pager)
  /\ FlowType

LEMMA ShowType ==
  ASSUME NEW cb, NEW b, NEW e, Show(cb, b, e), FlowType
  PROVE  FlowType'
  BY DEF Show, Callback, FlowType, Callbacks

LEMMA AwaitType ==
  ASSUME NEW cb \in Callbacks, NEW want \in Nat \cup {LastPage}, Await(cb, want), FlowType
  PROVE  FlowType'
  BY DEF Await, FlowType

\* Whatever page display_proper_page is asked for, what it leaves has its type.
LEMMA ProperPageType ==
  ASSUME NEW e, e.doc \in Docs, e.text \in Seq(UnitSet), NEW p, PagerOK(p),
         NEW cb \in Callbacks, NEW want \in Nat \cup {LastPage}, FlowType,
         display_proper_page(e, p, cb, want)
  PROVE  PagerOK(pager)' /\ FlowType'
  <1>1. CASE cb = "none" /\ start_display /\ pager' = p
    BY <1>1 DEF start_display, FlowType, Callbacks
  <1>2. CASE want \in 1..Num(e.doc) /\ \E q \in prepare_screen(e, want, p) :
               /\ pager' = q
               /\ \/ q.ready /\ Show(cb, TRUE, e)
                  \/ ~q.ready /\ Requested("next", cb, want, e)
    <2>1. PICK q \in prepare_screen(e, want, p) :
               /\ pager' = q
               /\ Show(cb, TRUE, e) \/ Requested("next", cb, want, e)
      BY <1>2
    <2>2. want \in Nat /\ want >= 1
      BY <1>2
    <2>3. PagerOK(q)
      BY <2>1, <2>2, PrepareType
    <2>4. FlowType'
      BY <2>1, ShowType, AwaitType DEF Requested
    <2>5. QED BY <2>1, <2>3, <2>4
  <1>3. CASE \E q \in IF p.page >= Num(e.doc) THEN {[p EXCEPT !.ready = TRUE]}
                      ELSE IF p.screen < Num(e.doc) THEN prepare_screen(e, Num(e.doc), p)
                      ELSE parse_next_page(e, p) :
               /\ pager' = q
               /\ \/ q.ready /\ Await(cb, want) /\ busy' = TRUE /\ NoReply(e)
                  \/ ~q.ready /\ Requested("next", cb, want, e)
    <2>1. PICK q \in IF p.page >= Num(e.doc) THEN {[p EXCEPT !.ready = TRUE]}
                     ELSE IF p.screen < Num(e.doc) THEN prepare_screen(e, Num(e.doc), p)
                     ELSE parse_next_page(e, p) :
               /\ pager' = q
               /\ Await(cb, want) \/ Requested("next", cb, want, e)
      BY <1>3
    <2>2. Num(e.doc) \in Nat /\ Num(e.doc) >= 1
      BY DocAssumption DEF Num
    <2>3. PagerOK(q)
      BY <2>1, <2>2, ReadyType, PrepareType, NextPageType
    <2>4. FlowType'
      BY <2>1, AwaitType DEF Requested
    <2>5. QED BY <2>1, <2>3, <2>4
  <1>4. QED BY <1>1, <1>2, <1>3 DEF display_proper_page

\* What is on the screens while a document is under review.
LEMMA EnvType ==
  ASSUME RInv, TypeInv, doc # NoDoc, asked = "none"
  PROVE  Env.doc = doc /\ Env.doc \in Docs /\ Env.text \in Seq(UnitSet)
  BY UnderReview DEF Env, TypeInv

LEMMA FindPageType ==
  ASSUME RInv, TypeInv, FindPage
  PROVE  TypeInv'
  <1>1. /\ PagerOK(pager) /\ FlowType
        /\ UNCHANGED <<part, screens, text, max_pages>>
        /\ display_page_callback \in Callbacks /\ page_to_display \in Nat \cup {LastPage}
    BY DEF TypeInv, FlowType, FindPage, hostVars, globalVars
  <1>2. CASE (\E b : Show(display_page_callback, b, Env)) /\ UNCHANGED pager
    BY <1>1, <1>2, ShowType DEF TypeInv
  <1>3. CASE \E q \in parse_next_page(Env, pager) :
               /\ pager' = q
               /\ \/ /\ q.ready
                     /\ UNCHANGED <<owed, asked, page_to_display, display_page_callback,
                                    busy, step, current_state>>
                  \/ /\ ~q.ready
                     /\ Requested("next", display_page_callback, page_to_display, Env)
    <2>1. PICK q \in parse_next_page(Env, pager) :
               /\ pager' = q
               /\ \/ UNCHANGED <<page_to_display, display_page_callback, current_state>>
                  \/ Await(display_page_callback, page_to_display)
      BY <1>3 DEF Requested
    <2>2. PagerOK(q)
      BY <1>1, <2>1, NextPageType
    <2>3. FlowType'
      BY <1>1, <2>1, AwaitType DEF FlowType
    <2>4. QED BY <1>1, <2>1, <2>2, <2>3 DEF TypeInv
  <1>4. QED BY <1>2, <1>3 DEF FindPage

\* A pager put on another page, or on none.
LEMMA MovedType ==
  ASSUME NEW p, PagerOK(p), NEW n \in Nat
  PROVE  /\ PagerOK([p EXCEPT !.page = n])
         /\ PagerOK([p EXCEPT !.screen = 0, !.page = 0])
         /\ PagerOK(Cleared(p))
  <1>1. p \in PagerSet /\ p.pos <= Len(p.input) /\ Len(p.shown) <= W
    BY DEF PagerOK
  <1>2. PagerOK([p EXCEPT !.page = n])
    BY <1>1 DEF PagerOK, PagerSet
  <1>3. PagerOK([p EXCEPT !.screen = 0, !.page = 0])
    BY <1>1 DEF PagerOK, PagerSet
  <1>4. <<>> \in Seq(UnitSet) /\ <<>> \in Seq(GlyphSet) /\ 0 <= Len(<<>>)
    <2>1. <<>> \in Seq(UnitSet) /\ <<>> \in Seq(GlyphSet)
      BY EmptySeq, Zenon
    <2>2. QED BY <2>1
  <1>5. Cleared(p) \in PagerSet
    BY <1>1, <1>4 DEF Cleared, PagerSet
  <1>6. Cleared(p).pos = 0 /\ Cleared(p).input = <<>> /\ Cleared(p).shown = p.shown
    BY <1>1 DEF Cleared, PagerSet
  <1>7. PagerOK(Cleared(p))
    BY <1>1, <1>4, <1>5, <1>6 DEF PagerOK
  <1>8. QED BY <1>2, <1>3, <1>7

Moves == {"first", "next", "prev", "last"}

\* The page that a press asks for, and the pager it finds.
PageNow     == IF pager.page = 0 THEN pager.screen ELSE pager.page
Wanted(m)   == CASE m = "first" -> 1
                 [] m = "next"  -> PageNow + 1
                 [] m = "prev"  -> PageNow - 1
                 [] m = "last"  -> LastPage
PagerNow    == [pager EXCEPT !.page = PageNow]
PagerFor(m) == IF m \in {"prev", "last"} THEN [PagerNow EXCEPT !.screen = 0, !.page = 0]
               ELSE PagerNow
Gone(m)     == ~is_first_part /\ (m # "next" \/ Wanted(m) \in 1..(Num(screens) - 1))

\* The three outcomes of get_next_data.
LEMMA NextDataCases ==
  ASSUME NEW m \in Moves, get_next_data(m)
  PROVE  \/ /\ m = "prev" /\ Wanted(m) < 1
            /\ Show(m, FALSE, Env) /\ pager' = Cleared(PagerNow)
         \/ /\ ~(m = "prev" /\ Wanted(m) < 1) /\ Gone(m)
            /\ Requested("first", m, Wanted(m), Env) /\ pager' = PagerNow
         \/ /\ ~(m = "prev" /\ Wanted(m) < 1) /\ ~Gone(m)
            /\ display_proper_page(Env, PagerFor(m), m, Wanted(m))
  BY DEF get_next_data, Wanted, PagerNow, PagerFor, Gone, PageNow

LEMMA NowType ==
  ASSUME PagerOK(pager), NEW m \in Moves
  PROVE  /\ PageNow \in Nat /\ PagerOK(PagerNow) /\ PagerOK(PagerFor(m))
         /\ PagerOK(Cleared(PagerNow))
         /\ ~(m = "prev" /\ Wanted(m) < 1) => Wanted(m) \in Nat \cup {LastPage}
  <1>1. PageNow \in Nat
    BY DEF PagerOK, PagerSet, PageNow
  <1>2. PagerOK(PagerNow)
    BY <1>1, MovedType DEF PagerNow
  <1>3. PagerOK(PagerFor(m)) /\ PagerOK(Cleared(PagerNow))
    BY <1>1, <1>2, MovedType DEF PagerFor
  <1>4. ~(m = "prev" /\ Wanted(m) < 1) => Wanted(m) \in Nat \cup {LastPage}
    BY <1>1 DEF Moves, Wanted
  <1>5. QED BY <1>1, <1>2, <1>3, <1>4

LEMMA GetNextDataType ==
  ASSUME RInv, TypeInv, doc # NoDoc, asked = "none", NEW m \in Moves,
         get_next_data(m), UNCHANGED <<hostVars, globalVars>>
  PROVE  TypeInv'
  <1>1. /\ PagerOK(pager) /\ FlowType /\ m \in Callbacks
        /\ UNCHANGED <<part, screens, text, max_pages>>
    BY DEF TypeInv, hostVars, globalVars, Moves, Callbacks
  <1>2. PagerOK(pager)' /\ FlowType'
    <2>1. CASE Show(m, FALSE, Env) /\ pager' = Cleared(PagerNow)
      BY <1>1, <2>1, NowType, ShowType
    <2>2. CASE /\ ~(m = "prev" /\ Wanted(m) < 1)
               /\ Requested("first", m, Wanted(m), Env) /\ pager' = PagerNow
      BY <1>1, <2>2, NowType, AwaitType DEF Requested
    <2>3. CASE /\ ~(m = "prev" /\ Wanted(m) < 1)
               /\ display_proper_page(Env, PagerFor(m), m, Wanted(m))
      BY <1>1, <2>3, EnvType, NowType, ProperPageType
    <2>4. QED BY <2>1, <2>2, <2>3, NextDataCases
  <1>3. QED BY <1>1, <1>2 DEF TypeInv

LEMMA PressType ==
  ASSUME RInv, TypeInv, PressNext \/ PressPrev
  PROVE  TypeInv'
  <1>1. ~busy /\ asked = "none" /\ UNCHANGED <<hostVars, globalVars>>
    BY DEF PressNext, PressPrev, CanPress
  <1>2. doc # NoDoc
    BY <1>1 DEF RInv, Closed, PressNext, PressPrev
  <1>3. CASE on_anterior_delimiter
    <2>1. CASE current_state = "static"
      BY <2>1, <1>1, <1>2, <1>3, GetNextDataType DEF on_anterior_delimiter, Moves
    <2>2. CASE current_state # "static"
      BY <2>2, <1>1, <1>2, <1>3, GetNextDataType DEF on_anterior_delimiter, Moves
    <2>3. QED BY <2>1, <2>2
  <1>4. CASE on_posterior_delimiter
    <2>1. CASE current_state = "static"
      BY <2>1, <1>1, <1>2, <1>4, GetNextDataType DEF on_posterior_delimiter, Moves
    <2>2. CASE current_state # "static"
      BY <2>2, <1>1, <1>2, <1>4, GetNextDataType DEF on_posterior_delimiter, Moves
    <2>3. QED BY <2>1, <2>2
  <1>5. CASE \E s \in Steps : Step(s)
    BY <1>1, <1>5 DEF Step, TypeInv, FlowType, hostVars, globalVars
  <1>6. FinalStep(screens) \in Steps
    BY DEF FinalStep, Steps
  <1>7. QED BY <1>3, <1>4, <1>5, <1>6 DEF PressNext, PressPrev, Steps

LEMMA CloseType ==
  ASSUME TypeInv, sign_transaction \/ reject_transaction \/ Back
  PROVE  TypeInv'
  <1>1. part' = 0 /\ UNCHANGED <<globalVars, pager, page_to_display, display_page_callback, current_state>>
    BY DEF sign_transaction, reject_transaction, Back, Close
  <1>2. QED BY <1>1 DEF TypeInv, FlowType, globalVars

\* Screens made for a document.
LEMMA ShowScreensType ==
  ASSUME TypeInv, NEW d \in Docs, NEW us \in Seq(UnitSet), NEW max \in {0, MaxPages},
         NEW complete, NEW cb \in Callbacks, NEW want \in Nat \cup {LastPage}, NEW n,
         ShowScreens(d, us, max, complete, cb, want, n), part' \in Nat
  PROVE  TypeInv'
  <1> DEFINE e == [doc |-> d, complete |-> complete, max |-> max, text |-> us, owed |-> owed + n]
  <1>1. e.doc \in Docs /\ e.text \in Seq(UnitSet)
    OBVIOUS
  <1>2. display_proper_page(e, Cleared(pager), cb, want)
    BY DEF ShowScreens
  <1>3. screens' = d /\ text' = us /\ max_pages' = max
    BY DEF ShowScreens
  <1> HIDE DEF e
  <1>4. PagerOK(Cleared(pager)) /\ FlowType
    BY MovedType DEF TypeInv
  <1>5. PagerOK(pager)' /\ FlowType'
    BY <1>1, <1>2, <1>4, ProperPageType
  <1>6. QED BY <1>3, <1>5 DEF TypeInv

LEMMA StillType ==
  ASSUME TypeInv, part' \in Nat,
         UNCHANGED <<screens, text, max_pages, pager, page_to_display, display_page_callback, current_state>>
  PROVE  TypeInv'
  BY DEF TypeInv, FlowType

LEMMA DisplayTransactionType ==
  ASSUME TypeInv, NEW d \in Docs, NEW p \in 1..Parts(d), display_transaction(d, p), part' \in Nat
  PROVE  TypeInv'
  <1>1. PartUnits(d, p) \in Seq(UnitSet)
    BY PartUnitsType
  <1>2. display_page_callback \in Callbacks /\ page_to_display \in Nat \cup {LastPage}
    BY DEF TypeInv, FlowType
  <1>3. CASE Long[d]
    BY <1>1, <1>2, <1>3, ShowScreensType DEF display_transaction
  <1>4. CASE ~Long[d]
    BY <1>1, <1>2, <1>4, ShowScreensType DEF display_transaction
  <1>5. QED BY <1>3, <1>4

LEMMA FirstPartType ==
  ASSUME TypeInv, NEW d \in Docs, part' = 1, on_first_part(d)
  PROVE  TypeInv'
  <1>1. 1 \in 1..Parts(d) /\ part' \in Nat
    BY DocAssumption DEF Parts
  <1>2. CASE display_transaction(d, 1)
    BY <1>1, <1>2, DisplayTransactionType
  <1>3. CASE AwaitDeploy(d, 1)
    BY <1>1, <1>3, StillType DEF AwaitDeploy
  <1>4. QED BY <1>2, <1>3 DEF on_first_part

\* A part shown on the screens there are, or one that overwrites their text.
LEMMA PartShownType ==
  ASSUME TypeInv, doc \in Docs, NEW p \in 1..Parts(doc), part' = p,
         ShowPart(p) \/ ShowTail(p)
  PROVE  TypeInv'
  <1>1. /\ PagerOK(pager) /\ FlowType /\ text \in Seq(UnitSet)
        /\ display_page_callback \in Callbacks /\ page_to_display \in Nat \cup {LastPage}
    BY DEF TypeInv, FlowType
  <1>2. /\ pager \in PagerSet /\ pager.pos <= Len(pager.input) /\ Len(pager.shown) <= W
        /\ pager.input \in Seq(UnitSet) /\ pager.screen \in Nat
    BY <1>1 DEF PagerOK, PagerSet
  <1>3. ASSUME NEW e, e.doc \in Docs, e.text \in Seq(UnitSet), text' = e.text,
               NEW q, PagerOK(q), UNCHANGED <<screens, max_pages>>,
               display_proper_page(e, q, display_page_callback, page_to_display)
        PROVE  TypeInv'
    <2>1. PagerOK(pager)' /\ FlowType'
      BY <1>1, <1>3, ProperPageType
    <2>2. part' \in Nat
      OBVIOUS
    <2>3. QED BY <1>3, <2>1, <2>2 DEF TypeInv
  <1>4. CASE ShowPart(p)
    <2> DEFINE e == [doc |-> doc, complete |-> p = Parts(doc), max |-> max_pages,
                     text |-> PartUnits(doc, p), owed |-> owed + 1]
               q == [pager EXCEPT !.input = ScreenText(e, pager.screen), !.pos = 0]
    <2>1. /\ text' = e.text /\ UNCHANGED <<screens, max_pages>>
          /\ display_proper_page(e, q, display_page_callback, page_to_display)
      BY <1>4 DEF ShowPart
    <2>2. e.doc \in Docs /\ e.text \in Seq(UnitSet)
      BY PartUnitsType
    <2> HIDE DEF e
    <2>3. ScreenText(e, pager.screen) \in Seq(UnitSet) /\ 0 <= Len(ScreenText(e, pager.screen))
      <3>1. ScreenText(e, pager.screen) \in Seq(UnitSet)
        BY <1>2, <2>2, ScreenTextType
      <3>2. QED BY <3>1
    <2>4. PagerOK(q)
      <3>1. q \in PagerSet
        BY <1>2, <2>3 DEF PagerSet
      <3>2. q.pos = 0 /\ q.input = ScreenText(e, pager.screen) /\ q.shown = pager.shown
        BY <1>2 DEF PagerSet
      <3>3. QED BY <1>2, <2>3, <3>1, <3>2 DEF PagerOK
    <2> HIDE DEF q
    <2>5. QED BY <1>3, <2>1, <2>2, <2>4
  <1>5. CASE ShowTail(p)
    <2> DEFINE stale(us) == IF Kind[doc] = "payload" THEN Overwritten(us) ELSE us
               e == [doc |-> doc, complete |-> p = Parts(doc), max |-> max_pages,
                     text |-> stale(text), owed |-> owed + 1]
               q == [pager EXCEPT !.input = stale(@)]
    <2>1. /\ text' = e.text /\ UNCHANGED <<screens, max_pages>>
          /\ display_proper_page(e, q, display_page_callback, page_to_display)
      BY <1>5 DEF ShowTail
    <2>2. \A us \in Seq(UnitSet) : stale(us) \in Seq(UnitSet) /\ Len(stale(us)) = Len(us)
      BY OverwrittenType
    <2>3. q = [pager EXCEPT !.input = stale(pager.input)]
      BY <1>2 DEF PagerSet
    <2> HIDE DEF stale
    <2>4. e.doc \in Docs /\ e.text \in Seq(UnitSet)
      BY <1>1, <2>2
    <2>5. PagerOK(q)
      <3>1. q \in PagerSet
        BY <1>2, <2>2, <2>3 DEF PagerSet
      <3>2. q.pos = pager.pos /\ q.input = stale(pager.input) /\ q.shown = pager.shown
        BY <1>2, <2>3 DEF PagerSet
      <3>3. QED BY <1>2, <2>2, <3>1, <3>2 DEF PagerOK
    <2> HIDE DEF e, q
    <2>6. QED BY <1>3, <2>1, <2>4, <2>5
  <1>6. QED BY <1>4, <1>5

LEMMA CommandType ==
  ASSUME RInv, TypeInv,
         \/ \E d \in Docs : SendTxn(d) \/ on_new_message(d) \/ on_display_account(d)
         \/ SendFirst \/ SendNext
  PROVE  TypeInv'
  <1>1. /\ display_page_callback \in Callbacks /\ page_to_display \in Nat \cup {LastPage}
        /\ max_pages \in {0, MaxPages} /\ 1 \in Nat
    BY DEF TypeInv, FlowType
  <1>2. ASSUME NEW d \in Docs, SendTxn(d) PROVE TypeInv'
    BY <1>2, FirstPartType, StillType DEF SendTxn, Opens, Refuse
  <1>3. ASSUME NEW d \in Docs, on_new_message(d) PROVE TypeInv'
    BY <1>1, <1>3, UnitsType, ShowScreensType DEF on_new_message, Opens
  <1>4. ASSUME NEW d \in Docs, on_display_account(d) PROVE TypeInv'
    <2>1. "none" \in Callbacks /\ 0 \in Nat \cup {LastPage} /\ part' = 1
      BY <1>4 DEF Callbacks, on_display_account, Opens
    <2>2. ShowScreens(d, Units(d), max_pages, TRUE, "none", 0, 0)
      BY <1>4 DEF on_display_account
    <2>3. Units(d) \in Seq(UnitSet)
      BY UnitsType
    <2>4. QED BY <1>1, <2>1, <2>2, <2>3, ShowScreensType
  <1>5. CASE SendFirst
    <2>1. doc \in Docs
      BY <1>5 DEF SendFirst, RInv, Asked
    <2>2. QED BY <1>5, <2>1, FirstPartType DEF SendFirst
  <1>6. CASE SendNext
    <2>1. doc \in Docs /\ IsTxn(doc) /\ asked = "next" /\ part < Parts(doc)
      BY <1>6 DEF SendNext, RInv, Asked
    <2>2. part + 1 \in 1..Parts(doc) /\ part + 1 \in Nat
      <3>1. part \in 1..Parts(doc) /\ Parts(doc) \in Nat
        BY <2>1, DocAssumption DEF RInv, Complete, Asked, Parts
      <3>2. QED BY <2>1, <3>1
    <2>3. CASE Refuse(FALSE)
      BY <2>3, StillType DEF Refuse
    <2>4. CASE part' = part + 1 /\ on_next_part(part + 1)
      <3>1. CASE display_transaction(doc, part + 1)
        BY <2>1, <2>2, <2>4, <3>1, DisplayTransactionType
      <3>2. CASE AwaitDeploy(doc, part + 1)
        BY <2>2, <2>4, <3>2, StillType DEF AwaitDeploy
      <3>3. CASE ShowPart(part + 1) \/ ShowTail(part + 1)
        BY <2>1, <2>2, <2>4, <3>3, PartShownType
      <3>4. QED BY <2>4, <3>1, <3>2, <3>3 DEF on_next_part
    <2>5. QED BY <1>6, <2>3, <2>4 DEF SendNext
  <1>7. QED BY <1>2, <1>3, <1>4, <1>5, <1>6

LEMMA InitTypeInv == Init => TypeInv
  <1> SUFFICES ASSUME Init PROVE TypeInv
    OBVIOUS
  <1>1. <<>> \in Seq(UnitSet) /\ <<>> \in Seq(GlyphSet) /\ <<>> \in Seq(GlyphSet \cup {Dot})
    BY EmptySeq, Zenon
  <1>2. Len(<<>>) = 0 /\ W \in Nat
    BY PageAssumption
  <1>3. Blank \in PagerSet
    BY <1>1 DEF Blank, PagerSet
  <1>4. PagerOK(Blank)
    BY <1>2, <1>3 DEF PagerOK, Blank
  <1>5. QED BY <1>1, <1>4 DEF Init, TypeInv, FlowType, Callbacks

LEMMA NextTypeInv == RInv /\ TypeInv /\ [Next]_vars => TypeInv'
  <1> SUFFICES ASSUME RInv, TypeInv, [Next]_vars PROVE TypeInv'
    OBVIOUS
  <1>1. CASE Next
    BY <1>1, CommandType, FindPageType, PressType, CloseType DEF Next
  <1>2. CASE UNCHANGED vars
    BY <1>2 DEF vars, hostVars, globalVars, displayVars, TypeInv, FlowType
  <1>3. QED BY <1>1, <1>2

LEMMA ReviewTypeInv == Spec => [](RInv /\ TypeInv)
  BY InitRInv, NextRInv, InitTypeInv, NextTypeInv, PTL DEF Spec

\* Everything has its type and what is copied to the page fits on it, whatever
\* glyphs the text is made of and however it is cut into parts and pages.
THEOREM ReviewTypes == Spec => []TypeOK
  <1>1. RInv /\ TypeInv => TypeOK
    <2> SUFFICES ASSUME RInv, TypeInv PROVE TypeOK
      OBVIOUS
    <2>1. /\ pager \in PagerSet /\ pager.pos <= Len(pager.input) /\ Len(pager.shown) <= W
      BY DEF TypeInv, PagerOK
    <2>2. /\ pager.screen \in Nat /\ pager.title \in Nat /\ pager.page \in Nat
          /\ pager.pos \in Nat /\ pager.input \in Seq(UnitSet) /\ pager.ready \in BOOLEAN
          /\ DOMAIN pager = DOMAIN Blank
      BY <2>1 DEF PagerSet, Blank
    <2>3. pager.pos \in 0..Len(pager.input)
      BY <2>1, <2>2
    <2>4. text \in Seq(Docs \X Nat \X Nat)
      <3>1. UnitSet \subseteq Docs \X Nat \X Nat
        BY DEF UnitSet
      <3>2. text \in Seq(UnitSet)
        BY DEF TypeInv
      <3>3. QED BY <3>1, <3>2
    <2>5. owed \in Int
      BY DEF RInv, Closed, Reviewed, Asked
    <2>6. QED BY <2>1, <2>2, <2>3, <2>4, <2>5 DEF RInv, TypeInv, FlowType, Callbacks, TypeOK
  <1>2. QED BY <1>1, ReviewTypeInv, PTL

=============================================================================
