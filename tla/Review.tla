------------------------------- MODULE Review -------------------------------
(***************************************************************************)
(* The review of a document on the device's screen: the pager of           *)
(* display_pages.h, the flow of steps of display.h, and the handlers of    *)
(* selection.h and main.c that feed them, with a client that sends the     *)
(* parts it is asked for and a user who presses the two buttons.           *)
(*                                                                         *)
(* A document is a number of one-page screens and a last screen, whose     *)
(* text may arrive in parts while the user reads.  The text is a sequence  *)
(* of units (characters of the source) and a unit is displayed as a few    *)
(* glyphs: several for an escaped character, none for one that is skipped. *)
(* A part that is gone can only be had again by asking for the first part. *)
(***************************************************************************)
EXTENDS Integers, Sequences, SequencesExt, FiniteSetsExt

CONSTANTS
  Docs,      \* the documents that may be reviewed
  NoDoc,     \* no document
  Kind,      \* "payload": a transaction whose last screen is its payload, read
             \* where it lies in the APDU buffer; "transfer": one without payload;
             \* "deploy": one whose payload is shown as a hash; "message"; "account"
  Fixed,     \* number of one-page screens before the last one
  Glyphs,    \* Glyphs[d][k]: number of glyphs of the last screen's unit k
  Sent,      \* Sent[d][p]: number of units in the first p parts
  Bad,       \* Bad[d]: the number of the part that the parser refuses, or 0
  Long,      \* the payload is cut after MaxPages + 1 pages
  W,         \* MAX_CHARS_PER_LINE: glyphs on a page (45 or 13)
  MaxPages,  \* 4
  DotsAbove  \* a page of more glyphs than this gets the dots of a cut (5)

Kinds == {"payload", "transfer", "deploy", "message", "account"}

IsTxn(d) == Kind[d] \in {"payload", "transfer", "deploy"}

ASSUME DocAssumption ==
  /\ NoDoc \notin Docs
  /\ Kind \in [Docs -> Kinds]
  /\ Fixed \in [Docs -> Nat]
  /\ Glyphs \in [Docs -> Seq(Nat)]
  /\ Sent \in [Docs -> Seq(Nat)]
  /\ Bad \in [Docs -> Nat]
  /\ Long \in [Docs -> BOOLEAN]
  /\ \A d \in Docs :
       /\ Sent[d] # <<>>
       /\ \A p \in 2..Len(Sent[d]) : Sent[d][p-1] <= Sent[d][p]
       /\ Sent[d][Len(Sent[d])] = Len(Glyphs[d])
       /\ Kind[d] \in {"message", "account"} => Len(Sent[d]) = 1
       /\ Bad[d] > 0 => IsTxn(d)
       /\ Long[d] => Kind[d] = "payload"

ASSUME PageAssumption ==
  W \in Nat \ {0} /\ MaxPages \in Nat \ {0} /\ DotsAbove \in Nat /\ DotsAbove >= 3

VARIABLES
  doc,                    \* the document the client has sent, or is sending
  part,                   \* the number of its last part that arrived
  owed,                   \* commands that wait for a reply
  asked,                  \* the part the last reply asks for: "none", "first", "next"
  is_first_part,
  txn_is_complete,
  screens,                \* the document the array of screens was made for
  text,                   \* the units the last of the screens points to
  max_pages,
  pager,                  \* the position in the text: see Blank
  page_to_display,        \* LastPage: the last one
  display_page_callback,  \* "none", or where the awaited page leads: see Show
  busy,                   \* display_proper_page is looking for the page
  step,                   \* the step of the flow
  current_state           \* "static" or "dynamic"

hostVars    == <<doc, part>>
globalVars  == <<is_first_part, txn_is_complete, screens, text, max_pages>>
displayVars == <<owed, asked, pager, page_to_display, display_page_callback,
                 busy, step, current_state>>
vars == <<hostVars, globalVars, displayVars>>

LastPage   == -1
Num(d)     == Fixed[d] + 1
Parts(d)   == Len(Sent[d])
Signing(d) == Kind[d] # "account"

\* Unit k of screen n of d.
Units(d) == [k \in 1..Len(Glyphs[d]) |-> <<d, Num(d), k>>]

PartUnits(d, p) ==
  SubSeq(Units(d), IF p = 1 THEN 1 ELSE Sent[d][p-1] + 1, Sent[d][p])

\* has_partial_payload after part p of d.
MorePayload(d, p) == Sent[d][p] < Len(Glyphs[d])

\* The units us once another command has overwritten the APDU buffer.
Overwritten(us) == [i \in DOMAIN us |-> <<us[i][1], 0, us[i][3]>>]

\* What is displayed for a unit, and for a sequence of units.
Displayed(u) ==
  [j \in 1..(IF u[2] = Num(u[1]) THEN Glyphs[u[1]][u[3]] ELSE 1) |-> <<u, j>>]

Text(us) == FlattenSeq([i \in DOMAIN us |-> Displayed(us[i])])

Dot == <<>>

Least(a, b) == IF a <= b THEN a ELSE b
Drop(s, n)  == SubSeq(s, n + 1, Len(s))

----------------------------------------------------------------------------
(* The pager.  e is what it reads of the rest of the program:              *)
(* the screens, whether the transaction is complete, the maximum of pages, *)
(* the last screen's text and the commands that wait for a reply.          *)

Env == [doc |-> screens, complete |-> txn_is_complete, max |-> max_pages,
        text |-> text, owed |-> owed]

\* current_screen, global_title, current_page, input_text, input_pos,
\* parsed_text, global_text, and what parse_next_page returned.
Blank == [screen |-> 0, title |-> 0, page |-> 0, input |-> <<>>, pos |-> 0,
          parsed |-> <<>>, shown |-> <<>>, ready |-> TRUE]

\* reset_screen and current_page = 0
Cleared(p) == [p EXCEPT !.screen = 0, !.page = 0, !.input = <<>>, !.pos = 0,
                        !.parsed = <<>>]

ScreenText(e, n) == IF n = Num(e.doc) THEN e.text ELSE << <<e.doc, n, 1>> >>

\* Units are read until the page is full or the input is used up.  This and the
\* next two are given as the set of what they may leave, a set of one.
parse_page_text(p) ==
  LET out(n) == p.parsed \o Text(SubSeq(p.input, p.pos + 1, p.pos + n))
      left   == Len(p.input) - p.pos
      full   == {n \in 0..left : Len(out(n)) >= W \/ n = left}
  IN  {[p EXCEPT !.parsed = out(n), !.pos = p.pos + n] : n \in {Min(full)}}

AtMaxPages(e, p) == e.max > 0 /\ p.page - Num(e.doc) >= e.max

\* Mutant: at the maximum of pages, the rest of the transaction is not awaited.
on_last_page_unawaited(e, p) ==
  \/ AtMaxPages(e, p)
  \/ /\ p.page >= Num(e.doc) /\ p.pos >= Len(p.input)
     /\ e.complete /\ p.parsed = <<>>

\* Mutant: the last screen is thought to have a second page.
on_last_page_late(e, p) ==
  /\ e.complete
  /\ \/ AtMaxPages(e, p)
     \/ p.page > Num(e.doc) /\ p.pos >= Len(p.input) /\ p.parsed = <<>>

on_last_page(e, p) ==
  /\ e.complete
  /\ \/ AtMaxPages(e, p)
     \/ p.page >= Num(e.doc) /\ p.pos >= Len(p.input) /\ p.parsed = <<>>

\* Mutant: a page that is not full waits for more input although none will come.
NeedsInputAlways(e, p) ==
  p.screen = Num(e.doc) /\ Len(p.parsed) < W /\ p.pos >= Len(p.input)

\* The last screen's page is not full and the next part may have more of it.
NeedsInput(e, p) ==
  /\ p.screen = Num(e.doc)
  /\ Len(p.parsed) < W /\ p.pos >= Len(p.input)
  /\ ~e.complete

\* The first page after which pages are discarded ends in three dots.
Dotted(e, p, s) ==
  IF AtMaxPages(e, p) /\ Len(s) > DotsAbove
  THEN SubSeq(s, 1, Len(s) - 3) \o <<Dot, Dot, Dot>>
  ELSE s

\* Mutants: what does not fit on the page is copied too, or is not kept.
EmitUnbounded(e, p) ==
  LET q == [p EXCEPT !.page = p.page + 1]
  IN  [q EXCEPT !.shown = Dotted(e, q, p.parsed), !.parsed = <<>>]

EmitForgets(e, p) ==
  LET q == [p EXCEPT !.page = p.page + 1]
  IN  [q EXCEPT !.shown = Dotted(e, q, SubSeq(p.parsed, 1, Least(W, Len(p.parsed)))),
                !.parsed = <<>>]

\* The parsed text becomes the next page; what does not fit on it is kept.
Emit(e, p) ==
  LET q == [p EXCEPT !.page = p.page + 1]
  IN  [q EXCEPT !.shown = Dotted(e, q, SubSeq(p.parsed, 1, Least(W, Len(p.parsed)))),
                !.parsed = Drop(p.parsed, W)]

\* After the text was parsed.  ready = FALSE: the next part is requested.
NextPage(e, p) ==
  IF NeedsInput(e, p) THEN [p EXCEPT !.ready = FALSE]
  ELSE IF p.parsed = <<>> THEN [p EXCEPT !.ready = TRUE]
  ELSE [Emit(e, p) EXCEPT !.ready = TRUE]

parse_next_page(e, p) ==
  IF AtMaxPages(e, p) /\ ~e.complete THEN {[p EXCEPT !.ready = FALSE]}
  ELSE {NextPage(e, q) : q \in IF Len(p.parsed) < W THEN parse_page_text(p) ELSE {p}}

prepare_screen(e, n, p) ==
  UNION {parse_next_page(e, q) :
           q \in {[p EXCEPT !.screen = n, !.title = n, !.page = n - 1,
                            !.input = ScreenText(e, n), !.pos = 0, !.parsed = <<>>]}}

----------------------------------------------------------------------------
(* The flow: review, (anterior) generic (posterior), then approve and      *)
(* reject, or back, and around.  A delimiter has no image of its own: it   *)
(* asks the pager for a page, and the callback leaves it when the page is  *)
(* there, or to the other side when there is none.                         *)

\* The first and the last of the steps after the pages.
AfterPages(d) == IF Signing(d) THEN "approve" ELSE "back"
FinalStep(d)  == IF Signing(d) THEN "reject" ELSE "back"

Delimiter(cb) == IF cb \in {"first", "prev"} THEN "anterior" ELSE "posterior"

Reply(what, e) == asked' = what /\ owed' = e.owed - 1
NoReply(e)     == asked' = "none" /\ owed' = e.owed

\* on_first_page_cb, on_prev_page_cb, on_last_page_cb, on_next_page_cb
Callback(cb, has_dynamic_data, e) ==
  /\ step' = IF has_dynamic_data THEN "generic"
             ELSE IF Delimiter(cb) = "anterior" THEN "review"
             ELSE AfterPages(e.doc)
  /\ current_state' =
       IF cb \in {"first", "last"}
       THEN IF has_dynamic_data THEN "dynamic" ELSE current_state
       ELSE IF has_dynamic_data THEN current_state ELSE "static"

\* The callback is called and forgotten.
Show(cb, has_dynamic_data, e) ==
  /\ Callback(cb, has_dynamic_data, e)
  /\ page_to_display' = 0 /\ display_page_callback' = "none"
  /\ busy' = FALSE
  /\ NoReply(e)

\* The page stays to be displayed, by the loop or when a part has come.
Await(cb, want) ==
  /\ page_to_display' = want /\ display_page_callback' = cb
  /\ step' = Delimiter(cb)
  /\ UNCHANGED current_state

Requested(what, cb, want, e) ==
  /\ Await(cb, want)
  /\ busy' = FALSE
  /\ Reply(what, e)

start_display ==
  /\ step' = "review" /\ current_state' = "static"
  /\ page_to_display' = page_to_display /\ display_page_callback' = "none"
  /\ busy' = FALSE

\* A page to display and a callback are always set together.
display_proper_page(e, p, cb, want) ==
  \/ /\ cb = "none"
     /\ start_display
     /\ pager' = p
     /\ NoReply(e)
  \/ /\ cb # "none" /\ want \in 1..Num(e.doc)
     /\ \E q \in prepare_screen(e, want, p) :
          /\ pager' = q
          /\ \/ q.ready /\ Show(cb, TRUE, e)
             \/ ~q.ready /\ Requested("next", cb, want, e)
  \/ /\ cb # "none" /\ want \notin 1..Num(e.doc)
     /\ \E q \in IF p.page >= Num(e.doc) THEN {[p EXCEPT !.ready = TRUE]}
                 ELSE IF p.screen < Num(e.doc) THEN prepare_screen(e, Num(e.doc), p)
                 ELSE parse_next_page(e, p) :
          /\ pager' = q
          /\ \/ q.ready /\ Await(cb, want) /\ busy' = TRUE /\ NoReply(e)
             \/ ~q.ready /\ Requested("next", cb, want, e)

\* Mutant: a page is looked for although the next part was requested.
FindPageHasty ==
  /\ busy
  /\ \/ /\ pager.page = page_to_display
        /\ Show(display_page_callback, TRUE, Env)
        /\ UNCHANGED pager
     \/ /\ pager.page # page_to_display /\ on_last_page(Env, pager)
        /\ Show(display_page_callback, page_to_display = LastPage, Env)
        /\ UNCHANGED pager
     \/ /\ pager.page # page_to_display /\ ~on_last_page(Env, pager)
        /\ pager' \in parse_next_page(Env, pager)
        /\ IF pager'.ready THEN NoReply(Env) ELSE Reply("next", Env)
        /\ UNCHANGED <<page_to_display, display_page_callback, busy, step, current_state>>
  /\ UNCHANGED <<hostVars, globalVars>>

\* One turn of the loop that parses the text up to the page to be displayed.
FindPage ==
  /\ busy
  /\ \/ /\ pager.page = page_to_display
        /\ Show(display_page_callback, TRUE, Env)
        /\ UNCHANGED pager
     \/ /\ pager.page # page_to_display /\ on_last_page(Env, pager)
        /\ Show(display_page_callback, page_to_display = LastPage, Env)
        /\ UNCHANGED pager
     \/ /\ pager.page # page_to_display /\ ~on_last_page(Env, pager)
        /\ \E q \in parse_next_page(Env, pager) :
             /\ pager' = q
             /\ \/ /\ q.ready
                   /\ UNCHANGED <<owed, asked, page_to_display, display_page_callback,
                                  busy, step, current_state>>
                \/ /\ ~q.ready
                   /\ Requested("next", display_page_callback, page_to_display, Env)
  /\ UNCHANGED <<hostVars, globalVars>>

----------------------------------------------------------------------------
(* The buttons.  The user waits while a part is awaited.                   *)

get_next_data(move) ==
  LET page == IF pager.page = 0 THEN pager.screen ELSE pager.page
      want == CASE move = "first" -> 1
                [] move = "next"  -> page + 1
                [] move = "prev"  -> page - 1
                [] move = "last"  -> LastPage
      p    == [pager EXCEPT !.page = page]
      none == move = "prev" /\ want < 1
      gone == ~is_first_part /\ (move # "next" \/ want \in 1..(Num(screens) - 1))
  IN  \/ /\ none
         /\ Show(move, FALSE, Env)
         /\ pager' = Cleared(p)
      \/ /\ ~none /\ gone
         /\ Requested("first", move, want, Env)
         /\ pager' = p
      \/ /\ ~none /\ ~gone
         /\ display_proper_page(Env,
              IF move \in {"prev", "last"} THEN [p EXCEPT !.screen = 0, !.page = 0] ELSE p,
              move, want)

on_anterior_delimiter ==
  get_next_data(IF current_state = "static" THEN "first" ELSE "prev")

on_posterior_delimiter ==
  get_next_data(IF current_state = "static" THEN "last" ELSE "next")

Step(s) == step' = s /\ UNCHANGED <<owed, asked, pager, page_to_display,
                                    display_page_callback, busy, current_state>>

CanPress == ~busy /\ asked = "none"

PressNext ==
  /\ CanPress
  /\ \/ step = "review"  /\ on_anterior_delimiter
     \/ step = "generic" /\ on_posterior_delimiter
     \/ step = "approve" /\ Step("reject")
     \/ step \in {"reject", "back"} /\ Step("review")
  /\ UNCHANGED <<hostVars, globalVars>>

PressPrev ==
  /\ CanPress
  /\ \/ step = "generic" /\ on_anterior_delimiter
     \/ step \in {"approve", "back"} /\ on_posterior_delimiter
     \/ step = "reject" /\ Step("approve")
     \/ step = "review" /\ Step(FinalStep(screens))
  /\ UNCHANGED <<hostVars, globalVars>>

\* Back to the menu; the reply of a signature or of a refusal ends the command.
Close(n) ==
  /\ step' = "menu" /\ doc' = NoDoc /\ part' = 0 /\ owed' = owed - n
  /\ UNCHANGED <<globalVars, asked, pager, page_to_display,
                 display_page_callback, busy, current_state>>

\* With an incomplete transaction sign_transaction throws and nothing is sent.
sign_transaction   == CanPress /\ step = "approve" /\ txn_is_complete /\ Close(1)
reject_transaction == CanPress /\ step = "reject" /\ Close(1)
Back               == CanPress /\ step = "back" /\ Close(0)

----------------------------------------------------------------------------
(* The commands.  The client opens a document when no other is under       *)
(* review, and answers every request for a part.                           *)

Opens(d) == doc = NoDoc /\ doc' = d /\ part' = 1

\* clear_screens, add_screens and display_proper_page; n commands to reply to.
ShowScreens(d, us, max, complete, cb, want, n) ==
  /\ screens' = d /\ text' = us /\ max_pages' = max /\ txn_is_complete' = complete
  /\ display_proper_page([doc |-> d, complete |-> complete, max |-> max, text |-> us,
                          owed |-> owed + n], Cleared(pager), cb, want)

\* Mutant: the page to display is forgotten when the first part comes again.
display_transaction_afresh(d, p) ==
  ShowScreens(d, PartUnits(d, p), IF Long[d] THEN MaxPages ELSE 0, p = Parts(d),
              "none", 0, 1)

display_transaction(d, p) ==
  ShowScreens(d, PartUnits(d, p), IF Long[d] THEN MaxPages ELSE 0, p = Parts(d),
              display_page_callback, page_to_display, 1)

\* A deployment is shown when all of it has come.
AwaitDeploy(d, p) ==
  /\ p < Parts(d)
  /\ txn_is_complete' = FALSE
  /\ asked' = "next"
  /\ UNCHANGED <<owed, screens, text, max_pages, pager, page_to_display,
                 display_page_callback, busy, step, current_state>>

on_first_part(d) ==
  /\ is_first_part' = TRUE
  /\ \/ (Kind[d] = "deploy" => Parts(d) = 1) /\ display_transaction(d, 1)
     \/ Kind[d] = "deploy" /\ AwaitDeploy(d, 1)

\* display_txn_part
ShowPart(p) ==
  LET e == [doc |-> doc, complete |-> p = Parts(doc), max |-> max_pages,
            text |-> PartUnits(doc, p), owed |-> owed + 1]
  IN  /\ text' = e.text /\ txn_is_complete' = e.complete
      /\ is_first_part' = FALSE
      /\ display_proper_page(e, [pager EXCEPT !.input = ScreenText(e, pager.screen),
                                              !.pos = 0],
                             display_page_callback, page_to_display)
      /\ UNCHANGED <<screens, max_pages>>

\* A part after the payload: it overwrites the bytes the screen points to.
ShowTail(p) ==
  LET stale(us) == IF Kind[doc] = "payload" THEN Overwritten(us) ELSE us
      e == [doc |-> doc, complete |-> p = Parts(doc), max |-> max_pages,
            text |-> stale(text), owed |-> owed + 1]
  IN  /\ text' = e.text /\ txn_is_complete' = e.complete
      /\ is_first_part' = FALSE
      /\ display_proper_page(e, [pager EXCEPT !.input = stale(@)],
                             display_page_callback, page_to_display)
      /\ UNCHANGED <<screens, max_pages>>

on_next_part(p) ==
  \/ /\ Kind[doc] = "deploy" /\ p = Parts(doc)
     /\ is_first_part' = TRUE
     /\ display_transaction(doc, p)
  \/ /\ Kind[doc] = "deploy"
     /\ is_first_part' = FALSE
     /\ AwaitDeploy(doc, p)
  \/ Kind[doc] # "deploy" /\ MorePayload(doc, p - 1) /\ ShowPart(p)
  \/ Kind[doc] # "deploy" /\ ~MorePayload(doc, p - 1) /\ ShowTail(p)

\* The parser throws: the reply is an error, and the client gives up.  What is on
\* the screen, and the callback of a page that was awaited, stay.
Refuse(first) ==
  /\ doc' = NoDoc /\ part' = 0
  /\ asked' = "none"
  /\ is_first_part' = first /\ txn_is_complete' = FALSE
  /\ UNCHANGED <<owed, screens, text, max_pages, pager, page_to_display,
                 display_page_callback, busy, step, current_state>>

SendTxn(d) ==
  /\ IsTxn(d)
  /\ \/ Bad[d] # 1 /\ Opens(d) /\ on_first_part(d)
     \/ Bad[d] = 1 /\ doc = NoDoc /\ Refuse(TRUE)

SendFirst ==
  /\ asked = "first"
  /\ part' = 1 /\ UNCHANGED doc
  /\ on_first_part(doc)

SendNext ==
  /\ asked = "next" /\ part < Parts(doc)
  /\ \/ /\ Bad[doc] # part + 1
        /\ part' = part + 1 /\ UNCHANGED doc
        /\ on_next_part(part + 1)
     \/ /\ Bad[doc] = part + 1
        /\ Refuse(FALSE)

on_new_message(d) ==
  /\ Kind[d] = "message" /\ Opens(d)
  /\ is_first_part' = TRUE
  /\ ShowScreens(d, Units(d), max_pages, TRUE, display_page_callback, page_to_display, 1)

\* The command is replied to at once; what was to be displayed is forgotten.
on_display_account(d) ==
  /\ Kind[d] = "account" /\ Opens(d)
  /\ is_first_part' = TRUE
  /\ ShowScreens(d, Units(d), max_pages, TRUE, "none", 0, 0)

Init ==
  /\ doc = NoDoc /\ part = 0 /\ owed = 0 /\ asked = "none"
  /\ is_first_part = FALSE /\ txn_is_complete = TRUE
  /\ screens = NoDoc /\ text = <<>> /\ max_pages = 0
  /\ pager = Blank
  /\ page_to_display = 0 /\ display_page_callback = "none" /\ busy = FALSE
  /\ step = "menu" /\ current_state = "static"

Next ==
  \/ \E d \in Docs : SendTxn(d) \/ on_new_message(d) \/ on_display_account(d)
  \/ SendFirst \/ SendNext
  \/ FindPage
  \/ PressNext \/ PressPrev
  \/ sign_transaction \/ reject_transaction \/ Back

\* The device runs, and the client answers a request; the user may do nothing.
Fairness == WF_vars(FindPage) /\ WF_vars(SendFirst) /\ WF_vars(SendNext)

Spec == Init /\ [][Next]_vars /\ Fairness

----------------------------------------------------------------------------
(* Properties.                                                             *)

\* The text of the last screen, and the pages a document ought to have.
Stream == [d \in Docs |-> Text(Units(d))]

IsCut(d) == Long[d] /\ Len(Stream[d]) > (MaxPages + 1) * W

PageCount ==
  [d \in Docs |->
     Fixed[d] + IF IsCut(d) THEN MaxPages + 1 ELSE (Len(Stream[d]) + W - 1) \div W]

Finals == [d \in Docs |-> IF Signing(d) THEN 2 ELSE 1]

PageText(d, n) ==
  IF n < Num(d) THEN Displayed(<<d, n, 1>>)
  ELSE LET first == (n - Num(d)) * W
           s     == SubSeq(Stream[d], first + 1, Least(first + W, Len(Stream[d])))
       IN  IF IsCut(d) /\ n = PageCount[d] /\ Len(s) > DotsAbove
           THEN SubSeq(s, 1, Len(s) - 3) \o <<Dot, Dot, Dot>>
           ELSE s

Steps == {"menu", "review", "anterior", "generic", "posterior", "approve", "reject", "back"}

\* Everything has its type, and what is copied to the page fits on it.
TypeOK ==
  /\ doc \in Docs \cup {NoDoc} /\ part \in Nat
  /\ owed \in Int /\ asked \in {"none", "first", "next"}
  /\ is_first_part \in BOOLEAN /\ txn_is_complete \in BOOLEAN
  /\ screens \in Docs \cup {NoDoc} /\ text \in Seq(Docs \X Nat \X Nat)
  /\ max_pages \in {0, MaxPages}
  /\ DOMAIN pager = DOMAIN Blank
  /\ pager.screen \in Nat /\ pager.title \in Nat /\ pager.page \in Nat
  /\ pager.pos \in 0..Len(pager.input) /\ pager.ready \in BOOLEAN
  /\ Len(pager.shown) <= W
  /\ page_to_display \in Nat \cup {LastPage}
  /\ display_page_callback \in {"none", "first", "prev", "last", "next"}
  /\ busy \in BOOLEAN
  /\ step \in Steps /\ current_state \in {"static", "dynamic"}

\* Whichever way the user came to a page, and whatever parts were sent again
\* for it, the device displays exactly that page of the document: every glyph
\* of the text is on one page, in order, with the title of its screen.
PageIsRight ==
  step = "generic" =>
    /\ pager.shown = PageText(screens, pager.page)
    /\ pager.title = Least(pager.page, Num(screens))

\* A reply is sent for a command that waits for one: no request for a part goes
\* out twice, and none without a command of the client to answer.
OneReplyPerCommand == owed \in 0..1 /\ (asked # "none" => owed = 0)

\* The device asks for the next part only of a transaction that has one.
AsksForAPart == asked = "next" => doc # NoDoc /\ part < Parts(doc)

\* A user who leaves the pages forwards comes to Approve with a transaction that
\* is complete, also when the pages after the maximum are not displayed.
ForwardMeansComplete ==
  [][step' = "approve" /\ step \in {"generic", "posterior"} => txn_is_complete']_vars

\* A new document is shown from its title, or not yet.
OpensAtTitle == [][doc = NoDoc /\ doc' # NoDoc => step' \in {"menu", "review"}]_vars

\* Every press that asks the pager for a page is answered: the parts are asked
\* for and come, and the search for the page ends.
EveryPressAnswered ==
  step \in {"anterior", "posterior"} ~> step \notin {"anterior", "posterior"}

\* The place the user is at.  On a delimiter, the place that was left.
Place ==
  CASE step \in {"menu", "review"}       -> 0
    [] step = "generic"                  -> pager.page
    [] step \in {"approve", "back"}      -> PageCount[screens] + 1
    [] step = "reject"                   -> PageCount[screens] + 2
    [] display_page_callback = "first"   -> 0
    [] display_page_callback = "last"    -> PageCount[screens] + 1
    [] display_page_callback = "next"    -> page_to_display - 1
    [] display_page_callback = "prev"    -> page_to_display + 1

Book == INSTANCE ReviewBook WITH
          doc    <- IF step = "menu" THEN NoDoc ELSE screens,
          at     <- Place,
          Pages  <- PageCount

\* A press moves the user by one place of the document, either way and around,
\* however many parts have to be sent again to get there.
ImplementsBook == Book!BookSpec

============================================================================
