------------------------------- MODULE Display -------------------------------
(***************************************************************************)
(* A transaction on the screen, from its first part to its last page: what *)
(* Selection puts on the screens and what DisplayText makes of the last    *)
(* of them while the parts of the payload arrive.  The user only goes      *)
(* forwards (Review has the other ways), and the part that ends the        *)
(* payload ends the transaction.                                           *)
(***************************************************************************)
EXTENDS DisplayText

CONSTANTS
  Docs,         \* transactions with a way to cut them, see DocAssumption
  ZeroAmount, PayloadHash, NoPayload

INSTANCE Selection

\* d.t: the transaction.  d.cut[k]: bytes of its payload in the first k parts.
\* d.blocks: what its last screen has to display, one element after the other;
\* none when the last screen is a field as the others are.
ASSUME DocAssumption ==
  /\ Len(PayloadHash) = 32
  /\ \A d \in Docs :
       /\ d.cut # <<>>
       /\ \A k \in 2..Len(d.cut) : d.cut[k-1] < d.cut[k]
       /\ d.cut[Len(d.cut)] = (IF d.t.payload = NoPayload THEN 0 ELSE Len(d.t.payload.bytes))

\* The characters that are displayed as they are.
Printable == 32..127

\* The room there is for the fields (transaction.h:40) and the characters of a line.
\* An amount is digits, a point and its unit; an address may be a name of any bytes.
ASSUME FieldAssumption ==
  /\ W >= 13
  /\ \A d \in Docs :
       /\ d.cut \in Seq(Nat)
       /\ d.t.amount \in Seq(Printable) /\ 0 < Len(d.t.amount) /\ Len(d.t.amount) <= 47
       /\ d.t.address \in Seq(0..255) /\ Len(d.t.address) <= 52

VARIABLES
  doc,             \* the transaction the client sends
  part,            \* the number of its parts that have arrived
  phase,           \* "start"; "parse": parse_next_page is at work; "await": the next
                   \* part was asked for; "idle": a page is displayed; "ended"; "refused";
                   \* "overrun": screens beyond their array, and nothing known after that
  sw,              \* the code thrown by display_transaction
  screens, max_pages, current_screen, current_page, page_to_display,
  parser,          \* the state of the text parser
  global_text,
  pages,           \* the pages displayed so far: title and text
  restarted        \* a part came for a page of the screen that was then begun again

documentVars == <<doc, part>>
screenVars   == <<sw, screens, max_pages>>
pageVars     == <<current_screen, current_page, page_to_display>>
shownVars    == <<global_text, pages, restarted>>
vars == <<documentVars, phase, screenVars, pageVars, parser, shownVars>>

Phases == {"start", "parse", "await", "idle", "ended", "refused", "overrun"}

num_screens == Len(screens)
Now         == screens[current_screen]

\* When part k is the last that has arrived.
has_partial_payload(k) == k < Len(doc.cut)
txn_is_complete(k)     == ~has_partial_payload(k)

PartBytes(d, k) ==
  SubSeq(d.t.payload.bytes, IF k = 1 THEN 1 ELSE d.cut[k-1] + 1, d.cut[k])

\* What the text parser reads of the transaction.
PayloadInfo ==
  IF ~Now.trim_payload THEN <<>>
  ELSE [payload_len |-> Len(doc.t.payload.bytes),
        part_offset |-> IF part = 1 THEN 0 ELSE doc.cut[part-1],
        text_offset |-> ArgsAt(doc.t)]

----------------------------------------------------------------------------
(* The pager *)

AtMaxPages(page) == max_pages > 0 /\ page - num_screens >= max_pages

on_last_page(t, page, k) ==
  /\ txn_is_complete(k)
  /\ \/ AtMaxPages(page)
     \/ page >= num_screens /\ t.pos >= Len(t.input) /\ t.parsed = <<>>

\* parse_next_page begins: it asks for a part at once, or the parser gets to work.
parse_next_page(t, page, k) ==
  LET ask == AtMaxPages(page) /\ ~txn_is_complete(k)
  IN  /\ phase' = IF ask THEN "await" ELSE "parse"
      /\ parser' = [t EXCEPT !.ret = "loop"]

\* Screen n of ss from its beginning.
prepare_screen(ss, n, k) ==
  /\ current_screen' = n /\ current_page' = n - 1
  /\ parse_next_page([reset_text_parser EXCEPT !.title = ss[n].title, !.input = ss[n].text],
                     n - 1, k)

\* The loop of display_proper_page, from its test for the last page on.
SeekPage(t, page, k) ==
  \/ on_last_page(t, page, k) /\ phase' = "ended" /\ parser' = t
  \/ ~on_last_page(t, page, k) /\ parse_next_page(t, page, k)

\* The user presses the button for the next page.
NextPress ==
  /\ phase = "idle"
  /\ \E page \in {IF current_page = 0 THEN current_screen ELSE current_page} :
       /\ page_to_display' = page + 1
       /\ \/ page < num_screens /\ prepare_screen(screens, page + 1, part)
          \/ /\ page >= num_screens
             /\ SeekPage(parser, page, part)
             /\ current_page' = page
             /\ UNCHANGED current_screen
  /\ UNCHANGED <<documentVars, screenVars, shownVars>>

\* Mutant: the parser does not stop at the end of the page.
ReadingOn == phase = "parse" /\ parser.ret = "loop" /\ parser.pos < Len(parser.input)

\* Another character is wanted, and there is one.
Reading ==
  /\ phase = "parse" /\ parser.ret = "loop"
  /\ parser.pos < Len(parser.input) /\ Len(parser.parsed) < W

\* The page of a function ends with its name.
FunctionEnds(t, r) ==
  [t EXCEPT !.display_char = FALSE, !.args_pos = 0,
            !.ret = IF r.pos >= Len(t.input) THEN "yes" ELSE "no"]

\* The last two bytes of the payload are passed over at once.
TrimEnd(t, r) ==
  [t EXCEPT !.pos = r.pos + 2, !.ret = IF r.pos + 2 >= Len(t.input) THEN "yes" ELSE "no"]

\* One turn of the loop of parse_page_text.
parse_page_text ==
  /\ Reading /\ ~Now.is_multicall
  /\ \E r \in {ReadChar(parser, Now.in_hex)} :
       LET t == [parser EXCEPT !.pos = r.pos, !.last_utf8_char = 0]
           held     == Held(t, r, has_partial_payload(part))
           function == EndsFunction(t, Now, r)
           skips    == Skips(t, Now)
           trims    == Trims(t, Now, r, PayloadInfo)
       IN  \/ held /\ parser' = [t EXCEPT !.last_utf8_char = r.c, !.ret = "yes"]
           \/ ~held /\ function /\ parser' = FunctionEnds(t, r)
           \/ ~held /\ ~function /\ skips /\ parser' = SkipToArgs(t, r)
           \/ ~held /\ ~function /\ ~skips /\ trims /\ parser' = TrimEnd(t, r)
           \/ ~held /\ ~function /\ ~skips /\ ~trims /\ parser' = Format(t, Now, r.c)
  /\ UNCHANGED <<documentVars, phase, screenVars, pageVars, shownVars>>

\* One turn of the loop of parse_multicall_page.
parse_multicall_page ==
  /\ Reading /\ Now.is_multicall
  /\ \E r \in {ReadChar(parser, FALSE)} :
       LET t == [parser EXCEPT !.pos = r.pos, !.last_utf8_char = 0]
           held == Held(t, r, has_partial_payload(part))
       IN  \/ held /\ parser' = [t EXCEPT !.last_utf8_char = r.c, !.ret = "no"]
           \/ ~held /\ parser' = JsonChar(t, r.c)
  /\ UNCHANGED <<documentVars, phase, screenVars, pageVars, shownVars>>

\* The page is not complete and the next part may have more of it.
WantsPart ==
  /\ ~txn_is_complete(part)
  /\ Len(parser.parsed) < W
  /\ IF Now.is_multicall
     THEN parser.ret # "yes" /\ parser.pos >= Len(parser.input)
     ELSE /\ current_screen = num_screens
          /\ parser.ret = "yes" \/ (parser.ret = "loop" /\ parser.pos >= Len(parser.input))

\* Mutant: what is beyond the end of the page is on it.
PageWhole(page) == parser.parsed

\* The page at which a long payload is cut ends in three dots.
PageText(page) ==
  LET s == SubSeq(parser.parsed, 1, Shorter(W, Len(parser.parsed)))
  IN  IF AtMaxPages(page) /\ Len(s) > 5
      THEN SubSeq(s, 1, Len(s) - 3) \o <<46, 46, 46>> ELSE s

\* The callback: the page is on the display.
Show(text) ==
  /\ phase' = "idle"
  /\ pages' = Append(SubSeq(pages, 1, page_to_display - 1), <<parser.title, text>>)

\* parse_next_page ends, and display_proper_page displays what it left or goes on.
EndOfPage ==
  /\ phase = "parse" /\ ~Reading
  /\ \/ /\ WantsPart
        /\ phase' = "await"
        /\ UNCHANGED <<parser, current_page, global_text, pages>>
     \/ /\ ~WantsPart /\ parser.parsed = <<>>
        /\ \/ /\ page_to_display <= num_screens
              /\ Show(global_text)
              /\ UNCHANGED parser
           \/ /\ page_to_display > num_screens
              /\ SeekPage(parser, current_page, part)
              /\ UNCHANGED pages
        /\ UNCHANGED <<current_page, global_text>>
     \/ /\ ~WantsPart /\ parser.parsed # <<>>
        /\ current_page' = current_page + 1
        /\ global_text' = PageText(current_page + 1)
        /\ parser' = [parser EXCEPT !.parsed = SubSeq(@, W + 1, Len(@))]
        /\ Show(global_text')
  /\ UNCHANGED <<documentVars, screenVars, current_screen, page_to_display, restarted>>

----------------------------------------------------------------------------
(* Parts *)

IsDeploy == doc.t.type \in {"deploy", "redeploy"}

\* display_transaction on the bytes of the payload in the part.
Select(size) ==
  \E r \in {display_transaction(doc.t, size)} :
    /\ sw' = r.sw /\ screens' = r.screens /\ max_pages' = r.max_pages
    /\ phase' = CASE Len(r.screens) > MaxScreens -> "overrun"
                  [] Len(r.screens) <= MaxScreens /\ r.sw = 0 -> "idle"
                  [] OTHER -> "refused"

FirstPart ==
  /\ phase = "start"
  /\ part' = 1
  /\ \/ ~IsDeploy /\ Select(doc.cut[1])
     \/ IsDeploy /\ txn_is_complete(1) /\ Select(0)
     \/ /\ IsDeploy /\ ~txn_is_complete(1)
        /\ phase' = "await"
        /\ UNCHANGED screenVars
  /\ UNCHANGED <<doc, pageVars, parser, shownVars>>

\* A contract is displayed by its hash when all of it has come.
DeployPart ==
  /\ phase = "await" /\ IsDeploy
  /\ part' = part + 1
  /\ \/ txn_is_complete(part + 1) /\ Select(0)
     \/ ~txn_is_complete(part + 1) /\ UNCHANGED <<phase, screenVars>>
  /\ UNCHANGED <<doc, pageVars, parser, shownVars>>

\* display_txn_part: the last screen's text is now the part's.
PayloadPart ==
  /\ phase = "await" /\ ~IsDeploy
  /\ part' = part + 1
  /\ screens' = [screens EXCEPT ![num_screens].text = PartBytes(doc, part + 1)]
  /\ \/ /\ page_to_display <= num_screens
        /\ prepare_screen(screens', page_to_display, part + 1)
        /\ restarted' = TRUE
     \/ /\ page_to_display > num_screens
        /\ SeekPage([parser EXCEPT !.input = PartBytes(doc, part + 1), !.pos = 0],
                    current_page, part + 1)
        /\ UNCHANGED <<current_screen, current_page, restarted>>
  /\ UNCHANGED <<doc, sw, max_pages, page_to_display, global_text, pages>>

\* The review is over: Approve, or nothing to review.
Stop == phase \in {"ended", "refused", "overrun"} /\ UNCHANGED vars

Init ==
  /\ doc \in Docs /\ part = 0
  /\ phase = "start" /\ sw = 0
  /\ screens = <<>> /\ max_pages = 0
  /\ current_screen = 0 /\ current_page = 0 /\ page_to_display = 0
  /\ parser = reset_text_parser
  /\ global_text = <<>> /\ pages = <<>> /\ restarted = FALSE

Parse == parse_page_text \/ parse_multicall_page \/ EndOfPage

Next == FirstPart \/ DeployPart \/ PayloadPart \/ NextPress \/ Parse \/ Stop

\* The device runs a handler to its end.
Spec == Init /\ [][Next]_vars /\ WF_vars(Parse)

----------------------------------------------------------------------------
(* What ought to be displayed.  A block b is an element of the payload: a  *)
(* sequence of characters, under a title, in one of three formats.         *)

IsControl(c) == c < 32 /\ ~IsBreak(c)

\* Character i of cs is displayed in hexadecimal.
InHexAt(cs, i) ==
  \E j \in 1..i : IsControl(cs[j]) /\ \A k \in (j+1)..i : IsBreak(cs[k])

BlockGlyphs(b) ==
  FlattenSeq(
    [i \in 1..Len(b.chars) |->
       CASE b.format = "json" -> JsonGlyphs(b.chars[i])
         [] b.format = "hex"  -> Glyphs(b.chars[i], TRUE)
         [] b.format = "text" ->
              LET hex    == InHexAt(b.chars, i)
                  before == i > 1 /\ InHexAt(b.chars, i - 1)
              IN  (IF hex = before THEN <<>> ELSE IF hex THEN <<60>> ELSE <<62>>)
                  \o Glyphs(b.chars[i], hex)])

\* The pages of a block, each full but the last.
BlockPages(b) ==
  LET g == b.lead \o BlockGlyphs(b)
  IN  [i \in 1..((Len(g) + W - 1) \div W) |->
         <<b.title, SubSeq(g, (i - 1) * W + 1, Shorter(i * W, Len(g)))>>]

FieldBlock(s) ==
  [title |-> s.title, chars |-> s.text, lead |-> <<>>,
   format |-> IF s.in_hex THEN "hex" ELSE "text"]

Dotted(p) == <<p[1], SubSeq(p[2], 1, Len(p[2]) - 3) \o <<46, 46, 46>> >>

Expected ==
  LET fields == [n \in 1..(IF doc.blocks = <<>> THEN num_screens ELSE num_screens - 1) |->
                   BlockPages(FieldBlock(screens[n]))]
      all    == FlattenSeq(fields \o [i \in 1..Len(doc.blocks) |-> BlockPages(doc.blocks[i])])
      last   == num_screens + max_pages
  IN  IF max_pages = 0 \/ Len(all) < last THEN all
      ELSE [i \in 1..last |-> IF i = last /\ Len(all[i][2]) > 5 THEN Dotted(all[i]) ELSE all[i]]

Joined(ps) == FlattenSeq([i \in 1..Len(ps) |-> ps[i][2]])

\* What the pages under some titles say.
Under(titles, ps) ==
  FlattenSeq([i \in 1..Len(ps) |-> IF ps[i][1] \in titles THEN ps[i][2] ELSE <<>>])

AmountTitles  == {"Amount", "Stake", "Unstake"}
AddressTitles == {"Recipient", "Contract", "Redeploy"}

\* The bytes of a character that are in the part that ends after p bytes.
Begun(bytes, p) ==
  LET lead == Max({i \in 1..p : ~IsContinuation(bytes[i])}) IN SubSeq(bytes, lead, p)

\* A cut within a character is harmless if the bits before it are no ASCII
\* character's, and if it is the only one.
CharCut(d, k) ==
  LET bytes == d.t.payload.bytes
      p     == d.cut[k]
      begun == Begun(bytes, p)
  IN  IsContinuation(bytes[p + 1]) =>
        /\ FoldLeft(LAMBDA v, b : v * 64 + (b % 64), UTF8Trans1(begun[1]), Tail(begun)) >= 128
        /\ k > 1 => d.cut[k-1] <= p - Len(begun)

TrimCut(d, k) ==
  num_screens > 0 /\ screens[num_screens].trim_payload
    => d.cut[k] # Len(d.t.payload.bytes) - 1

\* The function's name does not fill its pages, and its quote ends the part.
FunctionCut(d, k) ==
  d.t.type \in {"call", "feedelegation"} /\ Len(d.blocks) = 2 /\ Len(BlockGlyphs(d.blocks[1])) % W # 0
    => d.cut[k] # 9 + d.t.payload.name_len + 1

\* The text of the last screen is the payload.
LastIsPayload == num_screens > 0 => screens[num_screens].title \notin {"Stake", "Unstake"}

\* The cuts that leave no trace on the pages.
CleanCut(d) ==
  /\ ~restarted
  /\ Len(d.cut) > 1 => LastIsPayload
  /\ ~IsDeploy =>
       \A k \in 1..(Len(d.cut) - 1) : CharCut(d, k) /\ TrimCut(d, k) /\ FunctionCut(d, k)

----------------------------------------------------------------------------
(* Properties *)

TypeOK ==
  /\ part \in 0..Len(doc.cut)
  /\ phase \in Phases /\ sw \in Nat
  /\ current_screen \in 0..num_screens /\ current_page \in Nat
  /\ page_to_display \in Nat
  /\ restarted \in BOOLEAN
  /\ phase = "parse" => current_screen > 0
  /\ \A n \in 1..Len(pages) : Len(pages[n][2]) <= W

\* However the payload is cut into parts, the pages are those of the whole
\* payload, in their order and under their titles (display_text.h:48, 162,
\* display_pages.h:317), unless a part ends between the two bytes that are
\* trimmed, right after a function's name, or within a character whose first
\* bits are no longer known to be one; or the last screen is not the payload.
PagesAreOfWholeText ==
  phase \in {"idle", "ended"} /\ CleanCut(doc) =>
    pages = IF phase = "ended" THEN Expected ELSE SubSeq(Expected, 1, current_page)

\* The same for every cut, as the comment on characters cut by a part
\* (display_text.h:72) and the chunks of docs/apdu.md have it.
CutsDoNotMatter ==
  phase = "ended" /\ ~restarted => pages = Expected

\* Whatever the cut, no character of an ASCII payload is lost, doubled or out
\* of place; at most the second of the trimmed bytes is displayed as well
\* (display_text.h:80, 111, display_pages.h:343).
NothingLost ==
  (/\ phase \in {"idle", "ended"}
   /\ ~restarted /\ max_pages = 0
   /\ Len(doc.cut) > 1 => LastIsPayload
   /\ \A i \in DOMAIN doc.blocks : \A c \in ToSet(doc.blocks[i].chars) : c < 128)
  => LET end == IF \A k \in 1..Len(doc.cut) : TrimCut(doc, k) THEN <<>> ELSE <<125>>
     IN  IF phase = "ended" THEN Joined(pages) = Joined(Expected) \o end
         ELSE IsPrefix(Joined(pages), Joined(Expected) \o end)

\* What a character adds beyond the end of a page stays within parsed_text,
\* which has room for 20 more (display_pages.h:36).
ParsedTextFits == Len(parser.parsed) <= W + 10

\* When a review is over the user has seen the amount, unless it is nothing or
\* the recipient is aergo.system and the transaction neither a transfer nor
\* governance (selection.h:34), and the whole address.  A name is displayed as it
\* is if its characters can be.
FieldsAreShown ==
  phase = "ended" /\ CleanCut(doc) /\ doc.t.address \in Seq(Printable) =>
    LET t == doc.t
    IN  /\ \/ t.amount = ZeroAmount
           \/ t.recipient = "system" /\ t.type \notin {"transfer", "governance"}
           \/ Under(AmountTitles, pages) = t.amount
        /\ t.type \notin {"governance", "multicall", "deploy"} =>
             Under(AddressTitles, pages) = t.address

\* A function of the governance contracts is displayed under its own title, and
\* under a title only when it is a known function or the beginning of the name
\* of one (selection.h:108).
TitleOfFunction ==
  doc.t.type = "governance" /\ phase \notin {"start", "refused"} =>
    LET table == CASE doc.t.recipient = "system" -> SystemFunctions
                   [] doc.t.recipient = "name" -> NameFunctions
                   [] OTHER -> EnterpriseFunctions
        title == screens[num_screens].title
        name  == doc.t.payload.name
    IN  \E f \in ToSet(table) :
          /\ f.title = title
          /\ f.name = name \/ (IsPrefix(name, f.name) /\ \A g \in ToSet(table) : g.name # name)

\* The screens fit in their array, except those of a redeploy with an amount on
\* a device with short lines (display_pages.h:24, selection.h:229).
ScreensFit ==
  num_screens > MaxScreens <=>
    /\ num_screens > 0 /\ doc.t.type = "redeploy"
    /\ ((Len(doc.t.address) + W - 1) \div W) + 6
         + (IF doc.t.amount = ZeroAmount \/ doc.t.recipient = "system" THEN 0
            ELSE (Len(doc.t.amount) + W - 1) \div W) > MaxScreens

\* A page that was asked for is displayed, or its part asked for: the search for
\* it ends for every text (display_pages.h:192, display_text.h:201).
HandlerEnds == phase = "parse" ~> phase # "parse"
=============================================================================
