# A TLA+ model of the Aergo app for Ledger devices

The app receives a transaction or a message from a host, shows it on a small
screen, and signs its hash when the user approves. A transaction may be longer
than one APDU; it comes in parts, the text is displayed while parts arrive, and
a part that is gone must be asked for again. What has to be right is that the
hash is the hash of the document, that the user reads that document, and that
the signature goes to whoever asked for it.

The modules here follow the C code in `src/src/`. `PROJECT.json` lists the
lines of code each definition models.

## 1. Inventory

| Part | Code | State | Operations |
|---|---|---|---|
| Transaction parser | `transaction.h` | `txn`, `last_part`, `last_part_len`, `last_part_pos`, the two hash contexts, `txn_hash`, `txn_is_complete`, `has_partial_payload` | `parse_first_part`, `parse_payload_part`, `parse_last_part`, `parse_transaction_part` |
| Pager | `display_pages.h` | `screens`, `num_screens`, `current_screen`, `current_page`, `page_to_display`, `max_pages`, `display_page_callback`, the input and the parsed text | `prepare_screen`, `parse_next_page`, `display_proper_page`, `display_new_input`, `get_next_data`, resets |
| Confirmation flow | `display.h` | the SDK's flow stack, `current_state` | `start_display`, the two delimiters, four callbacks |
| Text formatting | `display_text.h`, `common/utf8.h` | the flags of the text parser, `last_utf8_char`, `args_pos` | `parse_page_text`, `parse_multicall_page`, `reset_text_parser` |
| Selection | `selection.h` | (fills `screens` and `max_pages`) | `display_transaction`, `display_txn_part`, `on_new_transaction_part`, `on_new_message`, `on_display_account` |
| Commands | `main.c` | `account_selected`, `bip32_path`, `public_key`, `cmd_type`, the asynchronous reply | the APDU switch, `sign_transaction`, `reject_transaction`, `request_first_part`, `request_next_part`, the reset of `main` |
| Keys | `crypto.h` | (the selected account) | `crypto_select_account`, `crypto_sign_message` |
| Conversions | `common/account.h`, `currency.h`, `uint256.c` | none | Base58 with checksum, decimal amounts |
| Menu, I/O | `menu.h`, `io.h` | none of their own | static screens, SDK events |

How they interact:

- The device is one thread. `io_exchange` is called from the main loop to wait
  for a command, and from callbacks to send a reply and come back. While the
  main loop waits, button presses run the flow's callbacks inside that call.
- A SIGN command has no reply of its own. The reply is sent later by the
  pager (*send the next part*, *send the first part again*) or by the user's
  decision. So the pager is both a reader of the text and the sender of
  replies, and each command must get exactly one.
- Parser and pager share `txn_is_complete`, `has_partial_payload` and
  `is_first_part`; the last screen points to the payload where it lies in the
  APDU buffer, which the next command overwrites.
- An error is an exception (`THROW`) that leaves every function on the way; the
  globals stay as they are at that point.

What is hard here: the cuts between parts (any byte of any field), going back to
text that is gone, errors and restarts in the middle of a search for a page, a
host that goes on after an error or does something else during a review, and limits (`last_part`,
`screens`, `max_pages`). `PROJECT.json` lists these hazards line by line with the
properties that are aimed at them.

What makes the parts correct:

- parser: the digest is a function of the document, not of its cuts; a bad
  document does not complete before one of its parts is refused; good ones always
  complete; the buffer is not exceeded;
- pager and flow: the n-th page shows the n-th piece of the text; a press
  moves one place; each search ends; one reply per command; Approve is reached
  forwards only with the whole transaction;
- commands: who gets a signature gets it of its own document, by the account
  whose key it was given, and of what was shown.

## 2. Modules

| Module | What it is |
|---|---|
| `TxnParser` | the streaming parser and the length checks of `SIGN_TXN` |
| `TxnDigest` | abstract: a digest of a document's canonical bytes |
| `TxnParserImplements` | `TxnParser` as an implementation of `TxnDigest` |
| `Review` | pager, flow and handlers, with a client and a user |
| `OrdinaryReview` | which documents come out right: the assumptions of the proofs about `Review`'s pages |
| `ReviewBook` | abstract: a ring of places that presses walk around |
| `Session` | commands, accounts, what is signed, restarts |
| `Selection` | the screens that a transaction gets |
| `DisplayText` | the two text parsers and UTF-8, one character at a time |
| `Display` | a transaction read forwards: `Selection` and `DisplayText` under the pager |
| `Numbers` | powers, and the number that digits are |
| `Uint256`, `Currency`, `Account` | big numbers, the text of an amount, the text of an address |
| `Encodings` | these conversions, and `decode_varint`, as the parser uses them |
| `TxnParser_proofs`, `Session_proofs` | theorems about these modules |
| `Display_proofs`, `DisplayFields_proofs` | theorems about `Display`: the buffer, types, screens and titles; what is read of the fields; the pages of a text |
| `Review_proofs`, `ReviewPages_proofs` | theorems about `Review`: replies, the pager's text and types; its pages, and the refinement of `ReviewBook` |
| `Encodings_proofs` | theorems about `Encodings`: numbers, addresses, the division, amounts |
| `Lemmas_proofs` | lemmas about texts that are joined, powers, digits and division |
| `MCReviewDocs` | small documents for `Review`, on which the five runs run in which it goes wrong |
| `MCTxnParser`, `MCReview`, `MCSession`, `MCDisplay`, `MCEncodings` | instances for TLC |

`Session` sees the pager only as something that asks for a part or displays;
`Review` sees the parser only as what it does to the flags; `TxnParser` sees
neither. The values that cross are the same in all: whether a part was the
first, whether the transaction is complete, whether payload is missing. `Display`
has less of the pager than `Review` (forwards only) and all of the text, so the
two overlap in `parse_next_page`: `Review` is about moving, `Display` about what
is read.

### TxnParser

A byte is the pair of its transaction and its offset, so a hash context is the
sequence of what it absorbed, and two hashes are equal when these are. A
transaction is its field boundaries (`End`, `PayloadAt`), its number of bytes,
and the fields whose contents the parser refuses (`Bad`). What a field says is
not modelled here (varints and the texts made of fields are in `Encodings`), only
how long it says it is and whether it is refused: the operators `FieldSize` and
`Refuses` of the unread bytes. `ReadingAssumption` says what they are at the place
of a field; of other places, where the parser comes to read after it was out of
step, nothing is assumed. A field that announces a refused
length is taken to be waited for as long as it announces, which is what the
code does: it compares the length with the limit after it has seen all bytes.

| Code | Model |
|---|---|
| `parse_first_part`, with all its `goto`s | `FirstPart`: `parse_first_part`, `ReadHead`, `ReadHeader` |
| `parse_payload_part` (and the same lines in `parse_first_part`) | `parse_payload_body`, `PayloadPart` |
| `parse_last_part`: `switch` with fall-through, `last_part` | `parse_last_part`, `ReadTail`, `ReadFrom`, `Unread`, `LastPart` |
| `last_part`, `last_part_len` | the sequence `last_part` |
| `THROW` | `sw` (of this command), `thrown` (the first one about what this transaction says) |
| length checks | `GoodLength`, `RefuseFirst`, `RefuseLater` |

The client may start any transaction at any time, so all that a previous one
left is a start state of the next. It may mark any part as the last one, send parts
that are too long, too short, or not asked for, and go on after any error: main.c and
`parse_transaction_part` only look at the length of a part and at `txn_is_complete`.
A transaction is whatever bytes the parser took in, one after the other, so a client
that mixes up its parts is one that sends another transaction.

There are three kinds of errors in the middle of a transaction:

- The part is not taken in (`WRONG_LENGTH`, `INVALID_STATE`), or what follows the payload
  is not (`OVERLONG`: more than `last_part` has room for). The proper bytes may come next.
- The part is taken in, but was marked as the last one (`TXN_INCOMPLETE`).
- A field is refused or missing in the first part (`INVALID_DATA`, `LACKS_FIELD`). What
  was hashed and what is kept do not belong together any more, and yet the next part
  is read on at the tail field where the parser was.

The properties hold through all of the first two kinds. After one of the third kind
the hash is that of no transaction, and the code may still take it for complete (finding 8): the
variable `thrown` remembers this kind, and `upto` how far the parts then came. `DigestIsCanonical`,
`CompleteWhenWhole` and `InvalidIsRefused` are therefore about transactions without such a
refusal, and `NoFalseRefusal` says that good ones have none, but for one reason.

### Review

A document has a number of one-page screens (`Fixed`) and a last screen whose
text is a sequence of units, each displayed as a number of glyphs (`Glyphs`):
one for a letter, several for an escape, none for a character that is skipped.
`Sent` says which units come in which part. Formatting is thereby reduced to
what the pager depends on: when a page is full and when the input is used up.

| Code | Model |
|---|---|
| `current_screen`, `current_page`, `input_*`, `parsed_text`, `global_text`, `global_title` | the record `pager` |
| `display_page_callback`, `page_to_display` | the same; the callback is named by where it leads |
| the loop of `display_proper_page` | `busy`, and one `FindPage` per turn, so that it can fail to end |
| callbacks and the SDK's flow | `step`, `Callback` |
| the one reply that a SIGN command gets | `owed` |
| a request for a part | `asked` |
| the APDU buffer overwritten by a part | `Overwritten` |

The client is the one of the docs: it sends what it is asked for, one document
at a time. The user presses a button only when nothing is awaited: what the
SDK makes of a press on a delimiter, which has no image, needs a model of the
SDK. `Review` has no crash; restarts are in `Session`.

### Session

Documents are values. A transaction has a number of parts, is shown at its
first or at its last part (deployments), and may be refused by the parser at its
last part (`Refused`) or by `display_transaction` after that (`Unshowable`). Any part
but the last may be taken in and still be answered by an error (`"held"` in `Outcomes`);
nothing is displayed then. The pager is free to ask for a part or to display one, so
what is shown here holds of any pager. A client gives a document up when it gets an error,
but a host may send more (`SendMore`): the next part of what was parsed, be it after
an error, after a restart or unasked. Once a part was refused (`mixed`), the bytes that
come may make any sense or none, and what they complete has the hash of no transaction
(`Mixed`). `apart` says that a part was answered by an error since the screens were
made. The client may be restarted at any time, with the device left in
any state; so may the connection (`ResetIo`). Accounts are values, and an
account stands for its path and for its key; `Garbled` is the path that
`crypto_select_account` leaves when it refuses a length.

### Selection, DisplayText and Display

`Selection` is `display_transaction` as an operator from a transaction, and the
number of payload bytes in its first part, to the code thrown or the screens. A
function's name is a sequence of syllables, because the code compares as many
bytes as the payload's name has: the beginning of a name matches it too.

`DisplayText` has a record with a field per static variable of
`display_text.h`, and one operator per branch of the two loops. Bytes are numbers,
so that UTF-8, escapes and trimming are computed and not assumed. `Display` turns
the loops into steps, so that one can fail to end, and cuts the payload into
parts at any byte.

| Code | Model |
|---|---|
| `display_transaction`, `add_screens`, `display_payload_hash` | `Selection` |
| the static variables of `display_text.h`, `input_*`, `parsed_text`, `global_title` | the record `parser` |
| one turn of the loops of `parse_page_text`, `parse_multicall_page` | the actions of these names |
| `return` of a parser; then `parse_next_page` and its caller | `parser.ret`; `EndOfPage` |
| `on_new_transaction_part` | `FirstPart`, `DeployPart`, `PayloadPart` |
| `screens[10]` | `MaxScreens`; beyond it the phase is `"overrun"` |

What ought to be displayed is defined on the whole payload: `Expected` takes its
elements (`blocks`: a function's name, its parameters, the elements of a
multicall), formats each by itself and divides it into pages. Nothing of it
looks at parts or at the parsers' variables.

In `Display` the part that ends the payload ends the transaction; parts after
the payload are in `TxnParser` and `Review`. Payloads are valid UTF-8, and of
JSON the first nine bytes are in the first part.

### Uint256, Currency, Account and Encodings

A big number is two pairs of limbs, and a limb wraps around. `Encodings` has a step
for each turn of the loops whose end is not plain: the division, bit by bit
(`Divide`), the digits of an amount (`BeginDigit`, `EndDigit`), the bytes of an address
(`EncodeByte`) and for each of them the digits (`Carry`), with an index that may leave
the buffer, and the bytes of a number (`DecodeNumber`). The properties read the
texts back by other means: an amount as a number, an address by its remainders
modulo primes whose product is greater than any address, a varint by its definition.

| Code | Model |
|---|---|
| `divmod256`: before its loop, and one turn | `divmod256`, `DivStart`; `DivStep` |
| `tostring256`: before its loop, and one turn | `tostring256`; `HasRoom`, `NextDigit`, `Finished` |
| `encode_amount`: reading, and the text | `AmountDigits`; `AmountText`, `adjustDecimals`, `TrimZeros` |
| `base58_encode`: before its loops, one byte, one digit, the text | `base58_begin`; `BeginByte`, `EndByte`; `CarryStep`; `base58_end` |
| `decode_varint` | `VarintBegin`, `VarintStep` |

`TxnParser` takes the length of a field as known when its bytes have come; that
`decode_varint` neither refuses nor shortens a number that a part cuts is
`VarintIsExact` here.

## 3. Runs

| Run | Shows |
|---|---|
| `parser` | the parser's properties and `ImplementsDigest` |
| `review` | the pages, the replies, the end of every search, and `ImplementsBook` |
| `session` | whose signature of what |
| `display` | every page of every type of transaction, however it is cut, its titles and its fields; that each search ends; which transactions fill `screens` |
| `encodings` | amounts, addresses and varints have the value of their bytes; the carry of an address stays in its buffer; the division ends |
| `early_cut`, `transfer_then_message`, `empty_message`, `refused_then_another`, `utf8_cut`, `part_after_refusal`, `tail_after_error` | one disagreement each between the code and its comments, docs or tests (section 5) |

Bounds, and why they are enough:

- `parser`: `MinPart = 2`, `MinFirst = 4`, `MaxPart = 9`, `LastPartSize = 5`
  in place of 50, 60, 250, 128. Each part takes each length in between, also after
  errors, so each of the eight transactions of 6 to 14 bytes is cut at each byte, in
  any number of parts. The eight are one per case: all fields, only the required ones,
  an empty payload, a field too long for the buffer, trailing bytes, a refused length
  of the payload, a type that is refused by its absence, a
  missing required field. The first byte of each payload looks like the tag of a chain
  id, for a parser that is out of step. The proofs cover all other sizes.
- `review`: pages of `W = 6` glyphs and `MaxPages = 1`. Units give 0 to 4
  glyphs, so pages end inside units. One text in three parts is cut in ten
  ways; the other documents are one per kind and one per edge: text that ends
  with its page, parts that display nothing, long payloads cut and not cut,
  refused parts. `DotsAbove = 5`, as in the code. All the documents of this run
  have a first part that holds the first page: the device asks for 50 bytes at
  least, and clients fill the 250; the run `early_cut` has the other case. TLC
  checks that they satisfy the assumptions of `OrdinaryReview`, on which the proofs
  rest; the documents on which a disagreement is found violate one each, and so
  those runs are on `MCReviewDocs`, without the assumptions.
- `session`: two accounts, one message, six transactions: one per way a
  transaction can go. Two would be enough for a mix-up, since only one document
  is awaited at a time. After the last part the number of parts is no longer counted.
- `display`: lines of 13 characters, as on a Nano S, where fields take most
  screens. Calls, multicalls, governance and plain payloads of 14 to 68 bytes are
  cut once at each byte and in chunks of one to ten bytes; names and texts end
  just before, at and after the end of a page; there are elements of every
  kind, nested ones, escaped quotes, control characters and characters of two
  and three bytes. Each type meets each recipient and three amounts: nothing, one
  screen, four. `WordBits` is 30 in place of 32, since TLC's integers have 32
  bits; characters of up to three bytes need 21. The proof covers all bytes.
- `encodings`: bytes of two bits and limbs of four of them, so that numbers of four
  limbs have 32 bits and carries and borrows cross each of them. Amounts of up to seven
  of the bytes: all up to 1300 and edges above, with 3 decimals and
  `AmountSize = 13`, which leaves less room than the 48 of the code. Addresses
  have their full 38 bytes: the least, the greatest and some between, with any
  checksum. Numbers of up to four bytes with three bits each, in a result of five:
  as 64 bits to 7, one bit is left for the last byte. The proofs cover the program's
  sizes and all others for which the buffers are long enough.

Each run checks deadlock. None of the models is meant to stop.

Fairness: `Review` has it only for what runs by itself: the device's own loop
(`FindPage`) and the client's answer to a request. `Display` has it for `Parse`,
the steps within one handler. The device is one thread with nothing else to do,
and the client of the docs answers. The user is under no obligation, so nothing
is claimed of when a review ends. `TxnParser`, `Session` and `Encodings` state
safety only.

Conditions: `PagesAreOfWholeText` excepts the cuts of a payload that do show on the
pages (`CleanCut`): a part that ends before its first page (finding 1 below), within a
character whose first bits are those of an ASCII character (finding 7) or that
takes three parts, between the two bytes that end a payload and are trimmed at
once, or just after a function's name. `NothingLost` has no such exception: for ASCII
payloads, whatever the cut but the first, the text is complete and in order, with at
most one brace too many at its end. `FieldsAreShown` excepts, besides the cuts, addresses
with characters that are not displayed as they are. The documents of `display` have something to
display on the first page of their last screen. When a last screen displays nothing (no
arguments between the brackets of a governance payload, an empty function name, an empty
payload) the code shows the text that was there under the new title and prepares the same
screen again at each press, as finding 4 shows of a message. `ScreensFit` is an equivalence: the transactions
it names do exceed the array, and no others.

`ImplementsDigest` and `ImplementsBook` are refinements. In the first, a part
absorbs some of the canonical bytes, or nothing; one that is refused for what it
says gives the document up (`GiveUp`), and nothing is promised of what comes then. In the second,
a search for a page is a stutter: the user is still at the place that was left
(`Place`), until the page is there. Requests for parts, parts that are sent
again and pages parsed on the way do not appear in `ReviewBook`; that each press
ends at the next place is what they have to achieve together.

## 4. Proofs

`TxnParser_proofs` proves the type invariant and all the safety invariants
of the `parser` run for all transactions, part sizes and buffer sizes that
satisfy the assumptions of `TxnParser`:

- `TxnAssumption`: the field boundaries are in order and the type byte comes
  first;
- `ReadingAssumption`: at the place of a field its bytes say its length, and are not
  enough as long as some of them are missing;
- `SizeAssumption`: the limits are numbers;
- `TailAssumption`: the fields after the payload of a good transaction fit in
  `last_part`. They take 80 bytes at most, with the varints as short as
  encoders write them.

None of the properties is inductive. The invariant `IInv` says where the parser
is in the transaction. Unless a part was refused for what it says it is in one of three places: in the
payload (`InPayload`: the digest so far and the count of payload bytes agree
with what was sent), in the fields after it (`InTail`: `last_part` holds the
bytes from the end of the last field read to the end of what was sent, and
these are not enough for the next field) or at the end (`Whole`). One lemma says
what reading one field does (`ReadFieldOutcome`), two put the fields before and
after the payload together (`HeadOutcome`, `TailOutcome`), and `LastPartStep`,
`PayloadStep` and `FirstPartStep` make these the three kinds of part. After such a
refusal only the types and the limit on `last_part` are kept (`ReadFieldType`,
`ReadTailType`, `RefusedStep`): `FieldSize` and `Refuses` may then give anything. The
properties follow from `IInv` in a few lines each. `LastPartFits` bounds what is kept
in `last_part`. What `parse_last_part` copies there before it reads is bounded by the
guard of the same call.

`ImplementsDigest` is proved as well: `ImplementsDigestTheorem` maps the initial
state to `TxnDigest`'s and each part to one of its steps or a stutter. For this
`IInv` has one more part, `Absorbed`: what was hashed of a transaction is a beginning
of its canonical bytes, up to a refusal. `DigestBegins` shows
that from the three places above.

`Session_proofs` proves the type invariant, the two invariants and the two
action properties of the `session` run, for all documents, accounts and numbers
of parts (`SessionAssumption`). The invariant `SInv` adds what the client and the
device agree on: the account that the client knows is the selected one, and a
transaction it awaits is the one whose parts were parsed, all of them, and, but for
deployments, the one on the screens. For the parts that no client awaits there are
`PartsAreShown`, what is being parsed without an error is on the screens or is a deployment, and
`HashIsShown`, a complete document under review without an error has the hash of what is
shown. `TxnPartKeeps` goes through the outcomes of a part, for clients that await it and for
hosts that do not (`ParsedPart`, `ProperPage`). `UnrefusedTheorem` needs no client at all: it is
about every approval.

`Review_proofs` proves `OneReplyPerCommand`, `AsksForAPart` and
`ForwardMeansComplete` for all documents, line lengths and numbers of pages. None
is inductive: a reply is sent deep in the pager, and whether a command is open
there depends on how the pager was entered. The invariant `RInv` has five parts:
without a document nothing is owed, asked or sought (`Closed`); a document under
review is on the screens and has its command open (`Reviewed`); a request has
closed the command, stops the search and is for a part there is (`Asked`); a
transaction is complete when its last part has come (`Complete`); the final steps
are those of the document (`StepOfDoc`). One lemma per helper of the pager
(`ProperPageOutcome`, `FindPageKeeps`, `GetNextDataKeeps`, ...) says what it leaves
of these, and each action is one of them.

It proves `TypeOK` of `Review` as well, which bounds what the pager reads
(`pos` within the input) and what it copies to a page. The text on a page is a
`FlattenSeq` of the glyphs of the units read, defined by recursion; that it is a
sequence, and that it grows by the glyphs of a unit when a unit is read, is shown in
`Lemmas_proofs`, by induction on a set of numbers (`SetInduction`, from the
well-founded order of the naturals).

`ReviewPages_proofs` proves `PageIsRight`: whatever the user presses and however
often parts are sent again, a page that is shown is that page of the text. It holds for
all documents that satisfy `OrdinaryReview`'s assumptions, any length of lines and
any maximum of pages. The assumptions exclude what the code does get wrong, and no
more than that:

- `HasText`: there is something to display (run `empty_message`);
- `FirstPageSent`: the first page comes with the first part (`early_cut`);
- `MeetsMaximum`: a text that is not cut ends before the page where it would be
  (`ReviewFullPages.cfg`), and no message follows a long payload (`transfer_then_message`);
- `DotsAbove < W`: a line is longer than the least text that gets dots;
- `RefusalAssumption`: a transaction is not refused under review
  (`refused_then_another`).

The invariant `Inv` is `RInv`, the types, and `PageInv`. The last has a part for each
situation that the pager can be left in: a page is shown (`GenInv`), looked for
(`BusyInv`) or waits for the next part (`WaitInv`). In each, `OnPage` or `InText` says
which page the pager has come to and that what it holds is the rest of the text
from there on, and `Placed` and `Waits` that the input at hand goes on with it.
`BaseInv` says when the beginning of the text is at hand, so that a screen can be
read again; `MaxInv`, that the maximum of pages is that of the document. One lemma per
helper (`NextPageRight`, `ProperPageRight`, `ContinueRight`) carries the situations
from one to the next.

The second half of `ReviewPages_proofs` proves `ImplementsBook` from there. The invariant `BookInv` adds
that a search is for a page next to the place that was left (`FitsInv`) and has not
gone beyond it (`ReachInv`). A delimiter, a turn of the search and a part are
stutters at that place; where the search ends, the place is the page that was
looked for (`Lands`), or that the user went beyond the last one to the decision, and
the number of pages is then that of the text.

`Display_proofs` proves `ParsedTextFits` for any transactions and any bytes in
them. A character adds up to eleven glyphs, and only when there is room for one,
which leaves at most `W + 10` in the buffer; a page takes `W` of them away. The
invariant only adds that the page is a sequence: nothing is assumed of the bytes,
and `HexLenBound` gives any value at most eight digits.

It proves `TypeOK`, `ScreensFit` and `TitleOfFunction` as well, for any transactions
and cuts, lines of 13 characters or more (the shortest there are) and amounts and
addresses that fit in the program's variables (`FieldAssumption`). The invariant `DInv`
says in which phase which part has come (`PartsInv`), what is on the screens
(`ScreensInv`) and that the pager is at most one page ahead of what was displayed
(`CursorInv`). `DisplayTransaction` gives the screens of each type: a field takes at most
four lines, so only a redeploy, which has an amount, an address and six lines of a
hash, gets beyond ten. That a function gets the title of its own name, although
the code compares only as many bytes as the payload's name has, rests on no
function's name being the beginning of another one of its contract (`NoNameBegins`).

`DisplayFields_proofs` proves `FieldsAreShown`: for any transaction, parts and lines
of 13 characters or more, the pages of a review that has come to its end say the
whole amount and the whole address. It has the conditions of the property: cuts that
leave no trace (`CleanCut`; of those only that no page was begun again and that a
cut text is the payload's matter here), and an address of characters that are
displayed as they are. An address made by `encode_account` is; a name is what the
client sends, the program does not look at its bytes, and it displays control
characters in hexadecimal. The proof has two halves:

- What is on the screens. `TransactionWritten` goes through the types: the screens
  of a field are its pieces, none longer than a line, and joined they are the
  field (`PiecesUnder`); all other titles are of other things; the last screen
  is a field's only if no payload is displayed, so that no part replaces it.
- What is on the pages. The invariant is `ReadInv`, under the condition that the cuts
  are sound. `LayoutInv` says the above of the screens there are. `PlaceInv` relates
  the page and the screen, which are not the same number: a screen that displays nothing
  takes none, and the last one takes many. `FieldInv` says that the parser takes a
  field's characters one by one and has read the whole of it when the page is shown.
  `SaidInv`, for any set of field titles: what the pages say under these titles,
  followed by what is in the parser's buffer, is what the screens before say and the
  part of this screen that was read. `PagesInv` deals with the pages beyond the current one, which
  are of no field. Each action keeps them (`SelectRead`, `NextPressRead`,
  `PayloadPartRead`, `ParseRead`, `EndOfPageRead`), and at the end they give the theorem
  (`AllRead`).

`Encodings_proofs` proves all four properties of the `encodings` run, for all bytes
and for all widths of bytes, limbs, groups and results. It assumes what the program's
sizes satisfy:

- `LimbAssumption`: a limb has bytes with bits, and can hold a digit of base ten;
- `EncodingAssumption`: an amount has less bytes than two limbs (15 of 16), and the
  bytes are bytes;
- `AmountAssumption`: `amount_str` has room for the unit behind a zero, a point and the
  decimals, and behind the digits of the greatest amount with a point
  (10^40 > 2^120), and the digits have room in `temp_buffer`;
- `KeyAssumption`: a key has 33 bytes, the hash four at least, and
  `recipient_address` has 53 characters. Nothing else is assumed of the hash.

`Prefix(b, digits, n)`, the number that the first n digits are, is what the four proofs
have in common. `Lemmas_proofs` shows how it grows with a digit, splits, and is
bounded by a power of the base.

- `VarintExact`: `NumberInv` says that after k bytes the result is the number of
  their groups, modulo the width, and that all of them announced another byte
  (`ReadingAt`). `GroupsFit` relates the limit of the loop, which counts bits, to the
  number of bytes. The groups come with the least one first, so a byte is a new first digit
  (`GroupsStep`), and the result wraps around as the exact number does.
- `AddressExact`: `ByteAt` says that the buffer, read in base 58, is the number of the
  bytes before this one; `CarryAt`, that the digits before the current one (times 256,
  with the carry) and those after it (`Tail58`) make the number of the bytes including
  this one, and that there are only zeros up to index `high`. At digit 0 with a carry
  the number would be 58^52 or more (`NoOverrun`), and 38 bytes of which the first is
  66 are less (`BinNumberBounds`): so the index never passes below the buffer. The number
  is also 58^51 or more, so that the text has exactly 52 digits. The theorem
  `AddressSays` states what TLC has no numbers for: the text, in base 58, is the number of
  the bytes.
- `DivisionEnded`: numbers below the square of a limb are `Big`, two limbs with zeros above
  them. Comparing, subtracting, shifting, the length and the or of disjoint bits are shown
  to do on them what they do to numbers (`BigGreater`, `BigMinus`, `BigLeft`,
  `BigRight`, `BigLength`, `BigOr`), borrows and the wrapping of a limb included.
  `DivBit` then says of the division of l that `l = q * 10 + m`, that the weight is the
  power e of two, that q is a multiple of twice that and that m is less than twenty
  times it. So when the last bit is done m is less than ten, and as long as it is not
  there is a bit left, with its weight (`DivStartAt`, `DivStepAt`).
- `AmountExact`: `Left` says that the amount is `r * 10^n` plus the number of the n digits
  so far, where r is what is left to divide. `Figures` is an amount as a row of figures, `ReadsAs` a
  text that says those figures and leaves out zeros at the end, and `Says` one that has
  its point where it belongs. The three cases of `adjustDecimals` lead there, and
  `AmountRead` reads it back.

The second half of `DisplayFields_proofs` proves `PagesAreOfWholeText` for the documents
`TextDocument`: transfers and normal transactions, and the governance functions that show
their arguments, with a payload that is a text of ASCII characters, in any parts and on
lines of any width from 13. Control characters are among them, which turn the display
to hexadecimal and back. The property itself only speaks of cuts that leave no trace
(`CleanCut`). It says what the pages are and nothing of the buffers, so it is not
inductive. The invariant `TextInv`, besides `DInv` and `ReadInv`, is:

- `TextLayout`: all screens but the last are fields, of one page each; the last one has
  the part of the text that came last (`TextLaidOut`, by type and function).
- `Reads`: after k characters of the text, over all parts, the flags of the parser are what
  character k makes them (`InHexAt`), and its buffer is what the first k characters
  give (`Gl`) less `W` glyphs for each page that was turned (`Left`). So a part may
  end anywhere: what is read depends on the number of characters before, not on
  where they were cut (`TextAdded`, `TextTurn`, `ReadsPart`). A governance payload is trimmed when
  the parser meets its last two bytes (`TextTrimmed`).
- `TextRead`: the parser asks for a part only when it has read all of the one it has, and
  is at the end only when nothing of the text is left in the buffer; at the limit on pages
  nothing more is read.
- `BookInv`: page i is `PageOf(i)`, a field or the i-th piece of the text, with dots beyond
  the limit. `BookGrows` adds a page.

`FirstPartText`, `NextPressText`, `PayloadPartText`, `ParseText` and `EndOfPageText` are its steps.
On the other side the reference, made by folds over the document, is shown to be the
same pages (`FlattenSingles`, `TextBlockPages`, `AllExpected`, `ExpectedIsBook`).

TLC checked each of these invariants before it was proved.

Only model-checked:

- `EveryPressAnswered` and `HandlerEnds`, which are liveness;
- `PagesAreOfWholeText` for calls, multicalls, the hash of a deploy and texts with
  characters of several bytes. Calls and multicalls have a parser of their own, or a title
  that changes in the middle of the text; a character of several bytes may be cut itself, so
  `Reads` would have to say which bits of it are held.
- `NothingLost`, which holds for more cuts than the other and compares with less. What is
  proved of the same steps, for all payloads, is `FieldsAreShown`, `ParsedTextFits` and `TypeOK`.

## 5. Where the code and its documentation differ

All but 2 and 6 are runs that TLC finds violated, on the smallest documents that show
it. These two have a configuration of their own, `ReviewFullPages.cfg` for
`MCReviewDocs` and `SessionUnshowable.cfg` for `MCSession`, with the same property as
`early_cut` and `tail_after_error`.

1. `early_cut`: a first part that ends before the first page of the payload. When
   the next part comes, `display_proper_page` starts the screen again and what
   the first part gave is not displayed. It needs a short first part, or a
   payload that begins near the end of the first part.
2. `ReviewFullPages.cfg`: the dots of a cut are written on the last page that may be
   displayed even when the text ends there.
3. `transfer_then_message`: the limit on pages of a long payload also cuts the
   message that comes next.
4. `empty_message`: the search for the page of an empty message does not end.
5. `refused_then_another`: a transaction refused during a search for a page
   makes the next one open there, and not at its title.
6. `SessionUnshowable.cfg`: a transaction that cannot be displayed is hashed before it
   is refused, and an Approve that was on the screen then signs it.
7. `utf8_cut`: a character that a part cuts after its first byte is replaced by
   U+FFFD before it is continued, and another character is displayed in its place.
   So is a character of three bytes below U+2000 that is cut after its second.

8. `part_after_refusal`: a part that comes after one that was refused for what it says
   goes to `parse_last_part`, which reads on at the field where it was. In the run a
   first part ends after the account; the part with the chain id then completes the transaction, with a hash that is not of its bytes. The same is so after a
   gasPrice of 23 bytes at the end of a part.
9. `tail_after_error`: a first part that holds the payload and more than 128 bytes after
   it, or that is marked as the last one, is hashed but answered by an error before
   `display_transaction`. The proper rest, sent next, completes the transaction, with its
   proper hash, and a review begins over the screens of the document before, or of none. An
   Approve signs.

After 6, 8 and 9 an approval signs what the screens were not made for. In all three a
part was answered by an error and the review went on or began after it without new
screens. `UnrefusedSignedWasShown` says that without such an error there is no way to this,
whatever hosts send, and is proved; so a client which takes any error for the end of a review,
and a user who then rejects, are not affected.

## 6. Plan

Done, in this order: `TxnParser` with proofs, `Review`, `Session` with proofs;
`DisplayText`, `Selection` and `Display`; the conversions; the proofs about
`Review`'s replies, about `Display`'s buffer and of `ImplementsDigest`; the proofs
about `Review`'s text and pages and of `ImplementsBook`; the proofs about `Display`'s
screens, titles and fields; the loops of the conversions turn by turn, and the proofs
of all their properties; the proof about the pages of a text.

Worth adding:

1. A model of the SDK's flow, to compose with `Review`: presses while a part is
   awaited, and commands sent in the middle of a review.
2. `PagesAreOfWholeText` for calls, whose title changes after the function's name, then for
   UTF-8 and for multicalls: `Reads` with the flags of each; and `NothingLost` from it.
3. `Display` backwards. `Review` shows that going back repeats the search from the
   first part, so what has to be shown is that this leaves nothing of the search
   before in the text parsers' variables.

## 7. Not modelled

- SHA-256, the elliptic curve, key derivation: external.
- The SDK's flow stack and its own paging of a step's text over several lines;
  `bnnn_paging_edgecase_prev` is taken as a step back to the page.
- Presses while a part is awaited, and commands sent during a review by a
  client that awaits a reply. In `Review` nothing but a new document follows an error;
  hosts that send more are in `TxnParser` and `Session`.
- What a payload part displays after a first part that was marked as the last one: the
  code puts it on the last screen of the document before. `Session` only says that the
  screens are not those of the transaction.
- `GET_VERSION`, malformed APDUs and unknown instructions, which change nothing
  but the reply.
- The overlapping `memcpy` of `transaction.h:391` is taken as a copy from low to
  high addresses.
- What the APDU buffer holds beyond a part: `strncmp` in the payload lookups
  may look there when a first part has less than nine bytes of payload.
- A stake or unstake whose payload is cut: its last screen is the amount, whose
  text the next part replaces (`selection.h:275`). `Display` does the same, and its
  properties leave it out.
- Characters of four bytes and bytes that are not UTF-8, in `Display`'s run. The
  code's operators are defined on them and `ParsedTextAlwaysFits` covers them.
- `mul128`, `mul256`, `divmod128`, `tostring128` and the like in `uint256.c`: the app
  does not call them.
- `fuzzing/` and `unit-tests/`: harnesses, read for what they say of the code.
- Wording of titles, icons, layout and build.
