----------------------------- MODULE DisplayText -----------------------------
(***************************************************************************)
(* The text parsers of display_text.h: what the next character of a screen *)
(* does to the page being filled.  A text is a sequence of bytes that may  *)
(* be cut into parts anywhere, so a parser keeps its place in static       *)
(* variables: here a record t, one field per variable.                     *)
(*                                                                         *)
(* The state machine that calls these operators is in Display.             *)
(***************************************************************************)
EXTENDS Integers, Sequences, SequencesExt, FiniteSetsExt

CONSTANTS
  W,        \* MAX_CHARS_PER_LINE: characters on a page (45 or 13)
  WordBits  \* bits of an unsigned int: 32

ASSUME TextAssumption == W \in Nat \ {0} /\ WordBits \in Nat \ {0}

Quote     == 34
Backslash == 92

args_separator == <<44, 34, 65, 114, 103, 115, 34, 58, 91>>  \* ,"Args":[

\* ret: "loop" while parse_page_text or parse_multicall_page goes on, then what
\* it returned.  mode: which of is_in_string, is_in_literal, is_in_object and
\* is_in_array is set; no two of them ever are.
reset_text_parser ==
  [input |-> <<>>, pos |-> 0, parsed |-> <<>>, title |-> "", ret |-> "loop",
   display_char |-> TRUE, args_pos |-> 0,
   in_hex |-> FALSE, already_in_hex |-> FALSE,
   last_utf8_char |-> 0, last_char |-> 0,
   is_in_command |-> FALSE, in_internal_str |-> FALSE, mode |-> "none",
   obj_level |-> 0]

----------------------------------------------------------------------------
(* Characters *)

UTF8Trans1(b) ==
  CASE b < 224 -> b % 32
    [] b \in 224..239 -> b % 16
    [] b \in 240..247 -> b % 8
    [] b \in 248..251 -> b % 4
    [] b > 251 -> IF b = 253 THEN 1 ELSE 0

IsContinuation(b) == b \in 128..191

\* What stands for a character that UTF-8 does not allow.
Replaced(c) == IF c < 128 \/ c \in 55296..57343 \/ c \in {65534, 65535} THEN 65533 ELSE c

\* The number of continuation bytes after the first p bytes of s.
Continuations(s, p) ==
  Max({n \in 0..(Len(s) - p) : \A k \in 1..n : IsContinuation(s[p + k])})

\* The character begun as c goes on after the first p bytes of s.
READ_REMAINING_UTF8(s, p, c) ==
  LET n == Continuations(s, p)
  IN  [c |-> Replaced(FoldLeft(LAMBDA v, b : (v * 64 + (b % 64)) % 2^WordBits,
                               c, SubSeq(s, p + 1, p + n))),
       pos |-> p + n, is_utf8 |-> FALSE]

READ_UTF8(s, p) ==
  LET b == s[p + 1]
  IN  IF b >= 192
      THEN [READ_REMAINING_UTF8(s, p + 1, UTF8Trans1(b)) EXCEPT !.is_utf8 = TRUE]
      ELSE [c |-> b, pos |-> p + 1, is_utf8 |-> FALSE]

ReadChar(t, raw) ==
  IF raw THEN [c |-> t.input[t.pos + 1], pos |-> t.pos + 1, is_utf8 |-> FALSE]
  ELSE IF t.last_utf8_char # 0
       THEN READ_REMAINING_UTF8(t.input, t.pos, t.last_utf8_char)
       ELSE READ_UTF8(t.input, t.pos)

\* Mutant: no character is held back.
NotHeld(t, r, partial) == FALSE

\* The character may go on in the next part.
Held(t, r, partial) == r.pos = Len(t.input) /\ r.is_utf8 /\ partial

HexDigit(n) == IF n < 10 THEN 48 + n ELSE 55 + n

\* "%X" of a value of up to 32 bits.
HexLen(c) ==
  1 + Cardinality({p \in {16, 256, 4096, 65536, 1048576, 16777216, 268435456} : c >= p})

Unicode(c) ==
  <<Backslash, 117>> \o
  [i \in 1..HexLen(c) |-> HexDigit((c \div 16^(HexLen(c) - i)) % 16)]

----------------------------------------------------------------------------
(* parse_page_text, for the character r.c that ends at r.pos on screen s;  *)
(* e is what it reads of the transaction.                                  *)

EndsFunction(t, s, r) ==
  s.is_call /\ t.display_char /\ t.title = "Function" /\ r.c = Quote

Skips(t, s) == s.is_call /\ ~t.display_char

\* After the function's name nothing is displayed up to the arguments.
SkipToArgs(t, r) ==
  IF r.c # args_separator[t.args_pos + 1] THEN t
  ELSE IF t.args_pos < 8 THEN [t EXCEPT !.args_pos = @ + 1]
  ELSE [t EXCEPT !.args_pos = 9, !.title = "Parameters", !.display_char = TRUE]

\* The character is the last but one of the payload.
Trims(t, s, r, e) ==
  /\ s.trim_payload
  /\ LET before == IF e.part_offset # 0 THEN e.part_offset
                   ELSE IF s.is_call THEN 9 ELSE e.text_offset
     IN  before + r.pos - 1 = e.payload_len - 2

IsBreak(c) == c \in {9, 10, 13}  \* tab, line feed, carriage return

\* What a character gives, between < and > when it is a control character.
Glyphs(c, as_hex) ==
  CASE as_hex -> <<HexDigit((c \div 16) % 16), HexDigit(c % 16)>>
    [] ~as_hex /\ c > 127 -> Unicode(c)
    [] ~as_hex /\ c \in {10, 13} -> <<124>>
    [] ~as_hex /\ c = 9 -> <<32>>
    [] OTHER -> <<c>>

\* Line ends and tabs keep the format of the character before them.
Format(t, s, c) ==
  LET hex == s.in_hex \/ (IF IsBreak(c) THEN t.in_hex ELSE c < 32)
      delimiter == CASE s.in_hex \/ hex = t.already_in_hex -> <<>>
                     [] OTHER -> IF hex THEN <<60>> ELSE <<62>>
  IN  [t EXCEPT !.in_hex = hex,
                !.already_in_hex = IF s.in_hex THEN @ ELSE hex,
                !.parsed = @ \o delimiter \o Glyphs(c, hex)]

----------------------------------------------------------------------------
(* parse_multicall_page: a page for each element of each command, which    *)
(* is a string, a literal, or an object or array with all it holds.        *)

\* strchr looks for a byte, and finds the one that ends the string too.
is_json_literal(c) ==
  c % 256 \in {0, 116, 114, 117, 102, 97, 108, 115, 110, 69, 101, 46, 45, 43} \union (48..57)

JsonGlyphs(c) ==
  CASE c > 127 -> Unicode(c)
    [] c \in {10, 13} -> <<124>>
    [] c < 32 /\ c \notin {10, 13} -> <<63>>
    [] OTHER -> <<c>>

Passed(t, c) == [t EXCEPT !.last_char = c]
Copied(t, c) == [t EXCEPT !.last_char = c, !.parsed = @ \o JsonGlyphs(c)]

\* The last character that is not escaped by the one before it.
Closes(t, c) == c = Quote /\ t.last_char # Backslash

InString(t, c) ==
  CASE ~Closes(t, c) -> Copied(t, c)
    [] Closes(t, c) /\ t.parsed # <<>> -> [t EXCEPT !.mode = "none", !.ret = "yes"]
    [] OTHER -> [Passed(t, c) EXCEPT !.mode = "none"]

\* Mutant: the character after a literal is gone.
InLiteralForgets(t, c) ==
  IF is_json_literal(c) THEN Copied(t, c)
  ELSE [t EXCEPT !.mode = "none", !.ret = "yes"]

\* Mutant: after a literal the parser takes what follows for more of it.
InLiteralStays(t, c) ==
  IF is_json_literal(c) THEN Copied(t, c) ELSE [t EXCEPT !.ret = "yes", !.pos = @ - 1]

\* The character after a literal is read again for the next page.
InLiteral(t, c) ==
  IF is_json_literal(c) THEN Copied(t, c)
  ELSE [t EXCEPT !.mode = "none", !.ret = "yes", !.pos = @ - 1]

InInternalString(t, c) ==
  [Copied(t, c) EXCEPT !.in_internal_str = ~Closes(t, c)]

Opening(mode) == IF mode = "object" THEN 123 ELSE 91
Closing(mode) == IF mode = "object" THEN 125 ELSE 93

InNested(t, c) ==
  CASE c = Closing(t.mode) /\ t.obj_level = 1 ->
         [t EXCEPT !.mode = "none", !.obj_level = 0, !.ret = "yes", !.parsed = Append(@, c)]
    [] c = Closing(t.mode) /\ t.obj_level # 1 -> [Copied(t, c) EXCEPT !.obj_level = @ - 1]
    [] c = Opening(t.mode) -> [Copied(t, c) EXCEPT !.obj_level = @ + 1]
    [] c = Quote -> [Copied(t, c) EXCEPT !.in_internal_str = TRUE]
    [] OTHER -> Copied(t, c)

BetweenElements(t, c) ==
  CASE c = 91 /\ ~t.is_in_command ->
         [Passed(t, c) EXCEPT !.is_in_command = TRUE, !.parsed = @ \o <<61, 62, 32>>]
    [] c = 91 /\ t.is_in_command -> [Copied(t, c) EXCEPT !.mode = "array", !.obj_level = 1]
    [] c = 93 -> [Passed(t, c) EXCEPT !.is_in_command = FALSE]
    [] c = Quote -> [Passed(t, c) EXCEPT !.mode = "string"]
    [] c = 123 -> [Copied(t, c) EXCEPT !.mode = "object", !.obj_level = 1]
    [] c \notin {91, 93, Quote, 123} /\ is_json_literal(c) ->
         [Copied(t, c) EXCEPT !.mode = "literal"]
    [] OTHER -> Passed(t, c)

JsonChar(t, c) ==
  CASE t.mode = "string"  -> InString(t, c)
    [] t.mode = "literal" -> InLiteral(t, c)
    [] t.mode \in {"object", "array"} ->
         IF t.in_internal_str THEN InInternalString(t, c) ELSE InNested(t, c)
    [] OTHER -> BetweenElements(t, c)
=============================================================================
