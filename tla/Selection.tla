------------------------------ MODULE Selection ------------------------------
(***************************************************************************)
(* display_transaction of selection.h: which screens a transaction is      *)
(* displayed on.  Its payload, when it is JSON, is                         *)
(*     {"Name":"some_function","Args":[<parameters>]}                      *)
(* and only the bytes of the first part can be looked at.                  *)
(*                                                                         *)
(* A transaction t has a type, the kind of its recipient and the bytes of  *)
(* its displayed address, the bytes of its displayed amount, and a payload *)
(* (NoPayload when there is no such field).  Of a JSON payload the name is *)
(* a sequence of syllables, so that one name may begin another, and        *)
(* name_len its bytes; args tells whether "Args" follows it.               *)
(***************************************************************************)
EXTENDS Integers, Sequences, SequencesExt

CONSTANTS
  W,            \* MAX_CHARS_PER_LINE
  ZeroAmount,   \* the bytes of "0 AERGO"
  PayloadHash,  \* the 32 bytes of payload_hash
  NoPayload

MaxScreens == 10  \* the size of the array screens

Screen(title, text) ==
  [title |-> title, text |-> text, in_hex |-> FALSE, is_call |-> FALSE,
   is_multicall |-> FALSE, trim_payload |-> FALSE]

Shorter(a, b) == IF a <= b THEN a ELSE b

\* A text that is not parsed is divided over as many screens as it needs.
Pieces(title, text) ==
  [i \in 1..((Len(text) + W - 1) \div W) |->
     Screen(title, SubSeq(text, (i - 1) * W + 1, Shorter(i * W, Len(text))))]

----------------------------------------------------------------------------
(* Looking into the payload.  size is the number of its bytes in the part. *)

HasName(t, size) == t.payload.json /\ size >= 9

parse_payload_function(t, size) == HasName(t, size)

ArgsAt(t) == 9 + t.payload.name_len + 10

\* parse_payload, and whether it found arguments.
parse_payload(t, size) == HasName(t, size) /\ size > 9 + t.payload.name_len
HasArgs(t, size)       == t.payload.args /\ size >= ArgsAt(t)

PayloadFrom(t, from, size) == SubSeq(t.payload.bytes, from + 1, size)

----------------------------------------------------------------------------
(* The result: the code thrown, or 0, and what was made of the screens.    *)

Shown(ss)        == [sw |-> 0, screens |-> ss, max_pages |-> 0]
Invalid(pos, ss) == [sw |-> 26432 + pos, screens |-> ss, max_pages |-> 0]

\* Mutant: the amount is shown with every recipient but the name system.
AmountScreensByName(t) ==
  IF t.amount # ZeroAmount /\ t.recipient # "name" THEN Pieces("Amount", t.amount) ELSE <<>>

AmountScreens(t) ==
  IF t.amount # ZeroAmount /\ t.recipient # "system" THEN Pieces("Amount", t.amount) ELSE <<>>

\* The pages of a long payload are not all displayed.
PayloadScreens(t, ss, size) ==
  IF t.payload = NoPayload THEN Shown(ss)
  ELSE [Shown(Append(ss, Screen("Payload", PayloadFrom(t, 0, size))))
          EXCEPT !.max_pages = IF Len(t.payload.bytes) >= 50 THEN 4 ELSE 0]

transfer(t, ss, size) ==
  PayloadScreens(t, (IF ss = <<>> THEN Pieces("Amount", t.amount) ELSE ss)
                      \o Pieces("Recipient", t.address), size)

call(t, ss, size) ==
  LET contract == ss \o Pieces("Contract", t.address)
  IN  IF t.payload = NoPayload
      THEN Shown(Append(contract, Screen("Function", <<100, 101, 102, 97, 117, 108, 116>>)))
      ELSE IF ~parse_payload_function(t, size) THEN Invalid(2, contract)
      ELSE Shown(Append(contract, [Screen("Function", PayloadFrom(t, 9, size))
                                     EXCEPT !.is_call = TRUE, !.trim_payload = TRUE]))

multicall(t, ss, size) ==
  IF t.payload = NoPayload \/ size < 1 \/ PayloadFrom(t, 0, 1) # <<91>> THEN Invalid(3, ss)
  ELSE Shown(Append(ss, [Screen("MultiCall", PayloadFrom(t, 1, size)) EXCEPT !.is_multicall = TRUE]))

SystemFunctions ==
  << [name |-> <<"v1", "stake">>,       title |-> "Stake"],
     [name |-> <<"v1", "unstake">>,     title |-> "Unstake"],
     [name |-> <<"v1", "vote", "BP">>,  title |-> "BP Vote"],
     [name |-> <<"v1", "vote", "DAO">>, title |-> "DAO Vote"] >>

NameFunctions ==
  << [name |-> <<"v1", "create", "Name">>, title |-> "Create Name"],
     [name |-> <<"v1", "update", "Name">>, title |-> "Update Name"] >>

EnterpriseFunctions ==
  << [name |-> <<"append", "Admin">>,   title |-> "Add Admin"],
     [name |-> <<"remove", "Admin">>,   title |-> "Remove Admin"],
     [name |-> <<"append", "Conf">>,    title |-> "Add Config"],
     [name |-> <<"remove", "Conf">>,    title |-> "Remove Config"],
     [name |-> <<"enable", "Conf">>,    title |-> "Enable Config"],
     [name |-> <<"change", "Cluster">>, title |-> "Change Cluster"] >>

\* Mutant: as many bytes are compared as the known name has.
MatchesLonger(name, known) == IsPrefix(known, name)

\* strncmp compares as many bytes as the payload's name has.
Matches(name, known) == IsPrefix(name, known)

\* The first function the name matches, or 0.
Match(table, name) ==
  SelectInSeq(table, LAMBDA f : Matches(name, f.name))

\* The arguments, under the title of the function.
ArgsScreen(t, ss, title, size) ==
  Shown(Append(ss, [Screen(title, PayloadFrom(t, ArgsAt(t), size)) EXCEPT !.trim_payload = TRUE]))

system(t, ss, size) ==
  LET f == Match(SystemFunctions, t.payload.name)
  IN  CASE f = 0 -> Invalid(6, ss)
        [] f \in {1, 2} -> Shown(Append(ss, Screen(SystemFunctions[f].title, t.amount)))
        [] f \in {3, 4} /\ ~HasArgs(t, size) -> Invalid(5, ss)
        [] OTHER ->
             ArgsScreen(t, ss \o IF t.amount # ZeroAmount THEN Pieces("Amount", t.amount) ELSE <<>>,
                        SystemFunctions[f].title, size)

\* The functions of the name system and of the enterprise one.
configuration(t, ss, size, table, pos) ==
  LET f == Match(table, t.payload.name)
  IN  CASE ~HasArgs(t, size) -> Invalid(pos, ss)
        [] HasArgs(t, size) /\ f = 0 -> Invalid(pos + 1, ss)
        [] OTHER -> ArgsScreen(t, ss, table[f].title, size)

governance(t, ss, size) ==
  IF t.payload = NoPayload \/ ~parse_payload(t, size) THEN Invalid(4, ss)
  ELSE CASE t.recipient = "system" -> system(t, ss, size)
         [] t.recipient = "name" -> configuration(t, ss, size, NameFunctions, 7)
         [] t.recipient = "enterprise" -> configuration(t, ss, size, EnterpriseFunctions, 9)
         [] OTHER -> Invalid(11, ss)

\* Mutant: four bytes of the hash on a screen.
HashByFours ==
  [i \in 1..8 |-> [Screen("New Contract", SubSeq(PayloadHash, 4 * i - 3, 4 * i)) EXCEPT !.in_hex = TRUE]]

\* Six screens of a hash in hexadecimal; none of them asks for a part again.
display_payload_hash ==
  [i \in 1..6 |->
     [Screen("New Contract", SubSeq(PayloadHash, 6 * i - 5, Shorter(6 * i, 32)))
        EXCEPT !.in_hex = TRUE]]

normal(t, ss, size) ==
  LET shown == PayloadScreens(t, ss \o Pieces("Recipient", t.address), size)
  IN  IF shown.screens = <<>> THEN Invalid(14, <<>>) ELSE shown

display_transaction(t, size) ==
  LET ss == AmountScreens(t)
  IN  CASE t.type = "transfer" -> transfer(t, ss, size)
        [] t.type \in {"call", "feedelegation"} -> call(t, ss, size)
        [] t.type = "multicall" -> multicall(t, ss, size)
        [] t.type = "governance" -> governance(t, ss, size)
        [] t.type = "deploy" -> Shown(ss \o display_payload_hash)
        [] t.type = "redeploy" ->
             Shown(ss \o Pieces("Redeploy", t.address) \o display_payload_hash)
        [] t.type = "normal" -> normal(t, ss, size)
        [] OTHER -> Invalid(21, ss)
=============================================================================
