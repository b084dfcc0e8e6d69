------------------------------ MODULE MCDisplay ------------------------------
(***************************************************************************)
(* An instance of Display for TLC: pages of 13 characters, as on a Nano S, *)
(* and small transactions of every type, some of them cut at every byte.   *)
(***************************************************************************)
EXTENDS Display

MCZeroAmount  == <<48, 32, 65, 69, 82, 71, 79>>
MCPayloadHash == [i \in 1..32 |-> (i * 37) % 256]
MCNoPayload   == [bytes |-> <<>>, json |-> FALSE, name |-> <<>>, name_len |-> 0, args |-> FALSE]

\* n letters, beginning with a.
Letters(n) == [i \in 1..n |-> 97 + ((i - 1) % 26)]

Encode(c) ==
  CASE c < 128 -> <<c>>
    [] c \in 128..2047 -> <<192 + (c \div 64), 128 + (c % 64)>>
    [] OTHER -> <<224 + (c \div 4096), 128 + ((c \div 64) % 64), 128 + (c % 64)>>

EncodeAll(cs) == FlattenSeq([i \in 1..Len(cs) |-> Encode(cs[i])])

----------------------------------------------------------------------------
(* Amounts and recipients *)

Amounts == {MCZeroAmount, Letters(9), Letters(44)}

Addresses ==
  [none |-> <<>>, account |-> Letters(52), system |-> Letters(12), name |-> Letters(10),
   enterprise |-> Letters(16), alias |-> Letters(12)]

Recipients == DOMAIN Addresses

Txn(type, recipient, amount, payload) ==
  [type |-> type, recipient |-> recipient, address |-> Addresses[recipient],
   amount |-> amount, payload |-> payload]

Block(title, lead, cs, format) == [title |-> title, lead |-> lead, chars |-> cs, format |-> format]

----------------------------------------------------------------------------
(* Cuts of n bytes, the first of them after at least m *)

Whole(n)        == {<<n>>}
SingleCuts(n, m) == {<<k, n>> : k \in m..(n - 1)}
Chunks(n, m, s) == {[i \in 1..((n - m + s - 1) \div s + 1) |-> Shorter(m + (i - 1) * s, n)]}
Cuts(n, m)      == Whole(n) \union SingleCuts(n, m)

Sent(t, blocks, cuts) == {[t |-> t, cut |-> c, blocks |-> blocks] : c \in cuts}

----------------------------------------------------------------------------
(* Payloads *)

Name(len) == Letters(len)
NoArgs    == <<0>>

JsonBytes(name, args) ==
  <<123, 34, 78, 97, 109, 101, 34, 58, 34>> \o name \o <<Quote>>
    \o (IF args = NoArgs THEN <<125>> ELSE args_separator \o EncodeAll(args) \o <<93, 125>>)

Json(syllables, name, args) ==
  [bytes |-> JsonBytes(name, args), json |-> TRUE, name |-> syllables,
   name_len |-> Len(name), args |-> args # NoArgs]

Plain(cs) == [MCNoPayload EXCEPT !.bytes = EncodeAll(cs)]

CallBlocks(name, args) ==
  <<Block("Function", <<>>, name, "text"), Block("Parameters", <<>>, args, "text")>>

CallDocs(type, name, args, cuts) ==
  LET p == Json(<<"f">>, name, args)
  IN  Sent(Txn(type, "name", MCZeroAmount, p), CallBlocks(name, args), cuts)

\* {"Name":"abcd","Args":["a",12,"b"]} and the like.
SomeArgs  == <<34, 97, 98, 34, 44, 49, 50, 44, 34, 99, 34>>
OddArgs   == <<34, 1, 10, 2, 98, 10, 99, 9, 127, 8364, 233, 100, 13, 0, 31, 34>>
ManyArgs  == <<34>> \o Letters(24) \o <<34>>

CallCases ==
  UNION {CallDocs("call", Name(n), SomeArgs, Whole(9 + n + 1 + 9 + 11 + 2)) : n \in {1, 12, 13, 14, 26}}
    \union CallDocs("call", Name(4), SomeArgs, SingleCuts(36, 9) \union Chunks(36, 20, 1))
    \union CallDocs("feedelegation", Name(13), SomeArgs, SingleCuts(45, 22) \union Chunks(45, 23, 2))
    \union CallDocs("call", Name(3), OddArgs, Cuts(9 + 3 + 1 + 9 + 19 + 2, 14))
    \union CallDocs("call", Name(3), ManyArgs, Cuts(9 + 3 + 1 + 9 + 26 + 2, 22) \union Chunks(50, 22, 7))
    \union CallDocs("call", Name(3), <<>>, Cuts(9 + 3 + 1 + 9 + 2, 14))
    \union {[d EXCEPT !.blocks = <<@[1]>>] :
              d \in Sent(Txn("call", "name", Letters(9), Json(<<"f">>, Name(3), NoArgs)),
                         CallBlocks(Name(3), <<>>), Cuts(14, 9))}

\* The elements of a multicall: what they are in JSON and what is displayed.
Element(kind, cs) ==
  [bytes |-> EncodeAll(IF kind = "string" THEN <<Quote>> \o cs \o <<Quote>> ELSE cs), chars |-> cs]

Separated(seqs) ==
  FlattenSeq([i \in 1..Len(seqs) |-> (IF i = 1 THEN <<>> ELSE <<44>>) \o seqs[i]])

Bracketed(s) == <<91>> \o s \o <<93>>

MulticallBytes(commands) ==
  Bracketed(Separated(
    [i \in 1..Len(commands) |->
       Bracketed(Separated([j \in 1..Len(commands[i]) |-> commands[i][j].bytes]))]))

CommandBlocks(command) ==
  [j \in 1..Len(command) |->
     Block("MultiCall", IF j = 1 THEN <<61, 62, 32>> ELSE <<>>, command[j].chars, "json")]

MulticallDocs(commands, cuts) ==
  Sent(Txn("multicall", "none", MCZeroAmount, [MCNoPayload EXCEPT !.bytes = MulticallBytes(commands)]),
       FlattenSeq([i \in 1..Len(commands) |-> CommandBlocks(commands[i])]), cuts)

Brace(s) == <<123>> \o s \o <<125>>

\* [["call",12,{"}[":{}},[t,["]"]]],["a\"b",-7],["c"]]
Commands ==
  << << Element("string", <<99, 97, 108, 108>>), Element("literal", <<49, 50>>),
        Element("object", Brace(<<34, 125, 91, 34, 58>> \o Brace(<<>>))),
        Element("array", Bracketed(<<116, 44>> \o Bracketed(<<34, 93, 34>>))) >>,
     << Element("string", <<97, 92, 34, 98>>), Element("literal", <<45, 55>>) >>,
     << Element("string", <<99>>) >> >>

\* Texts as long as pages, and characters that are not ASCII.
LongCommands ==
  << << Element("string", Letters(10)), Element("literal", [i \in 1..13 |-> 49]),
        Element("string", Letters(13)), Element("object", Brace(Letters(11))),
        Element("string", Letters(14)) >>,
     << Element("string", <<233, 8364, 10, 9, 97>>), Element("array", Bracketed(<<8364, 44, 49>>)) >> >>

MulticallCases ==
  LET n == Len(MulticallBytes(Commands))
      l == Len(MulticallBytes(LongCommands))
  IN  MulticallDocs(Commands, Cuts(n, 8) \union Chunks(n, 9, 1) \union Chunks(n, 10, 2))
        \union MulticallDocs(LongCommands, Cuts(l, 14) \union Chunks(l, 16, 3))

TextDocs(type, cs, cuts) ==
  Sent(Txn(type, "name", MCZeroAmount, Plain(cs)), <<Block("Payload", <<>>, cs, "text")>>, cuts)

\* Less than five pages, five pages and more of them.
TextCases ==
  TextDocs("transfer", Letters(20), Cuts(20, 12) \union Chunks(20, 13, 1))
    \union TextDocs("normal", Letters(52), Whole(52))
    \union TextDocs("transfer", Letters(65), Whole(65) \union Chunks(65, 15, 10))
    \union TextDocs("transfer", Letters(68), Whole(68) \union SingleCuts(68, 60) \union Chunks(68, 14, 9))
    \union TextDocs("transfer", Letters(14) \o <<233>>, Cuts(16, 13))
    \union TextDocs("normal", <<1, 2, 97, 3, 10, 4, 98, 5, 13>>, Cuts(9, 6))

GovernanceDocs(recipient, syllables, len, args, title, amount, cuts) ==
  Sent(Txn("governance", recipient, amount, Json(syllables, Name(len), args)),
       <<Block(title, <<>>, IF title \in {"Stake", "Unstake"} THEN amount ELSE args, "text")>>, cuts)

\* Each known function, its beginnings, and names that are not known.
Tables == [system |-> SystemFunctions, name |-> NameFunctions, enterprise |-> EnterpriseFunctions]

Known(recipient) ==
  UNION {GovernanceDocs(recipient, f.name, 7, SomeArgs, f.title, MCZeroAmount, Whole(9 + 7 + 10 + 11 + 2)) :
           f \in ToSet(Tables[recipient])}

Unknown(recipient) ==
  UNION {GovernanceDocs(recipient, name, 4, SomeArgs, "", MCZeroAmount, Whole(36)) :
           name \in {<<"v2">>, <<"v1", "stake", "it">>, <<"v1", "vote", "BP", "s">>,
                     <<"remove", "Admin", "s">>, <<"v1", "create", "Name", "s">>}}

Beginnings ==
  UNION {GovernanceDocs("system", name, Len(name) * 2, SomeArgs, "Stake", amount, Whole(32 + Len(name) * 2)) :
           name \in {<<>>, <<"v1">>}, amount \in Amounts}
    \union GovernanceDocs("system", <<"v1", "vote">>, 6, SomeArgs, "BP Vote", MCZeroAmount, Whole(38))
    \union GovernanceDocs("name", <<"v1">>, 2, SomeArgs, "Create Name", MCZeroAmount, Whole(34))
    \union GovernanceDocs("enterprise", <<"append">>, 6, SomeArgs, "Add Admin", MCZeroAmount, Whole(38))

GovernanceCases ==
  UNION {Known(r) \union Unknown(r) : r \in DOMAIN Tables}
    \union Beginnings
    \union GovernanceDocs("system", <<"v1", "stake">>, 7, NoArgs, "Stake", Letters(20), Cuts(18, 17))
    \union GovernanceDocs("system", <<"v1", "unstake">>, 9, NoArgs, "Unstake", Letters(44), Whole(20))
    \union GovernanceDocs("system", <<"v1", "vote", "BP">>, 8, ManyArgs, "BP Vote", Letters(9),
                          Cuts(9 + 8 + 10 + 26 + 2, 18) \union Chunks(55, 41, 2))
    \union GovernanceDocs("name", <<"v1", "update", "Name">>, 8, OddArgs, "Update Name", MCZeroAmount,
                          Cuts(9 + 8 + 10 + 19 + 2, 18))
    \union GovernanceDocs("system", <<"v1", "vote", "DAO">>, 8, NoArgs, "DAO Vote", MCZeroAmount, Whole(19))
    \union GovernanceDocs("account", <<"v1", "vote", "DAO">>, 8, SomeArgs, "DAO Vote", MCZeroAmount, Whole(40))

\* Every type with every recipient and amount, and no payload or a short one.
FieldCases ==
  UNION {Sent(Txn(type, r, a, MCNoPayload), <<>>, Whole(0)) :
           type \in {"transfer", "call", "multicall", "governance", "deploy", "redeploy", "normal", "unknown"},
           r \in Recipients, a \in Amounts}
    \union UNION {Sent(Txn(type, r, a, Plain(Letters(8))), <<>>, {<<8>>, <<5, 8>>, <<3, 6, 8>>}) :
                    type \in {"deploy", "redeploy"}, r \in {"account", "name"}, a \in Amounts}
    \union UNION {Sent(Txn(type, r, a, Plain(Letters(8))), <<Block("Payload", <<>>, Letters(8), "text")>>, Whole(8)) :
                    type \in {"transfer", "call", "multicall", "normal"}, r \in {"none", "account"}, a \in Amounts}

\* A part ends within the second character of the argument.
CutCharacter == CallDocs("call", Name(3), <<34, 97, 233, 98, 34>>, {<<25, 30>>})

MCDocs == CallCases \union MulticallCases \union TextCases \union GovernanceCases \union FieldCases
=============================================================================
