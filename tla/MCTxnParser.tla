---------------------------- MODULE MCTxnParser ----------------------------
(***************************************************************************)
(* An instance of TxnParser for TLC.  The fields are a few bytes long and  *)
(* the limits are scaled down with them: every part of MinPart..MaxPart    *)
(* bytes is tried at every point, so every field is cut at every byte.     *)
(***************************************************************************)
EXTENDS TxnParserImplements

\* The ends of the nine fields.  A payload's header takes 2 bytes.
Ends ==
  [ full      |-> <<2, 3, 4, 5, 9, 10, 11, 12, 14>>,
    bare      |-> <<2, 4, 4, 4, 4, 4, 4, 4, 6>>,
    emptyload |-> <<2, 3, 3, 4, 6, 7, 7, 8, 10>>,
    longprice |-> <<2, 3, 3, 3, 3, 3, 10, 10, 12>>,
    trailing  |-> <<2, 3, 3, 3, 3, 3, 3, 3, 5>>,
    badlength |-> <<2, 3, 3, 3, 6, 6, 6, 6, 8>>,
    badtype   |-> <<2, 3, 3, 3, 3, 4, 4, 4, 6>>,
    nochain   |-> <<2, 3, 3, 3, 3, 4, 5, 5, 5>> ]

MCTxns == DOMAIN Ends

MCEnd ==
  [t \in MCTxns |-> [k \in 0..9 |-> IF k = 0 THEN 1 ELSE Ends[t][k]]]

MCPayloadAt ==
  [t \in MCTxns |-> MCEnd[t][4] + IF MCEnd[t][5] = MCEnd[t][4] THEN 0 ELSE 2]

MCSize ==
  [t \in MCTxns |->
     CASE t = "trailing" -> MCEnd[t][9] + 2
       [] t = "nochain"  -> MCEnd[t][9] + 1
       [] OTHER          -> MCEnd[t][9]]

MCBad ==
  [t \in MCTxns |->
     CASE t = "longprice" -> {7}
       [] t = "badlength" -> {5}
       [] t = "badtype"   -> {8}
       [] OTHER           -> {}]

\* A byte is the tag of a field at the place of that field, and a byte of the
\* payload that looks like the tag of a chain id of three bytes.
\* 23 bytes are the longest transaction and one more part.
SizeAt ==
  [t \in MCTxns |-> [i \in 1..23 |-> [k \in 1..9 |->
     CASE MCEnd[t][k-1] + 1 = i        -> MCEnd[t][k] - MCEnd[t][k-1]
       [] k = 9 /\ i = MCPayloadAt[t] -> 3
       [] OTHER                        -> 0]]]

MCFieldSize(k, buf) == SizeAt[buf[1][1]][buf[1][2]][k]

\* A type that is passed over stands for 0, which is not the one announced.
MCRefuses(k, buf) ==
  LET t == buf[1][1]
  IN  IF MCFieldSize(k, buf) = 0
      THEN k = 8 /\ (MCEnd[t][7] < MCEnd[t][8] \/ 8 \in MCBad[t])
      ELSE k \in MCBad[t]

============================================================================
