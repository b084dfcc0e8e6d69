----------------------------- MODULE MCSession -----------------------------
(***************************************************************************)
(* Instances of Session for TLC.                                           *)
(***************************************************************************)
EXTENDS Session

MCTxns  == {"short", "parts", "deploy", "bad", "badtail", "unknown"}
MCParts ==
  [t \in Txns |-> CASE t \in {"short", "bad", "unknown"}  -> 1
                    [] t \in {"deploy", "badtail", "pair"} -> 2
                    [] t = "parts"                        -> 3]
MCRefused == {"bad", "badtail"}

UnknownTxns == {"short", "unknown"}

PartedTxns == {"short", "pair"}

============================================================================
