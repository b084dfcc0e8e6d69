----------------------------- MODULE TxnDigest -----------------------------
(***************************************************************************)
(* What the streaming parser promises to whoever signs: at every step what *)
(* was absorbed for a document is a beginning of that document's canonical *)
(* bytes, and a digest is offered only when it is all of them.  A document *)
(* can be given up; parts, fields and restarts do not appear here.         *)
(***************************************************************************)
EXTENDS SequencesExt

CONSTANTS
  Docs,
  NoDoc,
  CanonicalBytes     \* CanonicalBytes[d]: what the hash of d is the hash of

VARIABLES
  doc,        \* the document being received or held
  absorbed,   \* the bytes absorbed for it
  digest      \* what the digest offered for signing stands for; <<>>: none

digestVars == <<doc, absorbed, digest>>

DigestInit == doc = NoDoc /\ absorbed = <<>> /\ digest = <<>>

\* Some of d is absorbed; once that is all of it, it may be offered.
Absorb(d) ==
  /\ doc' = d
  /\ IsPrefix(absorbed', CanonicalBytes[d])
  /\ digest' = <<>> \/ (digest' = absorbed' /\ absorbed' = CanonicalBytes[d])

\* Nothing is promised any more of what was received.
GiveUp == doc' = NoDoc /\ absorbed' = <<>> /\ digest' = <<>>

DigestNext == (\E d \in Docs : Absorb(d)) \/ GiveUp

DigestSpec == DigestInit /\ [][DigestNext]_digestVars
============================================================================
