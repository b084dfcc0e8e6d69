----------------------------- MODULE MCEncodings -----------------------------
(***************************************************************************)
(* An instance of Encodings for TLC.  A byte of an amount has two bits, a  *)
(* limb four such bytes, and three decimals are displayed; addresses have  *)
(* their full size; a number has two groups of two bits and one bit more,  *)
(* as a uint64_t has nine groups of seven and one.                         *)
(***************************************************************************)
EXTENDS Encodings

\* Every amount of up to four bytes, and some of up to seven: v as n bytes.
AsBytes(v, n) == [i \in 1..n |-> (v \div 4^(n - i)) % 4]

MCAmountBytes ==
  {AsBytes(v, n) : v \in 0..255, n \in 4..5}
    \union UNION {[1..n -> 0..3] : n \in 0..3}
    \union {AsBytes(v, 7) : v \in (256..1300) \union {4095, 4096, 9990, 9999, 10000,
                                   10001, 10010, 12340, 15000, 16000, 16382, 16383}}

\* Public keys begin with 2 or 3.
MCKeys ==
  {[i \in 1..33 |-> IF i = 1 THEN p ELSE IF i \in part THEN b ELSE 0] :
     p \in {2, 3}, b \in {1, 57, 58, 255}, part \in {2..33, 2..17, 18..33, {2}, {33}, {20}}}

\* Any four bytes may be those of a checksum.
mc_double_sha256(s) ==
  IF s[2] = 2 THEN <<255, 255, 255, 255>> \o s ELSE <<0, 0, 0, 0>> \o s

MCVarintBytes == UNION {[1..n -> 0..7] : n \in 1..4}
=============================================================================
