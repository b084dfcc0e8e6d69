------------------------------- MODULE Currency -------------------------------
(***************************************************************************)
(* common/currency.h: the text of an amount.  It comes as the bytes of a   *)
(* big number, in units of 10^-Decimals.                                   *)
(***************************************************************************)
EXTENDS Uint256

CONSTANTS
  Decimals,    \* DECIMALS: 18
  TempSize,    \* the size of temp_buffer: 100
  AmountSize   \* the size of amount_str: 48

Zero == 48
Point == 46
Unit == <<32, 65, 69, 82, 71, 79>>  \* " AERGO"

Zeros(n) == [i \in 1..n |-> Zero]

convertUint256BE(data) == readu256BE([i \in 1..(4 * LimbBytes - Len(data)) |-> 0] \o data)

\* From the character after the first start ones, the zeros at the end are
\* removed, and the point when it comes last then.
TrimZeros(text, start) ==
  LET last == Max({start} \union {i \in (start + 1)..Len(text) : text[i] # Zero})
  IN  IF last = Len(text) THEN text
      ELSE SubSeq(text, 1, IF text[last] = Point THEN last - 1 ELSE last)

Refused(text) == [ok |-> FALSE, text |-> text]
Written(text) == [ok |-> TRUE, text |-> text]

\* src with its point placed, if there is room for it.
adjustDecimals(src, targetLength) ==
  LET n == Len(src)
  IN  CASE src = <<Zero>> -> IF targetLength < 2 THEN Refused(src) ELSE Written(src)
        [] src # <<Zero>> /\ n <= Decimals ->
             IF targetLength < n + 1 + 2 + (Decimals - n) THEN Refused(src)
             ELSE Written(TrimZeros(<<Zero, Point>> \o Zeros(Decimals - n) \o src, 2 + Decimals - n))
        [] OTHER ->
             IF targetLength < n + 1 + 1 THEN Refused(src)
             ELSE LET point == IF Decimals # 0 THEN <<Point>> ELSE <<>>
                  IN  Written(TrimZeros(SubSeq(src, 1, n - Decimals) \o point
                                          \o SubSeq(src, n - Decimals + 1, n),
                                        n - Decimals + Len(point)))

\* encode_amount: first the digits.
AmountDigits(data) == tostring256(convertUint256BE(data))

\* Then the text made of them.  If they had no room they are in reverse, and
\* where the text has none, old is what amount_str holds from before.
AmountText(s, old) ==
  LET adjusted == adjustDecimals(IF Finished(s) THEN Reverse(s.out) ELSE s.out, AmountSize)
      out      == IF adjusted.ok THEN adjusted.text ELSE old
  IN  IF Len(out) + 7 > AmountSize THEN out ELSE out \o Unit
=============================================================================
