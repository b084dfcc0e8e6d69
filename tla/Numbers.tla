------------------------------- MODULE Numbers -------------------------------
(***************************************************************************)
(* Powers, and the number that a sequence of digits is.                    *)
(***************************************************************************)
EXTENDS Integers, Sequences

Power(b, n) ==
  LET p[k \in 0..n] == IF k = 0 THEN 1 ELSE b * p[k-1] IN p[n]

\* The number that the first n digits are.  The first one is the most significant.
Prefix(b, digits, n) ==
  LET v[k \in 0..n] == IF k = 0 THEN 0 ELSE v[k-1] * b + digits[k] IN v[n]

Value(b, digits) == Prefix(b, digits, Len(digits))
=============================================================================
