----------------------------- MODULE Fractions ------------------------------
(***************************************************************************)
(* Exact arithmetic for the derived series and the basket returns, which   *)
(* the code computes in floats.  A fraction is <<numerator, denominator>>  *)
(* with a positive denominator.                                            *)
(***************************************************************************)
EXTENDS Integers, FiniteSetsExt

Magnitude(n) == IF n < 0 THEN -n ELSE n

Greater(x, y) == x[1] * y[2] > y[1] * x[2]
Minus(x, y) == <<x[1] * y[2] - y[1] * x[2], x[2] * y[2]>>

\* (x - y) / |y|, for a y that is not zero
Change(x, y) == <<x[1] * y[2] - y[1] * x[2], x[2] * Magnitude(y[1])>>

(***************************************************************************)
(* The values of a set of records brought to a common denominator d, the   *)
(* sum of their numerators, and the sum of the squares of these.           *)
(***************************************************************************)
CommonDenominator(h) == FoldSet(LAMBDA x, d : x.value[2] * d, 1, h)
Numerator(x, d) == x[1] * (d \div x[2])
Total(h, d) == MapThenSumSet(LAMBDA x : Numerator(x.value, d), h)
Squares(h, d) == MapThenSumSet(LAMBDA x : Numerator(x.value, d) * Numerator(x.value, d), h)

\* The mean of the values of a set of records that is not empty.
Mean(h) ==
  LET d == CommonDenominator(h) IN <<Total(h, d), Cardinality(h) * d>>
=============================================================================
