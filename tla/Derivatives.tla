---------------------------- MODULE Derivatives -----------------------------
(***************************************************************************)
(* The derived series of analysis/derivatives.py.                          *)
(*                                                                         *)
(* A list of Points, oldest first, is the set of its points: no two have   *)
(* the same period.  A period is the number of its month, a value is a     *)
(* fraction.  Growth is given as a part of the earlier reading, and not as *)
(* a percentage, which is the same number in another unit.                 *)
(***************************************************************************)
EXTENDS Fractions

CONSTANTS
  YearLength,  \* months in a year
  MinHistory,  \* min_history of z_scores
  NoValue      \* a reading that is null

ASSUME DerivativesAssumption ==
  /\ YearLength \in Nat \ {0}
  /\ MinHistory \in Nat \ {0}

Point(p, x) == [period |-> p, value |-> x]

Periods(f) == {x.period : x \in f}

\* The points of a list before a period, and up to and including it.
Before(f, p) == {x \in f : x.period < p}
UpTo(f, p) == {x \in f : x.period <= p}

-----------------------------------------------------------------------------
\* to_points, for a set of readings of different periods
ToPoints(readings) ==
  {Point(r.period, <<r.value, 1>>) : r \in {o \in readings : o.value # NoValue}}

\* Variant: found by its place in the list.
Matched_byPlace(f, g, months) ==
  {m \in f \X g : /\ m[2].period < m[1].period
                  /\ Cardinality({y \in g : m[2].period < y.period /\ y.period <= m[1].period})
                       = months}

\* The points of f with the point of g that is `months' earlier, by its period.
Matched(f, g, months) == {m \in f \X g : m[2].period = m[1].period - months}

\* growth_pct: a prior reading of zero gives no comparison
GrowthPct(f, months) ==
  {Point(m[1].period, Change(m[1].value, m[2].value)) :
     m \in {n \in Matched(f, f, months) : n[2].value[1] # 0}}

YoyPct(f) == GrowthPct(f, YearLength)

MomPct(f) == GrowthPct(f, 1)

Acceleration(f) ==
  LET yoy == YoyPct(f)
  IN  {Point(m[1].period, Minus(m[1].value, m[2].value)) : m \in Matched(yoy, yoy, 1)}

\* Variant: the spread is taken around zero and not around the mean.
Score_aroundZero(history, x) ==
  LET n == Cardinality(history)
      d == CommonDenominator(history) * x[2]
  IN  [off    |-> n * Numerator(x, d) - Total(history, d),
       spread |-> n * Squares(history, d)]

\* The score of value x against a history of n points:
\* (x - mean) / pstdev = (n x - sum) / sqrt(n sum of squares - sum^2), given as
\* the numerator and the square of the denominator.
Score(history, x) ==
  LET n == Cardinality(history)
      d == CommonDenominator(history) * x[2]
  IN  [off    |-> n * Numerator(x, d) - Total(history, d),
       spread |-> n * Squares(history, d) - Total(history, d) * Total(history, d)]

\* z_scores: each point against the points before it, if there are enough of
\* them and they are not all alike
Scored(f, x) ==
  LET history == Before(f, x.period)
  IN  /\ Cardinality(history) >= MinHistory
      /\ Score(history, x.value).spread # 0

\* Variant: against all other points.
ZScores_allOthers(f) ==
  {Point(x.period, Score(f \ {x}, x.value)) : x \in {y \in f : Scored(f, y)}}

ZScores(f) ==
  {Point(x.period, Score(Before(f, x.period), x.value)) : x \in {y \in f : Scored(f, y)}}

\* rolling_mean: over the last `window' points of the list
Chunk(f, window) ==
  {x \in f : Cardinality({y \in f : y.period > x.period}) < window}

RollingMean(f, window) ==
  {Point(x.period, Mean(Chunk(UpTo(f, x.period), window))) : x \in f}
=============================================================================
