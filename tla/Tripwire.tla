------------------------------ MODULE Tripwire ------------------------------
(***************************************************************************)
(* Grading tripwires (tripwires/evaluate.py) and charting the derived      *)
(* series (api/routes/series.py) while figures arrive: in any order of     *)
(* months, late, and revised, as module Vintages promises of the           *)
(* observations table.                                                     *)
(***************************************************************************)
EXTENDS Derivatives

CONSTANTS
  Series,     \* the series that readings are recorded for
  LastPeriod, \* the months are 1..LastPeriod
  Figures,    \* the figures that may be recorded: integers and NoValue
  Tripwires,  \* the rows of the tripwires table
  Smooth,     \* the smoothing window of the charts
  LastDay,    \* bound: the last day of the calendar
  MaxEntries, \* bound: how many readings are recorded
  MaxOdd      \* bound: how many of them are out of the ordinary

Period == 1..LastPeriod
NoSeries == "none"
NoDirection == "none"
NoThreshold == <<>>

\* A row of the tripwires table: the series, the direction and the threshold
\* may be null, and any run length may be asked for.
TripwireRow ==
  [series : Series \cup {NoSeries}, metric : {"level", "yoy_pct", "mom_pct"},
   direction : {"above", "below", NoDirection}, threshold : {NoThreshold} \cup (Int \X (Nat \ {0})),
   consecutive_periods : Int]

ASSUME TripwireAssumption ==
  /\ Figures \subseteq Int \cup {NoValue}
  /\ NoValue \notin Int
  /\ LastPeriod \in Nat
  /\ Tripwires \subseteq TripwireRow
  /\ NoSeries \notin Series
  /\ Smooth \in Nat \ {0}
  /\ LastDay \in Nat /\ MaxOdd \in Nat

VARIABLES
  store,  \* the recorded readings
  today,  \* the calendar day
  odd     \* how many readings were out of the ordinary

vars == <<store, today, odd>>

Store == INSTANCE Vintages WITH Period <- Period, Value <- Figures

-----------------------------------------------------------------------------
(***************************************************************************)
(* Reading the table.                                                      *)
(***************************************************************************)
\* _latest_by_period: the latest vintage of each month of series s
Latest(S, s) ==
  {e \in S : /\ e.series = s
             /\ \A f \in S : f.series = s /\ f.period = e.period
                               => f.vintage <= e.vintage}

Points(S, s) == ToPoints(Latest(S, s))

MetricSeries(S, t) ==
  LET points == Points(S, t.series)
  IN  CASE t.metric = "level"   -> points
        [] t.metric = "yoy_pct" -> YoyPct(points)
        [] t.metric = "mom_pct" -> MomPct(points)

\* Variant: a value at the threshold qualifies.
Qualifies_atThreshold(x, t) ==
  IF t.direction = "above" THEN ~Greater(t.threshold, x) ELSE ~Greater(x, t.threshold)

Qualifies(x, t) ==
  IF t.direction = "above" THEN Greater(x, t.threshold) ELSE Greater(t.threshold, x)

\* Variant: the loop is left after its first point, whether it qualifies or not.
Run_newestOnly(f, t) ==
  {x \in f : Qualifies(x.value, t) /\ \A y \in f : y.period <= x.period}

\* The points the loop counts: from the newest back to the first that fails.
Run(f, t) == {x \in f : \A y \in f : y.period >= x.period => Qualifies(y.value, t)}

Newest(f) == CHOOSE x \in f : \A y \in f : y.period <= x.period

Distance(x, t) ==
  IF t.direction = "above" THEN Minus(x, t.threshold) ELSE Minus(t.threshold, x)

\* evaluate_tripwire
Unevaluable == [evaluable |-> FALSE, tripped |-> FALSE, run |-> {}]

Grade(f, t) ==
  [evaluable |-> TRUE,
   tripped   |-> Cardinality(Run(f, t)) >= t.consecutive_periods,
   run       |-> Run(f, t),
   latest    |-> Newest(f),
   distance  |-> Distance(Newest(f).value, t)]

Gradable(t) ==
  t.series # NoSeries /\ t.threshold # NoThreshold /\ t.direction # NoDirection

EvaluateTripwire(S, t) ==
  IF Gradable(t) /\ MetricSeries(S, t) # {}
    THEN Grade(MetricSeries(S, t), t)
    ELSE Unevaluable

\* get_series_metrics: the charts.  Smoothing is the same for each; the chart
\* of growth stands for all.
Charts(S, s) ==
  LET points == Points(S, s)
      yoy == YoyPct(points)
  IN  [level |-> points, yoy_pct |-> yoy, mom_pct |-> MomPct(points),
       acceleration |-> Acceleration(points), yoy_z_score |-> ZScores(yoy),
       smooth_yoy_pct |-> RollingMean(yoy, Smooth)]

-----------------------------------------------------------------------------
TypeOK ==
  /\ store \subseteq
       [series : Series, period : Period, vintage : 0..LastDay, value : Figures]
  /\ today \in 0..LastDay
  /\ odd \in 0..MaxOdd
  /\ \A e \in store : e.vintage <= today

Init == Store!Init /\ odd = 0

\* A reading is inserted, under the day d it was fetched, unless that vintage
\* of the month is there already (uq_observations_vintage).
Insert(s, p, v, d) ==
  LET e == [series |-> s, period |-> p, vintage |-> d, value |-> v]
  IN  /\ Cardinality(store) < MaxEntries
      /\ \A f \in store : ~Store!SameVintage(e, f)
      /\ store' = store \cup {e}

\* Out of the ordinary: a backfill of a month that was missed or a revision, a
\* transaction that commits after midnight, a reading that is null or zero.
Odd(s, p, v, d) ==
  \/ \E e \in store : e.series = s /\ e.period >= p
  \/ d < today
  \/ v \in {NoValue, 0}

Count(s, p, v, d) ==
  IF Odd(s, p, v, d) THEN odd < MaxOdd /\ odd' = odd + 1 ELSE UNCHANGED odd

\* Variant: stamped with a local day that is ahead of the calendar.
Record_ahead(s, p, v, d) ==
  /\ Insert(s, p, v, d + 1)
  /\ Count(s, p, v, d)
  /\ UNCHANGED today

Record(s, p, v, d) ==
  /\ Insert(s, p, v, d)
  /\ Count(s, p, v, d)
  /\ UNCHANGED today

Midnight ==
  /\ today < LastDay
  /\ Store!NextDay
  /\ UNCHANGED odd

Next ==
  \/ \E s \in Series, p \in Period, v \in Figures, d \in 0..today : Record(s, p, v, d)
  \/ Midnight

Spec == Init /\ [][Next]_vars

-----------------------------------------------------------------------------
\* What is recorded from month p on changes no chart before month p, smoothed
\* or not: no reading is made to look ordinary by what came after it.
SameBefore(p, c, d) == \A n \in DOMAIN c : Before(c[n], p) = Before(d[n], p)

Recorded(s) == {e \in store' \ store : e.series = s}

Causal ==
  [][\A s \in Series : \A p \in Period :
       (/\ \E e \in Recorded(s) : e.period = p
        /\ \A e \in Recorded(s) : e.period >= p)
         => SameBefore(p, Charts(store, s), Charts(store', s))]_vars

\* Grading again is the same as keeping count: a reading newer than all others
\* lengthens the run of every tripwire by one or ends it, or leaves it when
\* its metric cannot be computed.
Continued(t, old, new, p) ==
  LET added == {x \in new : x.period = p}
  IN  Run(new, t) =
        IF \A x \in added : Qualifies(x.value, t) THEN Run(old, t) \cup added ELSE {}

RunStep ==
  [][\A t \in Tripwires : Gradable(t) =>
       \A p \in Periods(Recorded(t.series)) :
         (/\ \A e \in store : e.series = t.series => e.period < p
          /\ \A e \in Recorded(t.series) : e.period = p)
           => Continued(t, MetricSeries(store, t), MetricSeries(store', t), p)]_vars

\* A verdict rests on the months of its run, the month that ended it and the
\* months these are compared with: what arrives for an earlier month, late or
\* revised, does not change it.
Reach(t) == IF t.metric = "yoy_pct" THEN YearLength
            ELSE IF t.metric = "mom_pct" THEN 1 ELSE 0

Bygone(t, f) ==
  LET ended == Periods(f \ Run(f, t))
  IN  {p \in Period : \E b \in ended : p + Reach(t) < b}

SettledVerdict ==
  [][\A t \in Tripwires :
       (/\ Gradable(t) /\ Recorded(t.series) # {}
        /\ Periods(Recorded(t.series)) \subseteq Bygone(t, MetricSeries(store, t)))
         => EvaluateTripwire(store', t) = EvaluateTripwire(store, t)]_vars

\* Of two predictions that exclude each other, and that ask for a run of one
\* month at least, never both trip; and one that trips is reported at a
\* positive distance, on its side of the threshold.
Demanding == {t \in Tripwires : t.consecutive_periods >= 1}

Exclusive(t, u) ==
  /\ t.series = u.series /\ t.metric = u.metric
  /\ t.direction = "above" /\ u.direction = "below"
  /\ t.threshold # NoThreshold /\ u.threshold # NoThreshold
  /\ ~Greater(u.threshold, t.threshold)

Tripped(t) == EvaluateTripwire(store, t).tripped

NeverBoth ==
  \A t \in Demanding : Tripped(t) =>
    /\ EvaluateTripwire(store, t).distance[1] > 0
    /\ \A u \in Demanding : Exclusive(t, u) => ~Tripped(u)

\* The z-score is calibrated by the series itself: the growth rates of another
\* series that are three times as large and one higher have the same scores
\* (z is off / sqrt(spread)); and nothing is divided by zero, whether a reading
\* is zero or the history is flat.
Louder(f) == {Point(x.period, <<3 * x.value[1] + x.value[2], x.value[2]>>) : x \in f}

SelfCalibrating ==
  \A s \in Series :
    LET points == Points(store, s)
        yoy == YoyPct(points)
    IN  /\ ZScores(Louder(yoy)) =
             {Point(z.period, [off |-> 3 * z.value.off, spread |-> 9 * z.value.spread]) :
                z \in ZScores(yoy)}
        /\ \A x \in yoy \cup MomPct(points) : x.value[2] > 0
        /\ \A z \in ZScores(yoy) : z.value.spread # 0

(***************************************************************************)
(* What the documents say and the code does not do.                        *)
(***************************************************************************)

\* tests/test_tripwires.py:3 "it is graded mechanically, a gap in the data
\* produces a missing comparison rather than a wrong one": no verdict counts
\* months as consecutive that have a month without comparison between them.
NoGapInRun ==
  \A t \in Tripwires :
    LET v == EvaluateTripwire(store, t)
    IN  v.tripped => \A p, q \in Periods(v.run) : p..q \subseteq Periods(v.run)
=============================================================================
