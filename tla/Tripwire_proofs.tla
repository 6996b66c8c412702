-------------------------- MODULE Tripwire_proofs ---------------------------
(***************************************************************************)
(* Proofs about module Tripwire, for every series, figure and tripwire.    *)
(*                                                                         *)
(* Causal: two lists that agree before month p have derived series that    *)
(* agree before month p (one lemma for each function of derivatives.py),   *)
(* and a reading recorded for month p or later leaves the latest vintages  *)
(* before p as they were.                                                  *)
(*                                                                         *)
(* NeverBoth: two runs that are not empty have a point in common, and its  *)
(* value is not on both sides of the threshold; that takes denominators    *)
(* that are positive in every derived series.  The newest point is in      *)
(* every run that is not empty, so what trips is on its side of it.        *)
(*                                                                         *)
(* RunStep: a reading for the newest month adds at most its own point to   *)
(* a derived series, so the run before it is what it was.                  *)
(*                                                                         *)
(* SettledVerdict: a run is the points after the last one that ends it,    *)
(* and these do not depend on what arrives for a month outside of them.    *)
(*                                                                         *)
(* SelfCalibrating: the offset and the spread of a score are linear in the *)
(* growth rates, by the lemmas of Sums on how a fold follows a renaming    *)
(* and a linear change of what it sums.                                    *)
(***************************************************************************)
EXTENDS Tripwire, Sums

\* Lists of points with a period.
IsList(f) == \A x \in f : x.period \in Int

\* Lists of points with a fraction for a value.
IsGraph(f) == \A x \in f : x.period \in Int /\ x.value \in Fraction

-----------------------------------------------------------------------------
(***************************************************************************)
(* What happens from a month on does not reach the months before it.       *)
(***************************************************************************)
LEMMA BeforeMatched ==
  ASSUME NEW f, NEW g, NEW u, NEW v, NEW p \in Int, NEW months \in Nat,
         IsList(f), IsList(g), IsList(u), IsList(v),
         Before(f, p) = Before(g, p), Before(u, p) = Before(v, p),
         NEW m \in Matched(f, u, months), m[1].period < p
  PROVE  m \in Matched(g, v, months)
<1>1. m \in f \X u /\ m[2].period = m[1].period - months
  BY DEF Matched
<1>2. m[1] \in f /\ m[2] \in u /\ m = <<m[1], m[2]>>
  BY <1>1
<1>3. m[1].period \in Int /\ m[2].period < p
  BY <1>1, <1>2 DEF IsList
<1>4. m[1] \in g
  BY <1>2 DEF Before
<1>5. m[2] \in v
  BY <1>2, <1>3 DEF Before
<1> QED BY <1>1, <1>2, <1>4, <1>5 DEF Matched

LEMMA GrowthList ==
  ASSUME NEW f, NEW months, IsList(f)
  PROVE  IsList(GrowthPct(f, months))
<1> SUFFICES ASSUME NEW x \in GrowthPct(f, months)
             PROVE  x.period \in Int
  BY DEF IsList
<1>1. PICK m \in Matched(f, f, months) : x = Point(m[1].period, Change(m[1].value, m[2].value))
  BY DEF GrowthPct
<1>2. m[1] \in f
  BY DEF Matched
<1> QED BY <1>1, <1>2 DEF Point, IsList

LEMMA BeforeGrowthOneWay ==
  ASSUME NEW f, NEW g, NEW p \in Int, NEW months \in Nat,
         IsList(f), IsList(g), Before(f, p) = Before(g, p)
  PROVE  Before(GrowthPct(f, months), p) \subseteq Before(GrowthPct(g, months), p)
<1> SUFFICES ASSUME NEW x \in GrowthPct(f, months), x.period < p
             PROVE  x \in GrowthPct(g, months)
  BY DEF Before
<1>1. PICK m \in Matched(f, f, months) :
        /\ m[2].value[1] # 0
        /\ x = Point(m[1].period, Change(m[1].value, m[2].value))
  BY DEF GrowthPct
<1>2. m[1].period < p
  BY <1>1 DEF Point
<1>3. m \in Matched(g, g, months)
  BY <1>2, BeforeMatched
<1> QED BY <1>1, <1>3 DEF GrowthPct

LEMMA BeforeGrowth ==
  ASSUME NEW f, NEW g, NEW p \in Int, NEW months \in Nat,
         IsList(f), IsList(g), Before(f, p) = Before(g, p)
  PROVE  Before(GrowthPct(f, months), p) = Before(GrowthPct(g, months), p)
<1>1. Before(GrowthPct(f, months), p) \subseteq Before(GrowthPct(g, months), p)
  BY BeforeGrowthOneWay
<1>2. Before(GrowthPct(g, months), p) \subseteq Before(GrowthPct(f, months), p)
  BY BeforeGrowthOneWay
<1> QED BY <1>1, <1>2

LEMMA BeforeAccelerationOneWay ==
  ASSUME NEW f, NEW g, NEW p \in Int,
         IsList(f), IsList(g), Before(f, p) = Before(g, p)
  PROVE  Before(Acceleration(f), p) \subseteq Before(Acceleration(g), p)
<1> DEFINE yf == YoyPct(f)
           yg == YoyPct(g)
<1>1. IsList(yf) /\ IsList(yg) /\ Before(yf, p) = Before(yg, p)
  BY GrowthList, BeforeGrowth, DerivativesAssumption DEF YoyPct
<1> SUFFICES ASSUME NEW x \in Acceleration(f), x.period < p
             PROVE  x \in Acceleration(g)
  BY DEF Before
<1>2. PICK m \in Matched(yf, yf, 1) : x = Point(m[1].period, Minus(m[1].value, m[2].value))
  BY DEF Acceleration
<1>3. m[1].period < p
  BY <1>2 DEF Point
<1>4. m \in Matched(yg, yg, 1)
  <2> HIDE DEF yf, yg
  <2> QED BY <1>1, <1>3, BeforeMatched
<1> QED BY <1>2, <1>4 DEF Acceleration

LEMMA BeforeAcceleration ==
  ASSUME NEW f, NEW g, NEW p \in Int,
         IsList(f), IsList(g), Before(f, p) = Before(g, p)
  PROVE  Before(Acceleration(f), p) = Before(Acceleration(g), p)
BY BeforeAccelerationOneWay

\* Agreeing before p is agreeing before, and up to, every earlier month.
LEMMA Earlier ==
  ASSUME NEW f, NEW g, NEW p \in Int, NEW q \in Int, q < p,
         IsList(f), IsList(g), Before(f, p) = Before(g, p)
  PROVE  Before(f, q) = Before(g, q) /\ UpTo(f, q) = UpTo(g, q)
<1>1. \A x \in f : x.period <= q => x \in g
  BY DEF Before, IsList
<1>2. \A x \in g : x.period <= q => x \in f
  BY DEF Before, IsList
<1>3. UpTo(f, q) = UpTo(g, q)
  BY <1>1, <1>2 DEF UpTo
<1>4. Before(f, q) = Before(g, q)
  BY <1>1, <1>2 DEF Before, IsList
<1> QED BY <1>3, <1>4

LEMMA BeforeZScoresOneWay ==
  ASSUME NEW f, NEW g, NEW p \in Int,
         IsList(f), IsList(g), Before(f, p) = Before(g, p)
  PROVE  Before(ZScores(f), p) \subseteq Before(ZScores(g), p)
<1> SUFFICES ASSUME NEW z \in ZScores(f), z.period < p
             PROVE  z \in ZScores(g)
  BY DEF Before
<1>1. PICK x \in f : /\ Scored(f, x)
                     /\ z = Point(x.period, Score(Before(f, x.period), x.value))
  BY DEF ZScores
<1>2. x.period \in Int /\ x.period < p
  BY <1>1 DEF Point, IsList
<1>3. x \in g
  BY <1>2 DEF Before
<1>4. Before(f, x.period) = Before(g, x.period)
  BY <1>2, Earlier
<1>5. Scored(g, x)
  BY <1>1, <1>4 DEF Scored
<1> QED BY <1>1, <1>3, <1>4, <1>5 DEF ZScores

LEMMA BeforeZScores ==
  ASSUME NEW f, NEW g, NEW p \in Int,
         IsList(f), IsList(g), Before(f, p) = Before(g, p)
  PROVE  Before(ZScores(f), p) = Before(ZScores(g), p)
BY BeforeZScoresOneWay

LEMMA BeforeRollingMeanOneWay ==
  ASSUME NEW f, NEW g, NEW p \in Int, NEW window,
         IsList(f), IsList(g), Before(f, p) = Before(g, p)
  PROVE  Before(RollingMean(f, window), p) \subseteq Before(RollingMean(g, window), p)
<1> SUFFICES ASSUME NEW z \in RollingMean(f, window), z.period < p
             PROVE  z \in RollingMean(g, window)
  BY DEF Before
<1>1. PICK x \in f : z = Point(x.period, Mean(Chunk(UpTo(f, x.period), window)))
  BY DEF RollingMean
<1>2. x.period \in Int /\ x.period < p
  BY <1>1 DEF Point, IsList
<1>3. x \in g
  BY <1>2 DEF Before
<1>4. UpTo(f, x.period) = UpTo(g, x.period)
  BY <1>2, Earlier
<1> QED BY <1>1, <1>3, <1>4 DEF RollingMean

LEMMA BeforeRollingMean ==
  ASSUME NEW f, NEW g, NEW p \in Int, NEW window,
         IsList(f), IsList(g), Before(f, p) = Before(g, p)
  PROVE  Before(RollingMean(f, window), p) = Before(RollingMean(g, window), p)
BY BeforeRollingMeanOneWay

-----------------------------------------------------------------------------
(***************************************************************************)
(* A reading for month p or later, and the points before p.                *)
(***************************************************************************)
LEMMA PointsList ==
  ASSUME NEW S, NEW s, \A e \in S : e.period \in Int
  PROVE  IsList(Points(S, s))
<1> SUFFICES ASSUME NEW x \in Points(S, s)
             PROVE  x.period \in Int
  BY DEF IsList
<1>1. PICK r \in Latest(S, s) : x = Point(r.period, <<r.value, 1>>)
  BY DEF Points, ToPoints
<1> QED BY <1>1 DEF Latest, Point

\* Two states of the table with the same entries of series s before month p.
SameEntries(S, T, s, p) ==
  \A e : e.series = s /\ e.period < p => (e \in S <=> e \in T)

LEMMA BeforePointsOneWay ==
  ASSUME NEW S, NEW T, NEW s, NEW p, SameEntries(S, T, s, p)
  PROVE  Before(Points(S, s), p) \subseteq Before(Points(T, s), p)
<1> SUFFICES ASSUME NEW x \in Points(S, s), x.period < p
             PROVE  x \in Points(T, s)
  BY DEF Before
<1>1. PICK r \in Latest(S, s) : r.value # NoValue /\ x = Point(r.period, <<r.value, 1>>)
  BY DEF Points, ToPoints
<1>2. r \in S /\ r.series = s /\ r.period < p
  BY <1>1 DEF Latest, Point
<1>3. r \in T
  BY <1>2 DEF SameEntries
<1>4. ASSUME NEW e \in T, e.series = s, e.period = r.period
      PROVE  e.vintage <= r.vintage
  <2>1. e \in S
    BY <1>2, <1>4 DEF SameEntries
  <2> QED BY <2>1, <1>4 DEF Latest
<1>5. r \in Latest(T, s)
  BY <1>2, <1>3, <1>4 DEF Latest
<1> QED BY <1>1, <1>5 DEF Points, ToPoints

LEMMA BeforePoints ==
  ASSUME NEW S, NEW T, NEW s, NEW p, SameEntries(S, T, s, p)
  PROVE  Before(Points(S, s), p) = Before(Points(T, s), p)
<1>1. Before(Points(S, s), p) \subseteq Before(Points(T, s), p)
  BY BeforePointsOneWay
<1>2. SameEntries(T, S, s, p)
  BY DEF SameEntries
<1>3. Before(Points(T, s), p) \subseteq Before(Points(S, s), p)
  BY <1>2, BeforePointsOneWay
<1> QED BY <1>1, <1>3

LEMMA BeforeCharts ==
  ASSUME NEW S, NEW T, NEW s, NEW p \in Int, SameEntries(S, T, s, p),
         \A e \in S : e.period \in Int, \A e \in T : e.period \in Int
  PROVE  SameBefore(p, Charts(S, s), Charts(T, s))
<1> DEFINE f == Points(S, s)
           g == Points(T, s)
<1>1. IsList(f) /\ IsList(g) /\ Before(f, p) = Before(g, p)
  BY PointsList, BeforePoints
<1> HIDE DEF f, g
<1>2. /\ IsList(YoyPct(f)) /\ IsList(YoyPct(g))
      /\ Before(YoyPct(f), p) = Before(YoyPct(g), p)
  BY <1>1, GrowthList, BeforeGrowth, DerivativesAssumption DEF YoyPct
<1>3. Before(MomPct(f), p) = Before(MomPct(g), p)
  BY <1>1, BeforeGrowth DEF MomPct
<1>4. Before(Acceleration(f), p) = Before(Acceleration(g), p)
  BY <1>1, BeforeAcceleration
<1>5. Before(ZScores(YoyPct(f)), p) = Before(ZScores(YoyPct(g)), p)
  BY <1>2, BeforeZScores
<1>6. Before(RollingMean(YoyPct(f), Smooth), p) = Before(RollingMean(YoyPct(g), Smooth), p)
  BY <1>2, BeforeRollingMean
<1> QED BY <1>1, <1>2, <1>3, <1>4, <1>5, <1>6 DEF SameBefore, Charts, f, g

-----------------------------------------------------------------------------
(***************************************************************************)
(* Types.                                                                  *)
(***************************************************************************)
THEOREM TypeCorrect == Spec => []TypeOK
<1>1. Init => TypeOK
  BY TripwireAssumption DEF Init, Store!Init, TypeOK
<1>2. TypeOK /\ [Next]_vars => TypeOK'
  <2> SUFFICES ASSUME TypeOK, [Next]_vars PROVE TypeOK'
    OBVIOUS
  <2>1. CASE \E s \in Series, p \in Period, v \in Figures, d \in 0..today : Record(s, p, v, d)
    <3>1. PICK s \in Series, p \in Period, v \in Figures, d \in 0..today : Record(s, p, v, d)
      BY <2>1
    <3>2. odd' \in 0..MaxOdd
      BY <3>1, TripwireAssumption DEF Record, Count, TypeOK
    <3> DEFINE e == [series |-> s, period |-> p, vintage |-> d, value |-> v]
    <3>3. store' = store \cup {e} /\ today' = today
      BY <3>1 DEF Record, Insert
    <3>4. d \in 0..LastDay /\ d <= today
      BY TripwireAssumption DEF TypeOK
    <3> QED BY <3>2, <3>3, <3>4 DEF TypeOK
  <2>2. CASE Midnight
    BY <2>2, TripwireAssumption DEF Midnight, Store!NextDay, TypeOK
  <2>3. CASE UNCHANGED vars
    BY <2>3 DEF vars, TypeOK
  <2> QED BY <2>1, <2>2, <2>3 DEF Next
<1> QED BY <1>1, <1>2, PTL DEF Spec

\* No step takes a reading away.
LEMMA Kept ==
  ASSUME [Next]_vars
  PROVE  store \subseteq store'
BY DEF Next, vars, Record, Insert, Midnight, Store!NextDay

\* No chart changes before the month a reading is recorded for.
THEOREM NoLookAhead == Spec => Causal
<1>1. ASSUME TypeOK, TypeOK', [Next]_vars, NEW s \in Series, NEW p \in Period,
             \A e \in Recorded(s) : e.period >= p
      PROVE  SameBefore(p, Charts(store, s), Charts(store', s))
  <2>1. p \in Int
    BY TripwireAssumption DEF Period
  <2>2. (\A e \in store : e.period \in Int) /\ (\A e \in store' : e.period \in Int)
    BY <1>1 DEF TypeOK, Period
  <2>3. SameEntries(store, store', s, p)
    BY <1>1, <2>1, <2>2, Kept DEF SameEntries, Recorded
  <2> QED BY <2>1, <2>2, <2>3, BeforeCharts
<1>2. TypeOK /\ TypeOK' /\ [Next]_vars =>
        [\A s \in Series : \A p \in Period :
           (/\ \E e \in Recorded(s) : e.period = p
            /\ \A e \in Recorded(s) : e.period >= p)
             => SameBefore(p, Charts(store, s), Charts(store', s))]_vars
  BY <1>1
<1> QED BY <1>2, TypeCorrect, PTL DEF Spec, Causal

-----------------------------------------------------------------------------
(***************************************************************************)
(* Both sides of a threshold.                                              *)
(***************************************************************************)
\* The order of fractions is transitive: x above t and below u puts u above t.
LEMMA Between ==
  ASSUME NEW x \in Fraction, NEW t \in Fraction, NEW u \in Fraction,
         Greater(x, t), Greater(u, x)
  PROVE  Greater(u, t)
<1> DEFINE a == x[1]  b == x[2]  c == t[1]  d == t[2]  e == u[1]  f == u[2]
<1>1. a \in Int /\ b \in Int /\ c \in Int /\ d \in Int /\ e \in Int /\ f \in Int
  BY DEF Fraction
<1>2. b > 0 /\ d > 0 /\ f > 0
  BY DEF Fraction
<1>3. a * d > c * b /\ e * b > a * f
  BY DEF Greater
<1> HIDE DEF a, b, c, d, e, f
<1>4. (a * d) * f > (c * b) * f
  BY <1>1, <1>2, <1>3
<1>5. (e * b) * d > (a * f) * d
  BY <1>1, <1>2, <1>3
<1>6. (a * f) * d = (a * d) * f
  BY <1>1
<1>7. (e * b) * d > (c * b) * f
  BY <1>1, <1>4, <1>5, <1>6
<1>8. (e * d) * b > (c * f) * b
  BY <1>1, <1>7
<1>9. e * d > c * f
  BY <1>1, <1>2, <1>8
<1> QED BY <1>9 DEF Greater, a, b, c, d, e, f

LEMMA GrowthGraph ==
  ASSUME NEW f, NEW months, IsGraph(f)
  PROVE  IsGraph(GrowthPct(f, months))
<1> SUFFICES ASSUME NEW x \in GrowthPct(f, months)
             PROVE  x.period \in Int /\ x.value \in Fraction
  BY DEF IsGraph
<1>1. PICK m \in Matched(f, f, months) :
        /\ m[2].value[1] # 0
        /\ x = Point(m[1].period, Change(m[1].value, m[2].value))
  BY DEF GrowthPct
<1>2. m[1] \in f /\ m[2] \in f
  BY DEF Matched
<1> DEFINE a == m[1].value
           b == m[2].value
<1>3. m[1].period \in Int /\ a \in Fraction /\ b \in Fraction
  BY <1>2 DEF IsGraph
<1>4. a[1] \in Int /\ a[2] \in Int /\ a[2] > 0 /\ b[1] \in Int /\ b[2] \in Int
  BY <1>3 DEF Fraction
<1>5. Magnitude(b[1]) \in Int /\ Magnitude(b[1]) > 0
  BY <1>1, <1>4 DEF Magnitude
<1> HIDE DEF a, b
<1>6. a[2] * Magnitude(b[1]) \in Nat \ {0}
  BY <1>4, <1>5
<1>7. Change(a, b) \in Fraction
  BY <1>4, <1>6 DEF Change, Fraction
<1> QED BY <1>1, <1>3, <1>7 DEF Point, a, b

LEMMA PointsGraph ==
  ASSUME TypeOK, NEW s
  PROVE  IsGraph(Points(store, s))
<1> SUFFICES ASSUME NEW x \in Points(store, s)
             PROVE  x.period \in Int /\ x.value \in Fraction
  BY DEF IsGraph
<1>1. PICK r \in Latest(store, s) :
        r.value # NoValue /\ x = Point(r.period, <<r.value, 1>>)
  BY DEF Points, ToPoints
<1>2. /\ r \in [series : Series, period : Period, vintage : 0..LastDay, value : Figures]
      /\ r.value # NoValue
  BY <1>1 DEF Latest, TypeOK
<1>3. r.period \in Period /\ r.value \in Figures
  BY <1>2
<1>4. LastPeriod \in Nat /\ Figures \subseteq Int \cup {NoValue}
  BY TripwireAssumption
<1>5. r.period \in Int
  BY <1>3, <1>4 DEF Period
<1>6. r.value \in Int
  BY <1>1, <1>3, <1>4
<1> QED BY <1>1, <1>5, <1>6 DEF Point, Fraction

LEMMA MetricGraph ==
  ASSUME TypeOK, NEW t \in Tripwires
  PROVE  IsGraph(MetricSeries(store, t))
<1>1. IsGraph(Points(store, t.series))
  BY PointsGraph
<1>2. t.metric \in {"level", "yoy_pct", "mom_pct"}
  BY TripwireAssumption DEF TripwireRow
<1>3. IsGraph(YoyPct(Points(store, t.series))) /\ IsGraph(MomPct(Points(store, t.series)))
  BY <1>1, GrowthGraph DEF YoyPct, MomPct
<1> QED BY <1>1, <1>2, <1>3 DEF MetricSeries

\* What is true of every point's month in the readings is true of it in the
\* metrics of them.
LEMMA MetricPeriods ==
  ASSUME NEW S, NEW t \in Tripwires, NEW x \in MetricSeries(S, t)
  PROVE  \E e \in S : e.series = t.series /\ e.period = x.period
<1>1. ASSUME NEW y \in Points(S, t.series)
      PROVE  \E e \in S : e.series = t.series /\ e.period = y.period
  BY DEF Points, ToPoints, Latest, Point
<1>2. ASSUME NEW months, NEW y \in GrowthPct(Points(S, t.series), months)
      PROVE  \E z \in Points(S, t.series) : z.period = y.period
  <2>1. PICK m \in Matched(Points(S, t.series), Points(S, t.series), months) :
          y = Point(m[1].period, Change(m[1].value, m[2].value))
    BY DEF GrowthPct
  <2>2. m[1] \in Points(S, t.series)
    BY DEF Matched
  <2> QED BY <2>1, <2>2 DEF Point
<1>3. t.metric \in {"level", "yoy_pct", "mom_pct"}
  BY TripwireAssumption DEF TripwireRow
<1>4. x \in Points(S, t.series) \/ \E months : x \in GrowthPct(Points(S, t.series), months)
  BY <1>3 DEF MetricSeries, YoyPct, MomPct
<1> QED BY <1>1, <1>2, <1>4

\* A tripwire that trips has a run when it asks for one month at least.
LEMMA TrippedRun ==
  ASSUME NEW t \in Demanding, Tripped(t)
  PROVE  /\ Gradable(t) /\ Run(MetricSeries(store, t), t) # {}
         /\ EvaluateTripwire(store, t) = Grade(MetricSeries(store, t), t)
<1> DEFINE f == MetricSeries(store, t)
<1>1. Gradable(t) /\ f # {} /\ EvaluateTripwire(store, t) = Grade(f, t)
  BY DEF Tripped, EvaluateTripwire, Unevaluable
<1>2. Cardinality(Run(f, t)) >= t.consecutive_periods
  <2>1. Grade(f, t).tripped = (Cardinality(Run(f, t)) >= t.consecutive_periods)
    BY DEF Grade
  <2>2. Grade(f, t).tripped
    BY <1>1 DEF Tripped
  <2> QED BY <2>1, <2>2
<1>3. t.consecutive_periods \in Int /\ t.consecutive_periods >= 1
  BY TripwireAssumption DEF Demanding, TripwireRow
<1>4. Cardinality({}) = 0
  BY FS_EmptySet
<1> QED BY <1>1, <1>2, <1>3, <1>4

\* The newest point is in every run that is not empty.
LEMMA NewestInRun ==
  ASSUME TypeOK, NEW t \in Tripwires, Run(MetricSeries(store, t), t) # {}
  PROVE  /\ Newest(MetricSeries(store, t)) \in MetricSeries(store, t)
         /\ Qualifies(Newest(MetricSeries(store, t)).value, t)
<1> DEFINE f == MetricSeries(store, t)
           n == Newest(f)
<1>1. \A x \in f : x.period \in Int /\ x.period <= LastPeriod
  BY MetricPeriods, TripwireAssumption DEF TypeOK, Period
<1>2. PICK x \in Run(f, t) : x \in f
  BY DEF Run
<1> HIDE DEF f
<1>3. PICK m \in Periods(f) : \A k \in Periods(f) : k <= m
  <2>1. /\ Periods(f) \in SUBSET Int /\ Periods(f) # {}
        /\ LastPeriod \in Int /\ \A k \in Periods(f) : k <= LastPeriod
    BY <1>1, <1>2, TripwireAssumption DEF Periods
  <2> QED BY <2>1, GreatestBelow
<1>4. \E y \in f : \A z \in f : z.period <= y.period
  BY <1>3 DEF Periods
<1>5. n \in f /\ \A z \in f : z.period <= n.period
  BY <1>4 DEF Newest
<1>6. n.period >= x.period
  BY <1>1, <1>2, <1>5
<1>7. Qualifies(n.value, t)
  BY <1>2, <1>5, <1>6 DEF Run
<1> QED BY <1>5, <1>7 DEF f

\* What qualifies is at a positive distance.
LEMMA OnItsSide ==
  ASSUME NEW t, t.threshold \in Fraction, NEW x \in Fraction, Qualifies(x, t)
  PROVE  Distance(x, t)[1] > 0
<1> DEFINE a == x[1] * t.threshold[2]
           b == t.threshold[1] * x[2]
<1>1. a \in Int /\ b \in Int
  BY DEF Fraction
<1>2. /\ Greater(x, t.threshold) <=> a > b
      /\ Greater(t.threshold, x) <=> b > a
      /\ Minus(x, t.threshold)[1] = a - b
      /\ Minus(t.threshold, x)[1] = b - a
  BY DEF Greater, Minus
<1> HIDE DEF a, b
<1>3. CASE t.direction = "above"
  <2>1. a > b /\ Distance(x, t) = Minus(x, t.threshold)
    BY <1>2, <1>3 DEF Qualifies, Distance
  <2> QED BY <1>1, <1>2, <2>1
<1>4. CASE t.direction # "above"
  <2>1. b > a /\ Distance(x, t) = Minus(t.threshold, x)
    BY <1>2, <1>4 DEF Qualifies, Distance
  <2> QED BY <1>1, <1>2, <2>1
<1> QED BY <1>3, <1>4

\* Predictions that exclude each other do not both trip, and one that trips is
\* at a positive distance from its threshold.
THEOREM OneSide == Spec => []NeverBoth
<1>1. ASSUME TypeOK, NEW t \in Demanding, NEW u \in Demanding, Exclusive(t, u),
             Tripped(t), Tripped(u)
      PROVE  FALSE
  <2> DEFINE f == MetricSeries(store, t)
  <2>1. f = MetricSeries(store, u)
    BY <1>1 DEF Exclusive, MetricSeries
  <2>2. PICK x \in Run(f, t) : TRUE
    BY <1>1, TrippedRun
  <2>3. PICK y \in Run(f, u) : TRUE
    BY <1>1, <2>1, TrippedRun
  <2>4. \A z \in f : z.period \in Int /\ z.value \in Fraction
    BY <1>1, MetricGraph DEF Demanding, IsGraph
  <2> HIDE DEF f
  <2>5. x \in f /\ y \in f
    BY DEF Run
  <2>6. PICK z \in f : Qualifies(z.value, t) /\ Qualifies(z.value, u)
    <3>1. CASE x.period >= y.period
      BY <2>4, <2>5, <3>1 DEF Run
    <3>2. CASE y.period >= x.period
      BY <2>4, <2>5, <3>2 DEF Run
    <3> QED BY <2>4, <2>5, <3>1, <3>2
  <2>7. Greater(z.value, t.threshold) /\ Greater(u.threshold, z.value)
    BY <1>1, <2>6 DEF Exclusive, Qualifies
  <2>8. t.threshold \in Fraction /\ u.threshold \in Fraction
    BY <1>1, TripwireAssumption DEF Demanding, TripwireRow, Exclusive, Fraction
  <2>9. Greater(u.threshold, t.threshold)
    BY <2>4, <2>7, <2>8, Between
  <2> QED BY <1>1, <2>9 DEF Exclusive
<1>2. ASSUME TypeOK, NEW t \in Demanding, Tripped(t)
      PROVE  EvaluateTripwire(store, t).distance[1] > 0
  <2> DEFINE f == MetricSeries(store, t)
  <2>1. t \in Tripwires
    BY DEF Demanding
  <2>2. /\ Gradable(t) /\ Run(f, t) # {}
        /\ EvaluateTripwire(store, t).distance = Distance(Newest(f).value, t)
    BY <1>2, TrippedRun DEF Grade
  <2>3. Newest(f).value \in Fraction /\ Qualifies(Newest(f).value, t)
    BY <1>2, <2>1, <2>2, NewestInRun, MetricGraph DEF IsGraph
  <2>4. t.threshold \in Fraction
    BY <2>1, <2>2, TripwireAssumption DEF TripwireRow, Gradable, Fraction
  <2> HIDE DEF f
  <2> QED BY <2>2, <2>3, <2>4, OnItsSide
<1>3. TypeOK => NeverBoth
  BY <1>1, <1>2 DEF NeverBoth
<1> QED BY <1>3, TypeCorrect, PTL

-----------------------------------------------------------------------------
(***************************************************************************)
(* Grading again and keeping count.                                        *)
(***************************************************************************)
LEMMA BeforeMetric ==
  ASSUME NEW S, NEW T, NEW t \in Tripwires, NEW p \in Int, SameEntries(S, T, t.series, p),
         \A e \in S : e.period \in Int, \A e \in T : e.period \in Int
  PROVE  Before(MetricSeries(S, t), p) = Before(MetricSeries(T, t), p)
<1> DEFINE f == Points(S, t.series)
           g == Points(T, t.series)
<1>1. IsList(f) /\ IsList(g) /\ Before(f, p) = Before(g, p)
  BY PointsList, BeforePoints
<1>2. t.metric \in {"level", "yoy_pct", "mom_pct"}
  BY TripwireAssumption DEF TripwireRow
<1> HIDE DEF f, g
<1>3. /\ Before(YoyPct(f), p) = Before(YoyPct(g), p)
      /\ Before(MomPct(f), p) = Before(MomPct(g), p)
  BY <1>1, BeforeGrowth, DerivativesAssumption DEF YoyPct, MomPct
<1> QED BY <1>1, <1>2, <1>3 DEF MetricSeries, f, g

\* A run and the points of one more month.
LEMMA RunGoesOn ==
  ASSUME NEW t, NEW f, NEW g, NEW p \in Int,
         \A x \in f : x.period \in Int /\ x.period < p,
         \A x \in g : x.period \in Int /\ x.period <= p,
         Before(f, p) = Before(g, p)
  PROVE  Continued(t, f, g, p)
<1> DEFINE added == {x \in g : x.period = p}
<1>1. f \subseteq g /\ added \subseteq g /\ \A x \in g : x \in f \/ x \in added
  BY DEF Before
<1>2. CASE \A x \in added : Qualifies(x.value, t)
  <2>1. \A x \in added : x \in Run(g, t)
    BY <1>2 DEF Run
  <2>2. \A x \in f : x \in Run(f, t) <=> x \in Run(g, t)
    BY <1>1, <1>2 DEF Run
  <2>3. Run(g, t) \subseteq g /\ Run(f, t) \subseteq f
    BY DEF Run
  <2>4. Run(g, t) = Run(f, t) \cup added
    <3> HIDE DEF added
    <3> QED BY <1>1, <2>1, <2>2, <2>3
  <2> QED BY <1>2, <2>4 DEF Continued
<1>3. CASE ~\A x \in added : Qualifies(x.value, t)
  <2>1. Run(g, t) = {}
    BY <1>3 DEF Run
  <2> QED BY <1>3, <2>1 DEF Continued
<1> QED BY <1>2, <1>3

\* A reading for a newer month than all before it lengthens every run by one, or
\* ends it, or leaves it when its metric cannot be computed: what is graded from
\* the whole table is what keeping count would have given.
THEOREM RunsGoOn == Spec => RunStep
<1>1. ASSUME TypeOK, TypeOK', [Next]_vars, NEW t \in Tripwires,
             NEW p \in Periods(Recorded(t.series)),
             \A e \in store : e.series = t.series => e.period < p,
             \A e \in Recorded(t.series) : e.period = p
      PROVE  Continued(t, MetricSeries(store, t), MetricSeries(store', t), p)
  <2>1. (\A e \in store : e.period \in Int) /\ (\A e \in store' : e.period \in Int)
    BY <1>1, TripwireAssumption DEF TypeOK, Period
  <2>2. p \in Int
    BY <2>1 DEF Periods, Recorded
  <2>3. SameEntries(store, store', t.series, p)
    BY <1>1, <2>1, <2>2, Kept DEF SameEntries, Recorded
  <2>4. \A e \in store' : e.series = t.series => e.period <= p
    BY <1>1, <2>1, <2>2 DEF Recorded
  <2> DEFINE f == MetricSeries(store, t)
             g == MetricSeries(store', t)
  <2>5. \A x \in f : x.period \in Int /\ x.period < p
    BY <1>1, <2>1, MetricPeriods
  <2>6. \A x \in g : x.period \in Int /\ x.period <= p
    BY <2>1, <2>4, MetricPeriods
  <2>7. Before(f, p) = Before(g, p)
    BY <2>1, <2>2, <2>3, BeforeMetric
  <2> HIDE DEF f, g
  <2>8. Continued(t, f, g, p)
    BY <2>2, <2>5, <2>6, <2>7, RunGoesOn
  <2> QED BY <2>8 DEF f, g
<1>2. TypeOK /\ TypeOK' /\ [Next]_vars =>
        [\A t \in Tripwires : Gradable(t) =>
           \A p \in Periods(Recorded(t.series)) :
             (/\ \A e \in store : e.series = t.series => e.period < p
              /\ \A e \in Recorded(t.series) : e.period = p)
               => Continued(t, MetricSeries(store, t), MetricSeries(store', t), p)]_vars
  BY <1>1
<1> QED BY <1>2, TypeCorrect, PTL DEF Spec, RunStep

-----------------------------------------------------------------------------
(***************************************************************************)
(* What happens up to a month does not reach the months after it, but for  *)
(* those that are compared with it.                                        *)
(***************************************************************************)
After(f, p) == {x \in f : x.period > p}

\* Two states of the table with the same entries of series s after month p.
LaterEntries(S, T, s, p) ==
  \A e : e.series = s /\ e.period > p => (e \in S <=> e \in T)

LEMMA AfterPointsOneWay ==
  ASSUME NEW S, NEW T, NEW s, NEW p, LaterEntries(S, T, s, p)
  PROVE  After(Points(S, s), p) \subseteq After(Points(T, s), p)
<1> SUFFICES ASSUME NEW x \in Points(S, s), x.period > p
             PROVE  x \in Points(T, s)
  BY DEF After
<1>1. PICK r \in Latest(S, s) : r.value # NoValue /\ x = Point(r.period, <<r.value, 1>>)
  BY DEF Points, ToPoints
<1>2. r \in S /\ r.series = s /\ r.period > p
  BY <1>1 DEF Latest, Point
<1>3. r \in T
  BY <1>2 DEF LaterEntries
<1>4. ASSUME NEW e \in T, e.series = s, e.period = r.period
      PROVE  e.vintage <= r.vintage
  <2>1. e \in S
    BY <1>2, <1>4 DEF LaterEntries
  <2> QED BY <2>1, <1>4 DEF Latest
<1>5. r \in Latest(T, s)
  BY <1>2, <1>3, <1>4 DEF Latest
<1> QED BY <1>1, <1>5 DEF Points, ToPoints

LEMMA AfterPoints ==
  ASSUME NEW S, NEW T, NEW s, NEW p, LaterEntries(S, T, s, p)
  PROVE  After(Points(S, s), p) = After(Points(T, s), p)
<1>1. LaterEntries(T, S, s, p)
  BY DEF LaterEntries
<1> QED BY <1>1, AfterPointsOneWay

LEMMA AfterGrowthOneWay ==
  ASSUME NEW f, NEW g, NEW p \in Int, NEW months \in Nat,
         IsList(f), IsList(g), After(f, p) = After(g, p)
  PROVE  After(GrowthPct(f, months), p + months) \subseteq After(GrowthPct(g, months), p + months)
<1> SUFFICES ASSUME NEW x \in GrowthPct(f, months), x.period > p + months
             PROVE  x \in GrowthPct(g, months)
  BY DEF After
<1>1. PICK m \in Matched(f, f, months) :
        /\ m[2].value[1] # 0
        /\ x = Point(m[1].period, Change(m[1].value, m[2].value))
  BY DEF GrowthPct
<1>2. m[1] \in f /\ m[2] \in f /\ m = <<m[1], m[2]>> /\ m[2].period = m[1].period - months
  BY DEF Matched
<1>3. m[1].period \in Int /\ m[1].period > p + months
  BY <1>1, <1>2 DEF Point, IsList
<1>4. m[1].period > p /\ m[2].period > p
  BY <1>2, <1>3
<1>5. m[1] \in g /\ m[2] \in g
  BY <1>2, <1>4 DEF After
<1>6. m \in Matched(g, g, months)
  BY <1>2, <1>5 DEF Matched
<1> QED BY <1>1, <1>6 DEF GrowthPct

LEMMA AfterGrowth ==
  ASSUME NEW f, NEW g, NEW p \in Int, NEW months \in Nat,
         IsList(f), IsList(g), After(f, p) = After(g, p)
  PROVE  After(GrowthPct(f, months), p + months) = After(GrowthPct(g, months), p + months)
<1>1. After(GrowthPct(f, months), p + months) \subseteq After(GrowthPct(g, months), p + months)
  BY AfterGrowthOneWay
<1>2. After(GrowthPct(g, months), p + months) \subseteq After(GrowthPct(f, months), p + months)
  BY AfterGrowthOneWay
<1> QED BY <1>1, <1>2

LEMMA AfterMetric ==
  ASSUME NEW S, NEW T, NEW t \in Tripwires, NEW p \in Int, LaterEntries(S, T, t.series, p),
         \A e \in S : e.period \in Int, \A e \in T : e.period \in Int
  PROVE  After(MetricSeries(S, t), p + Reach(t)) = After(MetricSeries(T, t), p + Reach(t))
<1> DEFINE f == Points(S, t.series)
           g == Points(T, t.series)
<1>1. IsList(f) /\ IsList(g) /\ After(f, p) = After(g, p)
  BY PointsList, AfterPoints
<1>2. t.metric \in {"level", "yoy_pct", "mom_pct"}
  BY TripwireAssumption DEF TripwireRow
<1> HIDE DEF f, g
<1>3. /\ After(YoyPct(f), p + YearLength) = After(YoyPct(g), p + YearLength)
      /\ After(MomPct(f), p + 1) = After(MomPct(g), p + 1)
      /\ After(f, p + 0) = After(g, p + 0)
  BY <1>1, AfterGrowth, DerivativesAssumption DEF YoyPct, MomPct
<1>4. CASE t.metric = "level"
  BY <1>3, <1>4 DEF MetricSeries, Reach, f, g
<1>5. CASE t.metric = "yoy_pct"
  BY <1>3, <1>5 DEF MetricSeries, Reach, f, g
<1>6. CASE t.metric = "mom_pct"
  BY <1>3, <1>6 DEF MetricSeries, Reach, f, g
<1> QED BY <1>2, <1>4, <1>5, <1>6

\* The newest point depends on what the newest points are, and a run on what
\* comes after the point that ended it.
LEMMA SameNewest ==
  ASSUME NEW f, NEW g,
         \A x : (x \in f /\ \A y \in f : y.period <= x.period)
                  <=> (x \in g /\ \A y \in g : y.period <= x.period)
  PROVE  Newest(f) = Newest(g)
BY DEF Newest

LEMMA SameGrade ==
  ASSUME NEW t, NEW f, NEW g, NEW q \in Int, IsList(f), IsList(g),
         After(f, q) = After(g, q), NEW b \in f \ Run(f, t), b.period > q
  PROVE  g # {} /\ Grade(f, t) = Grade(g, t)
<1>1. \A x : x.period > q => (x \in f <=> x \in g)
  BY DEF After
<1>2. PICK y \in f : y.period >= b.period /\ ~Qualifies(y.value, t)
  BY DEF Run
<1>3. /\ y.period \in Int /\ y.period > q /\ y \in g
      /\ (\A x \in f : x.period \in Int) /\ (\A x \in g : x.period \in Int)
  BY <1>1, <1>2 DEF IsList
<1>4. ASSUME NEW x \in f \cup g, x.period > y.period
      PROVE  x \in Run(f, t) <=> x \in Run(g, t)
  <2>1. x \in f /\ x \in g
    BY <1>1, <1>3, <1>4
  <2>2. \A z : z.period >= x.period => (z \in f <=> z \in g)
    <3>1. \A z \in f : z.period >= x.period => z \in g
      BY <1>1, <1>3, <1>4, <2>1
    <3>2. \A z \in g : z.period >= x.period => z \in f
      BY <1>1, <1>3, <1>4, <2>1
    <3> QED BY <3>1, <3>2
  <2> QED BY <2>1, <2>2 DEF Run
<1>5. Run(f, t) = Run(g, t)
  <2>1. \A x \in Run(f, t) : x \in f /\ x.period > y.period
    BY <1>2, <1>3 DEF Run
  <2>2. \A x \in Run(g, t) : x \in g /\ x.period > y.period
    BY <1>2, <1>3 DEF Run
  <2> QED BY <1>4, <2>1, <2>2
<1>6. Newest(f) = Newest(g)
  <2>1. ASSUME NEW x \in f, \A z \in f : z.period <= x.period
        PROVE  x \in g /\ \A z \in g : z.period <= x.period
    BY <1>1, <1>2, <1>3, <2>1
  <2>2. ASSUME NEW x \in g, \A z \in g : z.period <= x.period
        PROVE  x \in f /\ \A z \in f : z.period <= x.period
    BY <1>1, <1>2, <1>3, <2>2
  <2> QED BY <2>1, <2>2, SameNewest
<1> QED BY <1>3, <1>5, <1>6 DEF Grade

\* A verdict does not change by what arrives for a month that is neither in the
\* run nor compared with, nor the month that ended it.
THEOREM VerdictSettled == Spec => SettledVerdict
<1>1. ASSUME TypeOK, TypeOK', [Next]_vars, NEW t \in Tripwires,
             Gradable(t), Recorded(t.series) # {},
             Periods(Recorded(t.series)) \subseteq Bygone(t, MetricSeries(store, t))
      PROVE  EvaluateTripwire(store', t) = EvaluateTripwire(store, t)
  <2>1. (\A e \in store : e.period \in Int) /\ (\A e \in store' : e.period \in Int)
    BY <1>1, TripwireAssumption DEF TypeOK, Period
  <2>2. PICK r : r \in store' /\ store' = store \cup {r} /\ r.series = t.series
    <3>1. store' # store
      BY <1>1 DEF Recorded
    <3>2. PICK s \in Series, p \in Period, v \in Figures, d \in 0..today : Record(s, p, v, d)
      BY <1>1, <3>1 DEF Next, vars, Midnight, Store!NextDay
    <3>3. PICK e : store' = store \cup {e}
      BY <3>2 DEF Record, Insert
    <3> QED BY <1>1, <3>3 DEF Recorded
  <2> DEFINE f == MetricSeries(store, t)
             g == MetricSeries(store', t)
             p == r.period
  <2>3. p \in Periods(Recorded(t.series))
    BY <1>1, <2>2 DEF Periods, Recorded
  <2>4. PICK b \in f \ Run(f, t) : p + Reach(t) < b.period
    BY <1>1, <2>3 DEF Bygone, Periods
  <2>5. p \in Int /\ Reach(t) \in Nat
    BY <2>1, <2>2, DerivativesAssumption DEF Reach
  <2>6. LaterEntries(store, store', t.series, p)
    BY <2>2, <2>5 DEF LaterEntries
  <2>7. After(f, p + Reach(t)) = After(g, p + Reach(t))
    BY <2>1, <2>5, <2>6, AfterMetric
  <2>8. IsList(f) /\ IsList(g)
    BY <2>1, MetricPeriods DEF IsList
  <2>9. f # {}
    BY <2>4
  <2> HIDE DEF f, g, p
  <2>10. p + Reach(t) \in Int /\ b.period > p + Reach(t)
    <3>1. b.period \in Int
      BY <2>4, <2>8 DEF IsList
    <3> QED BY <2>4, <2>5, <3>1
  <2>11. g # {} /\ Grade(f, t) = Grade(g, t)
    BY <2>4, <2>7, <2>8, <2>10, SameGrade
  <2> QED BY <1>1, <2>9, <2>11 DEF EvaluateTripwire, f, g
<1>2. TypeOK /\ TypeOK' /\ [Next]_vars =>
        [\A t \in Tripwires :
           (/\ Gradable(t) /\ Recorded(t.series) # {}
            /\ Periods(Recorded(t.series)) \subseteq Bygone(t, MetricSeries(store, t)))
             => EvaluateTripwire(store', t) = EvaluateTripwire(store, t)]_vars
  BY <1>1
<1> QED BY <1>2, TypeCorrect, PTL DEF Spec, SettledVerdict

-----------------------------------------------------------------------------
(***************************************************************************)
(* Scores of growth rates that are three times as large and one higher.    *)
(***************************************************************************)
Loud(x) == Point(x.period, <<3 * x.value[1] + x.value[2], x.value[2]>>)

\* A finite list of points, each with a month and a fraction and no more.
IsCurve(f) ==
  /\ IsSample(f)
  /\ \A x \in f : x.period \in Int /\ x = Point(x.period, x.value)

LEMMA LoudPoint ==
  ASSUME NEW f, IsCurve(f), NEW x \in f
  PROVE  /\ x.value[1] \in Int /\ x.value[2] \in Nat \ {0}
         /\ Loud(x).period = x.period
         /\ Loud(x).value = <<3 * x.value[1] + x.value[2], x.value[2]>>
         /\ Loud(x).value \in Fraction
         /\ \A y \in f : Loud(x) = Loud(y) => x = y
<1>1. \A y \in f : y.value \in Fraction /\ y = Point(y.period, y.value)
  BY DEF IsCurve, IsSample
<1>2. \A y \in f : y.value[1] \in Int /\ y.value[2] \in Nat \ {0} /\ y.value = <<y.value[1], y.value[2]>>
  BY <1>1 DEF Fraction
<1>3. \A y \in f : /\ Loud(y).period = y.period
                   /\ Loud(y).value = <<3 * y.value[1] + y.value[2], y.value[2]>>
  BY DEF Loud, Point
<1>4. Loud(x).value \in Fraction
  <2> DEFINE a == 3 * x.value[1] + x.value[2]
  <2>1. a \in Int /\ x.value[2] \in Nat \ {0}
    BY <1>2
  <2>2. Loud(x).value = <<a, x.value[2]>>
    BY <1>3
  <2> HIDE DEF a
  <2> QED BY <2>1, <2>2 DEF Fraction
<1>5. ASSUME NEW y \in f, Loud(x) = Loud(y) PROVE x = y
  <2>1. x.period = y.period
    BY <1>3, <1>5
  <2>2. <<3 * x.value[1] + x.value[2], x.value[2]>> = <<3 * y.value[1] + y.value[2], y.value[2]>>
    BY <1>3, <1>5
  <2> DEFINE a == x.value[1]  b == x.value[2]  c == y.value[1]  d == y.value[2]
  <2>3. a \in Int /\ b \in Int /\ c \in Int /\ d \in Int
    BY <1>2
  <2>4. 3 * a + b = 3 * c + d /\ b = d
    BY <2>2
  <2> HIDE DEF a, b, c, d
  <2>5. a = c /\ b = d
    BY <2>3, <2>4
  <2>6. x.value = <<a, b>> /\ y.value = <<c, d>>
    BY <1>2 DEF a, b, c, d
  <2>7. x.value = y.value
    BY <2>5, <2>6
  <2> QED BY <1>1, <2>1, <2>7
<1> QED BY <1>2, <1>3, <1>4, <1>5

\* The louder points are other names for the same points.
LEMMA LouderRenames ==
  ASSUME NEW f, IsCurve(f)
  PROVE  /\ IsRenaming([x \in f |-> Loud(x)], f, Louder(f))
         /\ IsFiniteSet(Louder(f)) /\ Cardinality(Louder(f)) = Cardinality(f)
         /\ IsCurve(Louder(f))
<1> DEFINE m == [x \in f |-> Loud(x)]
<1>1. Louder(f) = {Loud(x) : x \in f}
  BY Zenon DEF Louder, Loud
<1>2. IsRenaming(m, f, Louder(f))
  BY <1>1, LoudPoint DEF IsRenaming
<1>3. IsFiniteSet(Louder(f)) /\ Cardinality(Louder(f)) = Cardinality(f)
  BY <1>2, Renamed DEF IsCurve, IsSample
<1>4. ASSUME NEW z \in Louder(f)
      PROVE  z.value \in Fraction /\ z.period \in Int /\ z = Point(z.period, z.value)
  <2>1. PICK x \in f : z = Loud(x)
    BY <1>1
  <2>2. x.period \in Int
    BY DEF IsCurve
  <2>3. z = Point(z.period, z.value)
    BY <2>1 DEF Loud, Point
  <2> QED BY <2>1, <2>2, <2>3, LoudPoint
<1> QED BY <1>2, <1>3, <1>4 DEF IsCurve, IsSample

\* The history of a louder point is the louder history.
LEMMA LouderBefore ==
  ASSUME NEW f, IsCurve(f), NEW p
  PROVE  Before(Louder(f), p) = Louder(Before(f, p)) /\ IsCurve(Before(f, p))
<1>1. \A g : Louder(g) = {Loud(x) : x \in g}
  BY Zenon DEF Louder, Loud
<1>2. Before(Louder(f), p) = Louder(Before(f, p))
  <2>1. \A x \in f : Loud(x).period = x.period
    BY LoudPoint
  <2> QED BY <1>1, <2>1 DEF Before
<1>3. Before(f, p) \in SUBSET f
  BY DEF Before
<1>4. IsFiniteSet(Before(f, p))
  BY <1>3, FS_Subset DEF IsCurve, IsSample
<1> QED BY <1>2, <1>3, <1>4 DEF IsCurve, IsSample

LEMMA LouderDenominator ==
  ASSUME NEW h, IsCurve(h)
  PROVE  CommonDenominator(Louder(h)) = CommonDenominator(h)
<1> DEFINE m == [x \in h |-> Loud(x)]
           R == Louder(h)
           f == [z \in R |-> z.value[2]]
           g == [x \in h |-> x.value[2]]
<1>1. IsRenaming(m, h, R) /\ IsSample(R) /\ IsSample(h) /\ IsFiniteSet(h)
  BY LouderRenames DEF IsCurve, IsSample
<1>2. PICK T : IsProduct(T, f, R) /\ T[R] = CommonDenominator(R)
  BY <1>1, DenominatorProduct
<1>3. PICK U : IsProduct(U, g, h) /\ U[h] = CommonDenominator(h)
  BY <1>1, DenominatorProduct
<1>4. \A x \in h : g[x] = f[m[x]]
  <2> SUFFICES ASSUME NEW x \in h PROVE x.value[2] = f[m[x]]
    OBVIOUS
  <2>1. m[x] = Loud(x) /\ Loud(x) \in R
    BY <1>1 DEF IsRenaming
  <2> HIDE DEF R
  <2>2. f[Loud(x)] = Loud(x).value[2]
    BY <2>1
  <2>3. Loud(x).value[2] = x.value[2]
    BY LoudPoint
  <2> QED BY <2>1, <2>2, <2>3
<1> HIDE DEF m, R, f, g
<1>5. T[R] = U[h]
  BY <1>1, <1>2, <1>3, <1>4, RenamedProduct
<1> QED BY <1>2, <1>3, <1>5 DEF R

\* What the sums of numerators and of their squares become.
LEMMA LouderSums ==
  ASSUME NEW h, IsCurve(h), NEW e \in Nat \ {0}
  PROVE  LET d == CommonDenominator(h) * e
             n == Cardinality(h)
         IN  /\ d \in Nat \ {0} /\ n \in Nat
             /\ Total(h, d) \in Int /\ Squares(h, d) \in Int
             /\ Total(Louder(h), d) = 3 * Total(h, d) + n * d
             /\ Squares(Louder(h), d) = 9 * Squares(h, d) + (6 * d) * Total(h, d) + n * (d * d)
<1> DEFINE d == CommonDenominator(h) * e
           n == Cardinality(h)
           R == Louder(h)
           m == [x \in h |-> Loud(x)]
           num == [x \in h |-> Numerator(x.value, d)]
           sq == [x \in h |-> Numerator(x.value, d) * Numerator(x.value, d)]
           loudNum == [z \in R |-> Numerator(z.value, d)]
           loudSq == [z \in R |-> Numerator(z.value, d) * Numerator(z.value, d)]
           numR == [x \in h |-> 3 * num[x] + d]
           sqR == [x \in h |-> (3 * num[x] + d) * (3 * num[x] + d)]
<1>1. /\ IsRenaming(m, h, R) /\ IsFiniteSet(R) /\ IsFiniteSet(h) /\ IsSample(h)
      /\ n \in Nat
  BY LouderRenames, FS_CardinalityType DEF IsCurve, IsSample
<1>2. CommonDenominator(h) \in Nat \ {0}
  BY <1>1, Divides
<1>3. d \in Nat \ {0} /\ d \in Int /\ d * d \in Int /\ 6 * d \in Int
  BY <1>2
<1>4. ASSUME NEW x \in h
      PROVE  /\ Numerator(x.value, d) \in Int
             /\ Numerator(Loud(x).value, d) = 3 * Numerator(x.value, d) + d
  <2>1. PICK q \in Nat \ {0} : CommonDenominator(h) = x.value[2] * q
    BY <1>1, Divides
  <2> DEFINE a == x.value[1]
             b == x.value[2]
  <2>2. a \in Int /\ b \in Nat \ {0} /\ x.value \in Fraction
    BY LoudPoint DEF IsCurve, IsSample
  <2>3. Loud(x).value = <<3 * a + b, b>>
    BY LoudPoint
  <2>4. d = b * (q * e) /\ q * e \in Nat
    <3>1. d = (b * q) * e
      BY <2>1
    <3> HIDE DEF d, b
    <3> QED BY <2>2, <3>1
  <2> HIDE DEF d
  <2>5. d \div b = q * e
    <3> DEFINE r == q * e
    <3>1. d = b * r /\ r \in Nat
      BY <2>4
    <3> HIDE DEF r, b
    <3> QED BY <2>2, <3>1, ExactDivision DEF r
  <2>6. Numerator(x.value, d) = a * (q * e)
    BY <2>5 DEF Numerator
  <2>7. Numerator(Loud(x).value, d) = (3 * a + b) * (q * e)
    BY <2>3, <2>5 DEF Numerator
  <2> HIDE DEF a, b
  <2>8. (3 * a + b) * (q * e) = 3 * (a * (q * e)) + b * (q * e)
    <3> DEFINE r == q * e
    <3>1. r \in Int
      BY <2>4
    <3> HIDE DEF r
    <3>2. (3 * a + b) * r = 3 * (a * r) + b * r
      BY <2>2, <3>1
    <3> QED BY <3>2 DEF r
  <2>9. a * (q * e) \in Int
    BY <2>2, <2>4
  <2> QED BY <2>4, <2>6, <2>7, <2>8, <2>9
<1>5. \A z \in R : Numerator(z.value, d) \in Int
  <2> SUFFICES ASSUME NEW z \in R PROVE Numerator(z.value, d) \in Int
    OBVIOUS
  <2>1. PICK x \in h : z = Loud(x)
    <3>1. PICK x \in h : m[x] = z
      BY <1>1 DEF IsRenaming
    <3> QED BY <3>1
  <2>2. Numerator(x.value, d) \in Int /\ Numerator(z.value, d) = 3 * Numerator(x.value, d) + d
    BY <1>4, <2>1
  <2> HIDE DEF d
  <2> QED BY <1>3, <2>2
<1> HIDE DEF d
<1>6. PICK T : IsSum(T, num, h) /\ T[h] = Total(h, d)
  BY <1>1, <1>4, TotalSum
<1>7. PICK Q : IsSum(Q, sq, h) /\ Q[h] = Squares(h, d)
  BY <1>1, <1>4, SquaresSum
<1>8. PICK T2 : IsSum(T2, loudNum, R) /\ T2[R] = Total(R, d)
  BY <1>1, <1>5, TotalSum
<1>9. PICK Q2 : IsSum(Q2, loudSq, R) /\ Q2[R] = Squares(R, d)
  BY <1>1, <1>5, SquaresSum
<1>10. /\ num \in [h -> Int] /\ sq \in [h -> Int]
       /\ \A x \in h : num[x] \in Int /\ sq[x] = num[x] * num[x]
  BY <1>4
<1>11. \A x \in h : /\ numR[x] = 3 * num[x] + d
                    /\ sqR[x] = (3 * num[x] + d) * (3 * num[x] + d)
  OBVIOUS
<1>12. numR \in [h -> Int] /\ sqR \in [h -> Int]
  <2> HIDE DEF num
  <2> QED BY <1>3, <1>10
<1>13. \A x \in h : numR[x] = loudNum[m[x]] /\ sqR[x] = loudSq[m[x]]
  <2> SUFFICES ASSUME NEW x \in h PROVE numR[x] = loudNum[m[x]] /\ sqR[x] = loudSq[m[x]]
    OBVIOUS
  <2>1. m[x] = Loud(x) /\ Loud(x) \in R
    BY <1>1 DEF IsRenaming
  <2>2. num[x] = Numerator(x.value, d)
    OBVIOUS
  <2> HIDE DEF R
  <2>3. /\ loudNum[Loud(x)] = Numerator(Loud(x).value, d)
        /\ loudSq[Loud(x)] = Numerator(Loud(x).value, d) * Numerator(Loud(x).value, d)
    BY <2>1
  <2> HIDE DEF loudNum, loudSq, numR, sqR, num, m
  <2> QED BY <1>4, <1>11, <2>1, <2>2, <2>3
<1> HIDE DEF num, sq, loudNum, loudSq, numR, sqR, m, R, n
<1>14. PICK U : IsSum(U, numR, h)
  BY <1>1, <1>12, SumsExist
<1>15. PICK W : IsSum(W, sqR, h)
  BY <1>1, <1>12, SumsExist
<1>16. T2[R] = U[h] /\ Q2[R] = W[h]
  BY <1>1, <1>8, <1>9, <1>13, <1>14, <1>15, RenamedSum
<1>17. T[h] \in Int /\ Q[h] \in Int
  BY <1>6, <1>7 DEF IsSum
<1>18. U[h] = 3 * T[h] + n * d
  <2>1. \A x \in h : numR[x] = 3 * num[x] + 0 * num[x] + d
    BY <1>3, <1>10, <1>11
  <2> DEFINE k == 3  l == 0
  <2>2. k \in Int /\ l \in Int /\ \A x \in h : numR[x] = k * num[x] + l * num[x] + d
    BY <2>1
  <2> HIDE DEF k, l
  <2>3. U[h] = k * T[h] + l * T[h] + Cardinality(h) * d
    <3>1. Combines(h, k, l, d, num, T, num, T, numR, U)
      BY <1>3, <1>6, <1>10, <1>12, <1>14, <2>2 DEF Combines
    <3> QED BY <1>1, <3>1, LinearSum
  <2> QED BY <1>17, <2>3 DEF n, k, l
<1>19. W[h] = 9 * Q[h] + (6 * d) * T[h] + n * (d * d)
  <2>1. \A x \in h : sqR[x] = 9 * sq[x] + (6 * d) * num[x] + d * d
    <3> SUFFICES ASSUME NEW x \in h PROVE sqR[x] = 9 * sq[x] + (6 * d) * num[x] + d * d
      OBVIOUS
    <3>1. num[x] \in Int /\ sq[x] = num[x] * num[x] /\ sqR[x] = (3 * num[x] + d) * (3 * num[x] + d)
      BY <1>10, <1>11
    <3>2. \A u, v \in Int : (3 * u + v) * (3 * u + v) = 9 * (u * u) + (6 * v) * u + v * v
      OBVIOUS
    <3> QED BY <1>3, <3>1, <3>2
  <2> DEFINE k == 9  l == 6 * d  c == d * d
  <2>2. /\ k \in Int /\ l \in Int /\ c \in Int
        /\ \A x \in h : sqR[x] = k * sq[x] + l * num[x] + c
    BY <1>3, <2>1
  <2> HIDE DEF k, l, c
  <2>3. W[h] = k * Q[h] + l * T[h] + Cardinality(h) * c
    <3>1. Combines(h, k, l, c, sq, Q, num, T, sqR, W)
      BY <1>6, <1>7, <1>10, <1>12, <1>15, <2>2 DEF Combines
    <3> QED BY <1>1, <3>1, LinearSum
  <2> QED BY <2>3 DEF n, k, l, c
<1> QED BY <1>1, <1>3, <1>6, <1>7, <1>8, <1>9, <1>16, <1>17, <1>18, <1>19 DEF d, n, R

\* The arithmetic of a score.
LEMMA ScoreArithmetic ==
  ASSUME NEW n \in Int, NEW a \in Int, NEW t \in Int, NEW s \in Int, NEW d \in Int
  PROVE  /\ n * (3 * a + d) - (3 * t + n * d) = 3 * (n * a - t)
         /\ n * (9 * s + (6 * d) * t + n * (d * d)) - (3 * t + n * d) * (3 * t + n * d)
              = 9 * (n * s - t * t)
<1>1. n * (3 * a + d) = 3 * (n * a) + n * d
  OBVIOUS
<1>2. n * (9 * s + (6 * d) * t + n * (d * d)) = 9 * (n * s) + 6 * (n * (d * t)) + (n * d) * (n * d)
  OBVIOUS
<1>3. (3 * t + n * d) * (3 * t + n * d) = 9 * (t * t) + 6 * (n * (d * t)) + (n * d) * (n * d)
  OBVIOUS
<1> DEFINE na == n * a  nd == n * d  ns == n * s  tt == t * t  ndt == n * (d * t)
           ndd == (n * d) * (n * d)
<1>4. na \in Int /\ nd \in Int /\ ns \in Int /\ tt \in Int /\ ndt \in Int /\ ndd \in Int
  OBVIOUS
<1>5. n * (3 * a + d) - (3 * t + n * d) = (3 * na + nd) - (3 * t + nd)
  BY <1>1
<1>6. n * (9 * s + (6 * d) * t + n * (d * d)) - (3 * t + n * d) * (3 * t + n * d)
        = (9 * ns + 6 * ndt + ndd) - (9 * tt + 6 * ndt + ndd)
  BY <1>2, <1>3
<1>7. 3 * (n * a - t) = 3 * (na - t) /\ 9 * (n * s - t * t) = 9 * (ns - tt)
  OBVIOUS
<1> HIDE DEF na, nd, ns, tt, ndt, ndd
<1>8. /\ (3 * na + nd) - (3 * t + nd) = 3 * (na - t)
      /\ (9 * ns + 6 * ndt + ndd) - (9 * tt + 6 * ndt + ndd) = 9 * (ns - tt)
  BY <1>4
<1> QED BY <1>5, <1>6, <1>7, <1>8

LEMMA LouderScore ==
  ASSUME NEW h, IsCurve(h), NEW x, IsCurve({x})
  PROVE  /\ Score(Louder(h), Loud(x).value)
              = [off |-> 3 * Score(h, x.value).off, spread |-> 9 * Score(h, x.value).spread]
         /\ Score(h, x.value).off \in Int /\ Score(h, x.value).spread \in Int
<1> DEFINE e == x.value[2]
           d == CommonDenominator(h) * e
           n == Cardinality(h)
           a == Numerator(x.value, d)
           t == Total(h, d)
           s == Squares(h, d)
<1>1. /\ x.value[1] \in Int /\ e \in Nat \ {0} /\ Loud(x).value = <<3 * x.value[1] + e, e>>
  BY LoudPoint
<1>2. /\ CommonDenominator(Louder(h)) = CommonDenominator(h) /\ Cardinality(Louder(h)) = n
      /\ CommonDenominator(h) \in Nat \ {0}
  BY LouderDenominator, LouderRenames, Divides DEF IsCurve
<1>3. /\ d \in Nat \ {0} /\ n \in Nat /\ t \in Int /\ s \in Int
      /\ Total(Louder(h), d) = 3 * t + n * d
      /\ Squares(Louder(h), d) = 9 * s + (6 * d) * t + n * (d * d)
  <2> HIDE DEF e
  <2> QED BY <1>1, LouderSums
<1>4. a \in Int /\ Numerator(Loud(x).value, d) = 3 * a + d
  <2> DEFINE c == CommonDenominator(h)
             y == x.value[1]
  <2>1. c \in Nat \ {0} /\ d = e * c /\ y \in Int
    <3>1. d = c * e /\ c \in Nat \ {0}
      BY <1>2
    <3> HIDE DEF d, c, e
    <3> QED BY <1>1, <3>1
  <2>2. a = y * (d \div e) /\ Numerator(Loud(x).value, d) = (3 * y + e) * (d \div e)
    BY <1>1 DEF Numerator
  <2> HIDE DEF d, c, e, y, a
  <2>3. d \div e = c
    BY <1>1, <2>1, ExactDivision
  <2>4. (3 * y + e) * c = 3 * (y * c) + e * c /\ y * c \in Int
    BY <1>1, <2>1
  <2> QED BY <2>1, <2>2, <2>3, <2>4
<1>5. /\ Score(h, x.value) = [off |-> n * a - t, spread |-> n * s - t * t]
      /\ Score(Louder(h), Loud(x).value)
           = [off |-> n * (3 * a + d) - (3 * t + n * d),
              spread |-> n * (9 * s + (6 * d) * t + n * (d * d)) - (3 * t + n * d) * (3 * t + n * d)]
  <2>1. CommonDenominator(Louder(h)) * Loud(x).value[2] = d
    BY <1>1, <1>2
  <2> QED BY <1>2, <1>3, <1>4, <2>1 DEF Score
<1> HIDE DEF e, d, n, a, t, s
<1>6. /\ n * (3 * a + d) - (3 * t + n * d) = 3 * (n * a - t)
      /\ n * (9 * s + (6 * d) * t + n * (d * d)) - (3 * t + n * d) * (3 * t + n * d)
           = 9 * (n * s - t * t)
      /\ n * a - t \in Int /\ n * s - t * t \in Int
  BY <1>3, <1>4, ScoreArithmetic
<1> QED BY <1>5, <1>6

\* There are as many readings as were recorded, and so their metrics can be
\* summed.
LEMMA StoreFinite == Spec => []IsFiniteSet(store)
<1>1. Init => IsFiniteSet(store)
  BY FS_EmptySet DEF Init, Store!Init
<1>2. IsFiniteSet(store) /\ [Next]_vars => IsFiniteSet(store)'
  BY FS_AddElement DEF Next, vars, Record, Insert, Midnight, Store!NextDay
<1> QED BY <1>1, <1>2, PTL DEF Spec

LEMMA YoyCurve ==
  ASSUME TypeOK, IsFiniteSet(store), NEW s
  PROVE  IsCurve(YoyPct(Points(store, s)))
<1> DEFINE A == {o \in Latest(store, s) : o.value # NoValue}
           pts == [r \in A |-> Point(r.period, <<r.value, 1>>)]
           f == Points(store, s)
           B == {n \in Matched(f, f, YearLength) : n[2].value[1] # 0}
           growth == [m \in B |-> Point(m[1].period, Change(m[1].value, m[2].value))]
<1>1. IsFiniteSet(f)
  <2>1. A \in SUBSET store
    BY DEF Latest
  <2>2. f = Names(pts, A)
    BY DEF Points, ToPoints, Names
  <2>3. pts \in [A -> {pts[r] : r \in A}]
    OBVIOUS
  <2>4. IsFiniteSet(A)
    BY <2>1, FS_Subset
  <2> HIDE DEF A, pts, f
  <2> QED BY <2>2, <2>3, <2>4, NamesFinite
<1>2. IsFiniteSet(YoyPct(f))
  <2>1. B \in SUBSET (f \X f)
    BY DEF Matched
  <2>2. YoyPct(f) = Names(growth, B)
    BY DEF YoyPct, GrowthPct, Names
  <2>3. growth \in [B -> {growth[m] : m \in B}]
    OBVIOUS
  <2> HIDE DEF B, growth, f
  <2>4. IsFiniteSet(f \X f)
    BY <1>1, FS_Product
  <2>5. IsFiniteSet(B)
    BY <2>1, <2>4, FS_Subset
  <2> QED BY <2>2, <2>3, <2>5, NamesFinite
<1>3. IsGraph(YoyPct(f))
  BY PointsGraph, GrowthGraph DEF YoyPct
<1>4. \A x \in YoyPct(f) : x = Point(x.period, x.value)
  BY DEF YoyPct, GrowthPct, Point
<1> QED BY <1>2, <1>3, <1>4 DEF IsCurve, IsSample, IsGraph

\* A growth rate is scored exactly when its louder one is.
LEMMA LouderScored ==
  ASSUME NEW f, IsCurve(f), NEW x \in f
  PROVE  /\ Score(Before(Louder(f), Loud(x).period), Loud(x).value)
              = [off |-> 3 * Score(Before(f, x.period), x.value).off,
                 spread |-> 9 * Score(Before(f, x.period), x.value).spread]
         /\ Scored(Louder(f), Loud(x)) <=> Scored(f, x)
<1> DEFINE h == Before(f, x.period)
<1>1. IsCurve(h) /\ Before(Louder(f), Loud(x).period) = Louder(h)
  BY LouderBefore, LoudPoint
<1>2. IsCurve({x})
  BY FS_Singleton DEF IsCurve, IsSample
<1>3. /\ Score(Louder(h), Loud(x).value)
           = [off |-> 3 * Score(h, x.value).off, spread |-> 9 * Score(h, x.value).spread]
      /\ Score(h, x.value).spread \in Int
  <2> HIDE DEF h
  <2> QED BY <1>1, <1>2, LouderScore
<1>4. Cardinality(Louder(h)) = Cardinality(h)
  BY <1>1, LouderRenames
<1>5. Scored(Louder(f), Loud(x)) <=>
        Cardinality(h) >= MinHistory /\ Score(Louder(h), Loud(x).value).spread # 0
  BY <1>1, <1>4 DEF Scored
<1>6. Scored(f, x) <=> Cardinality(h) >= MinHistory /\ Score(h, x.value).spread # 0
  BY DEF Scored
<1> HIDE DEF h
<1>7. Score(Louder(h), Loud(x).value).spread # 0 <=> Score(h, x.value).spread # 0
  BY <1>3
<1>8. Score(Before(Louder(f), Loud(x).period), Loud(x).value) = Score(Louder(h), Loud(x).value)
  BY <1>1
<1> QED BY <1>3, <1>5, <1>6, <1>7, <1>8 DEF h

LEMMA LouderZScores ==
  ASSUME NEW f, IsCurve(f)
  PROVE  ZScores(Louder(f)) =
           {Point(z.period, [off |-> 3 * z.value.off, spread |-> 9 * z.value.spread]) :
              z \in ZScores(f)}
<1> DEFINE score(x) == Score(Before(f, x.period), x.value)
           louder(s) == [off |-> 3 * s.off, spread |-> 9 * s.spread]
           loudScore(y) == Score(Before(Louder(f), y.period), y.value)
<1>1. Louder(f) = {Loud(x) : x \in f}
  BY Zenon DEF Louder, Loud
<1>2. \A x \in f : /\ loudScore(Loud(x)) = louder(score(x))
                   /\ Scored(Louder(f), Loud(x)) <=> Scored(f, x)
                   /\ Loud(x).period = x.period
  BY LouderScored, LoudPoint
<1>3. /\ ZScores(Louder(f)) = {Point(y.period, loudScore(y)) : y \in {u \in Louder(f) : Scored(Louder(f), u)}}
      /\ ZScores(f) = {Point(x.period, score(x)) : x \in {u \in f : Scored(f, u)}}
  BY DEF ZScores
<1> HIDE DEF score, louder, loudScore
<1>4. ASSUME NEW z \in ZScores(Louder(f))
      PROVE  \E w \in ZScores(f) : z = Point(w.period, louder(w.value))
  <2>1. PICK y \in Louder(f) : Scored(Louder(f), y) /\ z = Point(y.period, loudScore(y))
    BY <1>3
  <2>2. PICK x \in f : y = Loud(x)
    BY <1>1
  <2>3. Scored(f, x) /\ z = Point(x.period, louder(score(x)))
    BY <1>2, <2>1, <2>2
  <2>4. Point(x.period, score(x)) \in ZScores(f)
    BY <1>3, <2>3
  <2>5. Point(x.period, score(x)).period = x.period /\ Point(x.period, score(x)).value = score(x)
    BY DEF Point
  <2> QED BY <2>3, <2>4, <2>5
<1>5. ASSUME NEW w \in ZScores(f)
      PROVE  Point(w.period, louder(w.value)) \in ZScores(Louder(f))
  <2>1. PICK x \in f : Scored(f, x) /\ w = Point(x.period, score(x))
    BY <1>3
  <2>2. w.period = x.period /\ w.value = score(x)
    BY <2>1 DEF Point
  <2>3. Loud(x) \in Louder(f) /\ Scored(Louder(f), Loud(x))
    BY <1>1, <1>2, <2>1
  <2>4. Point(Loud(x).period, loudScore(Loud(x))) \in ZScores(Louder(f))
    BY <1>3, <2>3
  <2> QED BY <1>2, <2>2, <2>4
<1>6. ZScores(Louder(f)) = {Point(z.period, louder(z.value)) : z \in ZScores(f)}
  BY <1>4, <1>5
<1> QED BY <1>6, Zenon DEF louder

\* The scores of a series are those of any series whose growth rates are three
\* times as large and one higher, and no growth rate or score is divided by zero:
\* a z-score is calibrated by the series itself, however many readings there are
\* and whatever their figures.
THEOREM Calibrated == Spec => []SelfCalibrating
<1>1. ASSUME TypeOK, IsFiniteSet(store), NEW s \in Series
      PROVE  ZScores(Louder(YoyPct(Points(store, s)))) =
               {Point(z.period, [off |-> 3 * z.value.off, spread |-> 9 * z.value.spread]) :
                  z \in ZScores(YoyPct(Points(store, s)))}
  <2>1. IsCurve(YoyPct(Points(store, s)))
    BY <1>1, YoyCurve
  <2> QED BY <2>1, LouderZScores
<1>2. ASSUME TypeOK, NEW s \in Series,
             NEW x \in YoyPct(Points(store, s)) \cup MomPct(Points(store, s))
      PROVE  x.value[2] > 0
  <2>1. x.value \in Fraction
    BY <1>2, PointsGraph, GrowthGraph DEF YoyPct, MomPct, IsGraph
  <2> QED BY <2>1 DEF Fraction
<1>3. ASSUME NEW s \in Series, NEW z \in ZScores(YoyPct(Points(store, s)))
      PROVE  z.value.spread # 0
  <2> DEFINE f == YoyPct(Points(store, s))
  <2>1. PICK x \in f : /\ Scored(f, x)
                       /\ z = Point(x.period, Score(Before(f, x.period), x.value))
    BY DEF ZScores
  <2> QED BY <2>1 DEF Scored, Point
<1>4. TypeOK /\ IsFiniteSet(store) => SelfCalibrating
  BY <1>1, <1>2, <1>3, Zenon DEF SelfCalibrating
<1> QED BY <1>4, TypeCorrect, StoreFinite, PTL

=============================================================================
