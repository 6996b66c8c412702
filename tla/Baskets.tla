------------------------------ MODULE Baskets -------------------------------
(***************************************************************************)
(* Basket returns (baskets/compute.py) while the markets trade: the venues *)
(* have calendars of their own, names halt, list late and miss sessions,   *)
(* and every return is measured on the calendar of the benchmark.          *)
(***************************************************************************)
EXTENDS Fractions, Sequences, SequencesExt

CONSTANTS
  Ticker,        \* the constituents of the basket
  Benchmark,     \* the benchmark's symbol
  Prices,        \* the USD closes each of these may have
  NoClose,       \* the None of a session without a usable close
  MaxFill,       \* max_forward_fill
  Week, Month,   \* days of the 7d and the 30d window
  NewYear,       \* the day a year begins; every day before is of the year before
  Limit,         \* how many top movers are named
  LastDay        \* bound: the last day of trading

Symbol == Ticker \cup {Benchmark}

ASSUME BasketsAssumption ==
  /\ Benchmark \notin Ticker /\ IsFiniteSet(Ticker)
  /\ Prices \in [Symbol -> SUBSET Nat] /\ NoClose \notin Nat
  /\ MaxFill \in Nat /\ LastDay \in Nat /\ NewYear \in Nat
  /\ Limit \in Nat
  /\ Week \in Nat \ {0} /\ Month \in Nat /\ Week <= Month

VARIABLES
  day,       \* the last day that is over
  calendar,  \* the days on which the benchmark traded, oldest first
  closes     \* for each symbol, the close of each day, or NoClose

vars == <<day, calendar, closes>>

\* Days and prices are of their domains, and the calendar holds, in their
\* order, only days on which the benchmark has a close to measure against.
TypeOK ==
  /\ day \in 0..LastDay
  /\ \A t \in Symbol : closes[t] \in [1..day -> Prices[t] \cup {NoClose}]
  /\ calendar \in Seq(1..day)
  /\ \A n \in DOMAIN calendar :
       /\ closes[Benchmark][calendar[n]] # NoClose
       /\ n > 1 => calendar[n - 1] < calendar[n]

-----------------------------------------------------------------------------
(***************************************************************************)
(* align_to_calendar: a walk over the sessions that carries the last close *)
(* and how many sessions in a row it has filled.                           *)
(***************************************************************************)
\* Variant: a fresh close does not start the count again.
Carried_noReset(t, sessions) ==
  LET carry[n \in 0..Len(sessions)] ==
        IF n = 0 THEN [last |-> NoClose, filled |-> 0]
        ELSE LET price == closes[t][sessions[n]]
                 before == carry[n - 1]
             IN  IF price # NoClose THEN [before EXCEPT !.last = price]
                 ELSE IF before.last = NoClose THEN before
                 ELSE [before EXCEPT !.filled = @ + 1]
  IN  carry

Carried(t, sessions) ==
  LET carry[n \in 0..Len(sessions)] ==
        IF n = 0 THEN [last |-> NoClose, filled |-> 0]
        ELSE LET price == closes[t][sessions[n]]
                 before == carry[n - 1]
             IN  IF price # NoClose THEN [last |-> price, filled |-> 0]
                 ELSE IF before.last = NoClose THEN before
                 ELSE [before EXCEPT !.filled = @ + 1]
  IN  carry

\* The entries of AlignedSeries for the n-th session.
Stale(carry, n) == carry[n].last # NoClose /\ carry[n].filled > MaxFill
Aligned(carry, n) == IF Stale(carry, n) THEN NoClose ELSE carry[n].last

(***************************************************************************)
(* resolve_window_start, for a day asOf: the place of the session that the *)
(* return is measured from, or 0 for None.                                 *)
(***************************************************************************)
Window == {"1d", "7d", "30d", "ytd"}

LastPlace(places) == IF places = {} THEN 0 ELSE Max(places)

PlacesUpTo(sessions, d) == {n \in DOMAIN sessions : sessions[n] <= d}
UpTo(sessions, d) == LastPlace(PlacesUpTo(sessions, d))

\* Variant: the sessions after asOf are not left out.
WindowStart_all(window, asOf, sessions) ==
  IF Len(sessions) < 2 THEN 0
  ELSE CASE window = "1d"  -> Len(sessions) - 1
         [] window = "7d"  -> UpTo(sessions, asOf - Week)
         [] window = "30d" -> UpTo(sessions, asOf - Month)
         [] window = "ytd" -> UpTo(sessions, NewYear - 1)

\* Variant: the week counts from the session before.
WindowStart_offByOne(window, asOf, sessions) ==
  LET n == Cardinality(PlacesUpTo(sessions, asOf))
  IN  IF n < 2 THEN 0
      ELSE CASE window = "1d"  -> n - 1
             [] window = "7d"  -> UpTo(sessions, asOf - Week - 1)
             [] window = "30d" -> UpTo(sessions, asOf - Month)
             [] window = "ytd" -> IF asOf < NewYear THEN 0
                                  ELSE UpTo(sessions, NewYear - 1)

WindowStart(window, asOf, sessions) ==
  LET n == Cardinality(PlacesUpTo(sessions, asOf))
  IN  IF n < 2 THEN 0
      ELSE CASE window = "1d"  -> n - 1
             [] window = "7d"  -> UpTo(sessions, asOf - Week)
             [] window = "30d" -> UpTo(sessions, asOf - Month)
             [] window = "ytd" -> IF asOf < NewYear THEN 0
                                  ELSE UpTo(sessions, NewYear - 1)

-----------------------------------------------------------------------------
(***************************************************************************)
(* compute_basket_return, as of a day that need not be a session.          *)
(***************************************************************************)
Sign(n) == IF n > 0 THEN 1 ELSE IF n < 0 THEN -1 ELSE 0

\* What becomes of one constituent between the s-th and the n-th session; n is 0
\* for a day that is not a session, which has no entry in the walk.
Priced(carry, s, n) ==
  Aligned(carry, s) # NoClose /\ Aligned(carry, n) # NoClose /\ Aligned(carry, s) # 0

\* Variant: only the session asOf is looked at.
FoundStale_endOnly(carry, s, n) ==
  /\ Aligned(carry, s) = NoClose \/ Aligned(carry, n) = NoClose
  /\ Stale(carry, n)

FoundStale(carry, s, n) ==
  /\ Aligned(carry, s) = NoClose \/ Aligned(carry, n) = NoClose
  /\ Stale(carry, s) \/ Stale(carry, n)

ReturnOf(carry, s, n) ==
  Change(<<Aligned(carry, n), 1>>, <<Aligned(carry, s), 1>>)

\* The return of the benchmark from day b on, unless a close is missing or zero.
None == <<>>

BenchmarkReturn(b, asOf) ==
  IF closes[Benchmark][b] \in {NoClose, 0} \/ closes[Benchmark][asOf] = NoClose
    THEN None
    ELSE Change(<<closes[Benchmark][asOf], 1>>, <<closes[Benchmark][b], 1>>)

Excess(raw, benchmark) == IF benchmark = None THEN None ELSE Minus(raw, benchmark)

\* The mean over the constituents that have a return, and how many of these
\* have its sign.  Variant: the mean is taken over all constituents.
Summary_overAll(returns, benchmark) ==
  LET raw == LET m == Mean(returns)
             IN  <<m[1] * Cardinality(returns), m[2] * Cardinality(Ticker)>>
      agree == {r \in returns : Sign(r.value[1]) = Sign(raw[1])}
  IN  [raw |-> raw, agree |-> IF raw[1] = 0 THEN {} ELSE agree,
      excess |-> Excess(raw, benchmark)]

Summary(returns, benchmark) ==
  LET raw == Mean(returns)
      agree == {r \in returns : Sign(r.value[1]) = Sign(raw[1])}
  IN  [raw |-> raw, agree |-> IF raw[1] = 0 THEN {} ELSE agree,
      excess |-> Excess(raw, benchmark)]

NoReturn == [raw |-> None, agree |-> {}, excess |-> None]

BasketReturn(window, asOf, sessions) ==
  LET s == WindowStart(window, asOf, sessions)
      n == LastPlace({i \in DOMAIN sessions : sessions[i] = asOf})
      carry == [t \in Ticker |-> Carried(t, sessions)]
      priced == {t \in Ticker : Priced(carry[t], s, n)}
      stale == {t \in Ticker : FoundStale(carry[t], s, n)}
      returns == {[ticker |-> t, value |-> ReturnOf(carry[t], s, n)] : t \in priced}
      benchmark == BenchmarkReturn(sessions[s], asOf)
  IN  IF s = 0
        THEN [start |-> 0, returns |-> {}, stale |-> {}, unpriced |-> Ticker,
              summary |-> NoReturn, benchmark |-> None]
        ELSE [start |-> sessions[s], returns |-> returns, stale |-> stale,
              unpriced |-> Ticker \ (priced \cup stale),
              summary |-> IF returns = {} THEN NoReturn ELSE Summary(returns, benchmark),
              benchmark |-> benchmark]

\* top_movers, for a result: the rankings it may name, since ties stand in any
\* order, or none of them (None) while a constituent has no return.
Moved(x) == <<Magnitude(x.value[1]), x.value[2]>>

\* Variant: named whenever some constituents have a return.
TopMovers_partial(r) ==
  IF r.returns = {} THEN {}
  ELSE {SubSeq(s, 1, Min({Limit, Len(s)})) :
          s \in {u \in SetToSeqs(r.returns) :
                  \A i, j \in DOMAIN u : i < j => ~Greater(Moved(u[j]), Moved(u[i]))}}

TopMovers(r) ==
  IF Cardinality(r.returns) # Cardinality(Ticker) \/ Ticker = {} THEN {}
  ELSE {SubSeq(s, 1, Min({Limit, Len(s)})) :
          s \in {u \in SetToSeqs(r.returns) :
                  \A i, j \in DOMAIN u : i < j => ~Greater(Moved(u[j]), Moved(u[i]))}}

-----------------------------------------------------------------------------
Init ==
  /\ day = 0 /\ calendar = <<>>
  /\ closes = [t \in Symbol |-> <<>>]

\* Variant: the calendar counts every day, as those of the constituents.
Trade_everyDay(traded) ==
  /\ day < LastDay
  /\ day' = day + 1
  /\ closes' = [t \in Symbol |-> Append(closes[t], traded[t])]
  /\ calendar' = Append(calendar, day + 1)

\* A day ends: each symbol closed at one of its prices, or did not trade.
Trade(traded) ==
  /\ day < LastDay
  /\ day' = day + 1
  /\ closes' = [t \in Symbol |-> Append(closes[t], traded[t])]
  /\ calendar' = IF traded[Benchmark] # NoClose THEN Append(calendar, day + 1) ELSE calendar

Next ==
  \E traded \in [Symbol -> UNION {Prices[t] : t \in Symbol} \cup {NoClose}] :
    /\ \A t \in Symbol : traded[t] \in Prices[t] \cup {NoClose}
    /\ Trade(traded)

Spec == Init /\ [][Next]_vars

-----------------------------------------------------------------------------
Sessions == ToSet(calendar)
SessionsBetween(c, d) == {e \in Sessions : c < e /\ e <= d}

\* The sessions of the calendar on which t closed, up to session d.
Seen(t, d) == {e \in Sessions : e <= d /\ closes[t][e] # NoClose}

NewestSeen(t, d) == closes[t][Max(Seen(t, d))]

\* At session d, t has a close that is at most MaxFill sessions old.
Fresh(t, d) ==
  Seen(t, d) # {} /\ Cardinality(SessionsBetween(Max(Seen(t, d)), d)) <= MaxFill

\* A price enters a return only while it is fresh: the walk gives each session
\* the newest close of the sessions up to it, if no more than MaxFill sessions
\* have passed since, and calls a session stale only if there was a close.
FreshOnly ==
  \A t \in Ticker, n \in DOMAIN calendar :
    LET carry == Carried(t, calendar)
        d == calendar[n]
    IN  /\ Aligned(carry, n) = IF Fresh(t, d) THEN NewestSeen(t, d) ELSE NoClose
        /\ Stale(carry, n) <=> Seen(t, d) # {} /\ ~Fresh(t, d)

\* Where a window starts.  1d starts at the session before the last one.  Every
\* other window starts at a session that is far enough back, with none between
\* it and the day it reaches back to; it has no start only if no session is that
\* far back, or there are fewer than two.  As of a session, then, a longer
\* window never starts after a shorter one.
Reaching == {"7d", "30d", "ytd"}

BackTo(w, d) ==
  CASE w = "7d"  -> d - Week
    [] w = "30d" -> d - Month
    [] w = "ytd" -> IF d < NewYear THEN 0 ELSE NewYear - 1

WindowsNested ==
  \A d \in 1..day :
    LET from == [w \in Window |-> BasketReturn(w, d, calendar).start]
        few == Cardinality(SessionsBetween(0, d)) < 2
    IN  /\ \A w \in Reaching :
             IF few \/ SessionsBetween(0, BackTo(w, d)) = {} THEN from[w] = 0
             ELSE /\ from[w] \in Sessions /\ from[w] <= BackTo(w, d)
                  /\ SessionsBetween(from[w], BackTo(w, d)) = {}
        /\ IF few THEN from["1d"] = 0
           ELSE /\ from["1d"] \in Sessions
                /\ Cardinality(SessionsBetween(from["1d"], d)) = 1
        /\ d \in Sessions => from["30d"] <= from["7d"] /\ from["7d"] <= from["1d"]

\* What is missing is put down to the right problem: a stale name was priced
\* before, and is not fresh now or when the window started; an unpriced one was
\* not priced when the window started, or at zero, unless the result is as of a
\* day without a session.  Top movers are named only when nothing is missing:
\* as of a session, every name is fresh then and when the window started, when
\* it was not at zero; and whoever is not named moved no more than they.
Attributed ==
  \A d \in 1..day, w \in Window :
    LET r == BasketReturn(w, d, calendar)
    IN  /\ r.stale \cap {x.ticker : x \in r.returns} = {}
        /\ \A t \in r.stale : Seen(t, d) # {} /\ ~(Fresh(t, r.start) /\ Fresh(t, d))
        /\ r.start # 0 /\ d \in Sessions => \A t \in r.unpriced :
             Seen(t, r.start) = {} \/ NewestSeen(t, r.start) = 0
        /\ \A m \in TopMovers(r) :
             /\ d \in Sessions
             /\ \A t \in Ticker :
                  Fresh(t, r.start) /\ Fresh(t, d) /\ NewestSeen(t, r.start) # 0
             /\ \A x \in r.returns \ ToSet(m), y \in ToSet(m) :
                  ~Greater(Moved(x), Moved(y))

\* The return of a basket lies between those of its priced constituents, and
\* when it is not zero one of them moved its way.
Within ==
  \A d \in 1..day, w \in Window :
    LET r == BasketReturn(w, d, calendar)
    IN  r.returns # {} =>
          /\ \E x \in r.returns : ~Greater(x.value, r.summary.raw)
          /\ \E x \in r.returns : ~Greater(r.summary.raw, x.value)
          /\ r.summary.raw[1] # 0 => r.summary.agree # {}

\* A return as of a day is the one that could be reported on that day: the
\* sessions since then have no part in it.
NoForesight ==
  \A d \in 1..day, w \in Window :
    BasketReturn(w, d, calendar) =
      BasketReturn(w, d, SubSeq(calendar, 1, UpTo(calendar, d)))
=============================================================================
