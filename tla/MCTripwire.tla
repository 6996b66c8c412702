----------------------------- MODULE MCTripwire -----------------------------
(***************************************************************************)
(* Instances of Tripwire for TLC: one series, and tripwires of every       *)
(* metric and both directions.  A year has two months, so that growth,     *)
(* acceleration and a scored growth rate fit in six.                       *)
(***************************************************************************)
EXTENDS Tripwire

CONSTANT Roller

OneSeries == {Roller}
SomeFigures == {NoValue, 0, 1, 3}

Wire(metric, direction, threshold, periods) ==
  [series |-> Roller, metric |-> metric, direction |-> direction,
   threshold |-> threshold, consecutive_periods |-> periods]

SomeTripwires ==
  {Wire("yoy_pct", "above", <<0, 1>>, 1), Wire("yoy_pct", "below", <<0, 1>>, 1),
   Wire("yoy_pct", "above", <<0, 1>>, 2), Wire("mom_pct", "above", <<0, 1>>, 1),
   Wire("level", "below", <<2, 1>>, 1), Wire("level", "above", <<2, 1>>, 0),
   Wire("level", "above", NoThreshold, 1), Wire("level", NoDirection, <<1, 1>>, 1),
   [Wire("level", "above", <<1, 1>>, 1) EXCEPT !.series = NoSeries]}
=============================================================================
