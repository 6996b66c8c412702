------------------------------ MODULE MCIngest ------------------------------
(***************************************************************************)
(* Instances of Ingest for TLC.                                            *)
(***************************************************************************)
EXTENDS Ingest, TLC

CONSTANTS r1, r2, s1, s2, v1, v2

TwoRunners == {r1, r2}
OneRunner == {r1}
TwoSeries == {s1, s2}
OneSeries == {s1}
TwoValues == {v1, v2}
OneValue == {v1}

Symmetry == Permutations(Runner) \cup Permutations(Series) \cup Permutations(Value)
=============================================================================
