------------------------------ MODULE Vintages ------------------------------
(***************************************************************************)
(* What the observations table promises its readers (models/constraint.py  *)
(* lines 121-162 and the as-of query of api/routes/series.py lines 48-87): *)
(* figures are only ever added, each under the day it was first seen, and  *)
(* a figure once recorded never changes.  Nothing here says how a figure   *)
(* is fetched or when a transaction commits: module Ingest implements this *)
(* specification.                                                          *)
(***************************************************************************)
EXTENDS Naturals

CONSTANTS
  Series,   \* the series of one source
  Period,   \* the months being measured
  Value     \* the figures a source may publish

VARIABLES
  store,    \* the recorded figures
  today     \* the calendar day

vars == <<store, today>>

Entry == [series : Series, period : Period, vintage : Nat, value : Value]

\* Two entries answer for the same month of the same series on the same day.
SameVintage(a, b) ==
  a.series = b.series /\ a.period = b.period /\ a.vintage = b.vintage

\* One figure for each series, period and vintage.
Distinct(S) == \A a, b \in S : SameVintage(a, b) => a = b

TypeOK ==
  /\ store \subseteq Entry
  /\ today \in Nat

(***************************************************************************)
(* The table as a reader sees it "as at" day v: for every month, the entry *)
(* with the latest vintage that is not after v.                            *)
(***************************************************************************)
AsOf(S, v) ==
  {e \in S :
     /\ e.vintage <= v
     /\ \A f \in S :
          (f.series = e.series /\ f.period = e.period /\ f.vintage <= v)
            => f.vintage <= e.vintage}

Init ==
  /\ store = {}
  /\ today = 0

\* One transaction: the new entries of one month, fetched on one day that is
\* not in the future, none of them for a vintage that is already there.
Record ==
  /\ store \subseteq store'
  /\ store' \subseteq Entry
  /\ \E p \in Period, v \in 0..today :
       \A e \in store' \ store : e.period = p /\ e.vintage = v
  /\ Distinct(store')
  /\ UNCHANGED today

NextDay ==
  /\ today' = today + 1
  /\ UNCHANGED store

Next == Record \/ NextDay

Spec == Init /\ [][Next]_vars
=============================================================================
