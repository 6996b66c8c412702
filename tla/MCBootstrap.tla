---------------------------- MODULE MCBootstrap -----------------------------
(***************************************************************************)
(* Instances of Bootstrap for TLC.  The specs come in the order of         *)
(* registry.py: totals have no partner and stand before the by-origin      *)
(* series, and the companies' revenue, again without partner, comes last.  *)
(***************************************************************************)
EXTENDS Bootstrap

CONSTANTS r1, r2, roller, tester, basket, ticker, total, byOrigin, revenue

Nodes == {roller, tester, basket}
Members == {ticker}
Baskets == [m \in Members |-> basket]
Specs == {total, byOrigin, revenue}
NoPartner == {total, revenue}
NodeOfSpec == [s \in Specs |-> IF s = revenue THEN tester ELSE roller]

TwoReplicas == {r1, r2}

\* Every replica is of the release that has everything.
SameHead == [r \in Replica |-> 1]
AllRows == [r \in Replica |-> Nodes]
AllMembers == [r \in Replica |-> Members]
SameAttrs == [r \in Replica |-> 1]
AllSpecs == [r \in Replica |-> <<total, byOrigin, revenue>>]

\* r1 is of the release before, with one migration, node and source less, an
\* empty basket and other texts.
RollingHead == [r \in Replica |-> IF r = r1 THEN 1 ELSE 2]
RollingRows == [r \in Replica |-> IF r = r1 THEN {roller, basket} ELSE Nodes]
RollingMembers == [r \in Replica |-> IF r = r1 THEN {} ELSE Members]
RollingSpecs == [r \in Replica |-> IF r = r1 THEN <<total, byOrigin>>
                                   ELSE <<total, byOrigin, revenue>>]

\* The environment with exactly these settings.
Given(e) == [v \in {"DATABASE_URL", "DATABASE_PUBLIC_URL"} \cup Part |->
               IF v \in DOMAIN e THEN e[v] ELSE "unset"]
Parts(s) == [p \in Part |-> s]

\* The setting of the documentation.
Plain == Given([v \in {"DATABASE_URL"} |-> "right"])

\* Settings that fall short of the database or lead to it by the last form: parts
\* that are not complete, and the public URL beside such parts; a URL that does
\* not parse, and one of a server that is not there, which hide the right parts.
Environments ==
  {Given([v \in {"PGHOST", "PGUSER"} |-> "right"]),
   Given([v \in {"PGHOST", "DATABASE_PUBLIC_URL"} |-> "right"]),
   Given([v \in Part \cup {"DATABASE_URL"} |-> IF v \in Part THEN "right" ELSE "malformed"]),
   Given([v \in Part \cup {"DATABASE_URL"} |-> IF v \in Part THEN "right" ELSE "elsewhere"])}

PlainEnvs == [r \in Replica |-> {Plain}]
RollingEnvs == [r \in Replica |-> IF r = r1 THEN {Given(Parts("right"))} ELSE Environments]

\* A database nothing has booted on.
NoRows == {}
NoSeries == [s \in Specs |-> 0]
=============================================================================
