--------------------------- MODULE MCMembership -----------------------------
(***************************************************************************)
(* Instances of Membership for TLC: two baskets and two tickers, and every *)
(* baskets.yaml that can be written with them.                             *)
(***************************************************************************)
EXTENDS Membership, TLC

CONSTANTS b1, b2, t1, t2

TwoBaskets == {b1, b2}
OneBasket == {b1}
TwoTickers == {t1, t2}
OneTicker == {t1}

AllReleases == UNION {[B -> SUBSET Ticker] : B \in SUBSET Basket}

Symmetry == Permutations(Basket) \cup Permutations(Ticker)
=============================================================================
