------------------------------ MODULE MCBaskets -----------------------------
(***************************************************************************)
(* An instance of Baskets for TLC: two constituents, one of which may      *)
(* close at zero, and a benchmark whose calendar skips days.               *)
(***************************************************************************)
EXTENDS Baskets

CONSTANTS Moog, Harmonic, ACWI

TwoTickers == {Moog, Harmonic}
SomePrices == (Moog :> {1, 2}) @@ (Harmonic :> {0, 3}) @@ (ACWI :> {2})
=============================================================================
