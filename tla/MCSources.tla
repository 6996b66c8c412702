----------------------------- MODULE MCSources ------------------------------
(***************************************************************************)
(* An instance of Sources for TLC: of four countries one is inside the     *)
(* Union, one is not tracked by anyone and one is a residual of Comext;    *)
(* one of two companies is tracked.                                        *)
(***************************************************************************)
EXTENDS Sources

CONSTANTS japan, germany, vietnam, notSpecified, hiwin, otherCompany, eu, asia

Parties == {japan, germany, vietnam, notSpecified, hiwin, otherCompany}
FilersOf == [k \in Kind |->
  CASE k = "census" -> {japan, germany, vietnam}
    [] k = "comext" -> {japan, germany, vietnam, notSpecified}
    [] k = "twse"   -> {hiwin, otherCompany}]
TrackedBy == [k \in Kind |->
  CASE k = "census" -> {japan, germany}
    [] k = "comext" -> {japan}
    [] k = "twse"   -> {hiwin}]
Members == {germany}
Groups == {eu, asia}
GroupMembers == [g \in Groups |-> IF g = eu THEN {germany} ELSE {japan, vietnam}]
CountryCodes == {japan, germany, vietnam, eu}
GroupingCodes == {eu}
LetterCodes == {japan, germany, vietnam, notSpecified}
ResidualCodes == {notSpecified}
TwoMonths == {<<2025, 12>>, <<2026, 1>>}
Amounts == {0, 1000}
=============================================================================
