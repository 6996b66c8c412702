------------------------------ MODULE Sources ------------------------------
(***************************************************************************)
(* The three fetchers that collect data (ingest/sources): what fetch and   *)
(* normalise make of one answer of the US Census, of Eurostat Comext or of *)
(* the Taiwan Stock Exchange, one row of the answer at a time, and what    *)
(* Fetcher.run (ingest/base.py) hands on to upsert.                        *)
(*                                                                         *)
(* The answer is built from what was filed: importers file shipments,      *)
(* companies file their revenue, and a figure may be withheld.  The filing *)
(* is what a recorded observation is compared with.  A month is a pair     *)
(* <<year, month>>; the Exchange counts years from 1911.                   *)
(***************************************************************************)
EXTENDS Integers, FiniteSets, FiniteSetsExt

CONSTANTS
  Party,      \* who is filed about: countries of origin, companies
  Filers,     \* the parties of each source
  Tracked,    \* TRACKED_ORIGINS, TRACKED_PARTNERS and TRACKED
  Member,     \* the countries inside the European Union
  Group,      \* the groupings and continents of Census
  MembersOf,  \* the parties in each of them
  World, Extra, Intra, \* the codes of the totals
  FourDigits, \* the codes that are four digits
  Zeroes,     \* the codes that begin with "00"
  TwoLetters, \* the codes of two letters
  Residual,   \* the codes that begin with "Q"
  Month,      \* the months figures are filed for
  Amount,     \* what may be filed: dollars, euros, pieces, kilograms
  Aggregate,  \* the series of the total
  Blank,      \* "", "-" or another text that is no number
  None,       \* Python's None
  MaxFilings  \* bound: how many filings are made

Kind == {"census", "comext", "twse"}
Code == Party \cup Group \cup {World, Extra, Intra}

\* An individual country; the rest of a Census answer are sums of countries.
is_country_code(code) == code \in FourDigits \ Zeroes

AGGREGATES == {Extra, Intra}

is_real_partner(code) == code \in TwoLetters \ (AGGREGATES \cup Residual)

ASSUME SourcesAssumption ==
  /\ Filers \in [Kind -> SUBSET Party]
  /\ \A k \in Kind : Tracked[k] \subseteq Filers[k]
  /\ Member \subseteq Party
  /\ MembersOf \in [Group -> SUBSET Party]
  /\ \A c \in Filers["census"] : is_country_code(c)
  /\ \A c \in Group \cup {World} : ~is_country_code(c)
  /\ \A c \in Tracked["comext"] : is_real_partner(c)
  /\ Group \cap Party = {}
  /\ {World, Extra, Intra} \cap (Party \cup Group) = {}
  /\ World # Extra /\ World # Intra /\ Extra # Intra
  /\ Month \subseteq Int \X (1..12)
  /\ Amount \subseteq Nat /\ \A a \in Amount : a % 1000 = 0
  /\ Aggregate \notin Party
  /\ Blank \notin Int /\ None \notin Int /\ None \notin Int \X Int
  /\ MaxFilings \in Nat

VARIABLES
  kind,       \* the source
  keyed,      \* CENSUS_API_KEY is set
  filed,      \* what has been filed
  pc,         \* where the fetcher stands
  asked,      \* the month it is asked for
  period,     \* the month its observations are for
  body,       \* the rows of the answer
  left,       \* the rows it has still to read
  seen_total, \* Census: the world row, once it has been read
  by_partner, \* Comext: the numbers read, by partner and indicator
  emitted,    \* has a row counted towards the answer's being usable
  yielded,    \* the observations so far
  why         \* why the answer was refused

vars == <<kind, keyed, filed, pc, asked, period, body, left, seen_total,
          by_partner, emitted, yielded, why>>

Leg == {"value", "quantity"}
Filing == [month : Month, party : Party, value : Amount, quantity : Amount,
           hidden : SUBSET Leg]
Figure == Int \cup {None}
UnitValue == (Int \X Int) \cup {None}
Observation == [series : Party \cup {Aggregate}, month : Month,
                value : Figure, quantity : Figure, unit_value : UnitValue]
PC == {"idle", "opened", "rows", "partners", "finished", "refused"}
Why == {"not refused", "fetch", "unreadable", "empty", "other month", "malformed", "unusable"}

\* series_specs: a series for each tracked party and, for trade, the total.
series_specs(k) == Tracked[k] \cup (IF k = "twse" THEN {} ELSE {Aggregate})

TypeOK ==
  /\ kind \in Kind /\ keyed \in BOOLEAN
  /\ filed \subseteq Filing
  /\ pc \in PC
  /\ asked \in Month /\ period \in Month
  /\ \A row \in body : row.code \in Code
  /\ left \subseteq body
  /\ \A t \in seen_total : t \in [value : Figure, quantity : Figure]
  /\ by_partner \subseteq [code : Code, leg : Leg, obs : Int]
  /\ emitted \in BOOLEAN
  /\ yielded \subseteq Observation
  /\ \A o \in yielded : o.series \in series_specs(kind)
  /\ why \in Why /\ (pc = "refused" <=> why # "not refused")

-----------------------------------------------------------------------------
(***************************************************************************)
(* The answer of a source (external).                                      *)
(***************************************************************************)
\* The filings of month m by the parties ps, and the sum of one leg of them.
FiledBy(m, ps) == {f \in filed : f.month = m /\ f.party \in ps}
Sum(fs, leg) == MapThenSumSet(LAMBDA f : f[leg], fs)
SumOf(m, ps, leg) == Sum(FiledBy(m, ps), leg)

\* The text of a leg, in the unit the source publishes it in.
Text(f, leg, unit) == IF leg \in f.hidden THEN Blank ELSE f[leg] \div unit

\* Census: a row for each country, grouping and continent, and the world.  A
\* quantity that is withheld is a zero with the flag M.
CensusRows(m) ==
  {[code |-> f.party,
    value |-> Text(f, "value", 1),
    quantity |-> IF "quantity" \in f.hidden THEN 0 ELSE f.quantity,
    flag |-> "quantity" \in f.hidden] : f \in FiledBy(m, Filers["census"])}
  \cup
  {[code |-> g,
    value |-> SumOf(m, MembersOf[g], "value"),
    quantity |-> SumOf(m, MembersOf[g], "quantity"),
    flag |-> FALSE] : g \in {h \in Group : FiledBy(m, MembersOf[h]) # {}}}
  \cup
  {[code |-> World,
    value |-> SumOf(m, Party, "value"),
    quantity |-> SumOf(m, Party, "quantity"),
    flag |-> FALSE] : f \in FiledBy(m, Party)}

\* Comext: a row for each partner and indicator, and for the totals inside
\* and outside of the Union; the quantity in units of 100 kilograms.
Unit(leg) == IF leg = "value" THEN 1 ELSE 100

TotalRows(code, m, ps) ==
  {[code |-> code, leg |-> leg, obs |-> SumOf(m, ps, leg) \div Unit(leg)] :
     leg \in {l \in Leg : FiledBy(m, ps) # {}}}

ComextRows(m) ==
  {[code |-> f.party, leg |-> leg, obs |-> Text(f, leg, Unit(leg))] :
     f \in FiledBy(m, Filers["comext"]), leg \in Leg}
  \cup TotalRows(Extra, m, Party \ Member) \cup TotalRows(Intra, m, Member)

\* The Exchange: a record for each company, in thousands.
Roc(m) == <<m[1] - 1911, m[2]>>

TwseRows(m) ==
  {[code |-> f.party, month |-> Roc(m),
    revenue |-> Text(f, "value", 1000)] : f \in FiledBy(m, Filers["twse"])}

Rows(m) == IF kind = "census" THEN CensusRows(m)
           ELSE IF kind = "comext" THEN ComextRows(m) ELSE TwseRows(m)

\* What a request for month a is answered with: the Exchange has one address,
\* which serves the newest month.
Ordinal(m) == 12 * m[1] + m[2]

Serves(m, a) ==
  IF kind = "twse"
    THEN /\ \A f \in filed : Ordinal(f.month) <= Ordinal(m)
         /\ filed # {} => \E f \in filed : f.month = m
    ELSE m = a

\* A party files its figures for a month, once; some may be withheld.
File(f) ==
  /\ pc = "idle"
  /\ Cardinality(filed) < MaxFilings
  /\ f.party \in Filers[kind]
  /\ FiledBy(f.month, {f.party}) = {}
  /\ filed' = filed \cup {f}
  /\ UNCHANGED <<kind, keyed, pc, asked, period, body, left, seen_total,
                 by_partner, emitted, yielded, why>>
-----------------------------------------------------------------------------
(***************************************************************************)
(* fetch and normalise.                                                    *)
(***************************************************************************)
Refuse(reason) == pc' = "refused" /\ why' = reason
GoTo(p) == pc' = p /\ UNCHANGED why

\* Census is not asked without a key, to which it would answer 200 and HTML;
\* any source may answer with another status, or with a body of another shape.
FetchFails(a) ==
  /\ pc = "idle"
  /\ asked' = a
  /\ Refuse("fetch")
  /\ UNCHANGED <<kind, keyed, filed, period, body, left, seen_total, by_partner,
                 emitted, yielded>>

Fetch(a, m) ==
  /\ pc = "idle"
  /\ kind = "census" => keyed
  /\ Serves(m, a)
  /\ asked' = a
  /\ period' = a
  /\ body' = Rows(m)
  /\ left' = Rows(m)
  /\ GoTo("opened")
  /\ UNCHANGED <<kind, keyed, filed, seen_total, by_partner, emitted, yielded>>

\* Year 115 of the Republic of China is 2026.
roc_to_date(d) == <<d[1] + 1911, d[2]>>

\* An answer whose text does not parse, whose header lacks a column or whose
\* first record has no month raises; one without rows is refused, and so is a
\* Taiwanese one whose first record is not of the month asked.
Open ==
  /\ pc = "opened"
  /\ \/ Refuse("unreadable") /\ UNCHANGED period
     \/ /\ left = {}
        /\ Refuse("empty") /\ UNCHANGED period
     \/ /\ left # {} /\ kind # "twse"
        /\ GoTo("rows") /\ UNCHANGED period
     \/ /\ kind = "twse"
        /\ \E first \in left :
             IF roc_to_date(first.month) = asked
               THEN GoTo("rows") /\ period' = roc_to_date(first.month)
               ELSE Refuse("other month") /\ UNCHANGED period
  /\ UNCHANGED <<kind, keyed, filed, asked, body, left, seen_total, by_partner,
                 emitted, yielded>>

\* Variant: a quantity of zero is divided by.
with_unit_value_byZero(value, quantity) ==
  IF value = None \/ quantity = None THEN None ELSE <<value, quantity>>

\* A unit value needs both legs and a quantity that is not zero.
with_unit_value(value, quantity) ==
  IF value = None \/ quantity \in {None, 0} THEN None ELSE <<value, quantity>>

Observed(series, value, quantity, suppress_unit_value) ==
  [series |-> series, month |-> period, value |-> value, quantity |-> quantity,
   unit_value |-> IF suppress_unit_value THEN None
                                         ELSE with_unit_value(value, quantity)]

to_int(text) == IF text = Blank THEN None ELSE text

\* Variant: the flag is not looked at.
CensusFigures_unflagged(row) ==
  [value |-> to_int(row.value), quantity |-> to_int(row.quantity)]

\* A row of Census: the world total is kept for the end, other sums are
\* skipped, any country counts and the tracked ones are observed.
CensusFigures(row) ==
  [value |-> to_int(row.value),
   quantity |-> IF row.flag THEN None ELSE to_int(row.quantity)]

CensusObservation(row) ==
  Observed(row.code, CensusFigures(row).value, CensusFigures(row).quantity, FALSE)

\* Variant: only a tracked country counts.
ReadCensus_trackedCount(row) ==
  /\ pc = "rows" /\ kind = "census"
  /\ row \in left
  /\ left' = left \ {row}
  /\ seen_total' = IF row.code = World THEN {CensusFigures(row)} ELSE seen_total
  /\ emitted' = (emitted \/ row.code \in Tracked["census"])
  /\ yielded' = IF row.code \in Tracked["census"]
                  THEN yielded \cup {CensusObservation(row)} ELSE yielded
  /\ UNCHANGED <<kind, keyed, filed, pc, asked, period, body, by_partner, why>>

ReadCensus(row) ==
  /\ pc = "rows" /\ kind = "census"
  /\ row \in left
  /\ left' = left \ {row}
  /\ seen_total' = IF row.code = World THEN {CensusFigures(row)} ELSE seen_total
  /\ emitted' = (emitted \/ is_country_code(row.code))
  /\ yielded' = IF row.code \in Tracked["census"]
                  THEN yielded \cup {CensusObservation(row)} ELSE yielded
  /\ UNCHANGED <<kind, keyed, filed, pc, asked, period, body, by_partner, why>>

EndCensus ==
  /\ pc = "rows" /\ kind = "census"
  /\ left = {}
  /\ IF emitted
       THEN /\ GoTo("finished")
            /\ yielded' = yielded \cup
                 {Observed(Aggregate, t.value, t.quantity, TRUE) : t \in seen_total}
       ELSE Refuse("unusable") /\ UNCHANGED yielded
  /\ UNCHANGED <<kind, keyed, filed, asked, period, body, left, seen_total,
                 by_partner, emitted>>

\* Variant: a figure that is no number takes its partner's others with it.
Pivoted_drops(row) ==
  IF row.obs = Blank
    THEN {c \in by_partner : c.code # row.code}
    ELSE by_partner \cup {row}

\* A row of Comext: a number goes under its partner and indicator, where it
\* replaces an earlier one; what is no number is passed over.
Pivoted(row) ==
  IF row.obs = Blank
    THEN by_partner
    ELSE {c \in by_partner : ~(c.code = row.code /\ c.leg = row.leg)} \cup {row}

ReadComext(row) ==
  /\ pc = "rows" /\ kind = "comext"
  /\ row \in left
  /\ left' = left \ {row}
  /\ by_partner' = Pivoted(row)
  /\ UNCHANGED <<kind, keyed, filed, pc, asked, period, body, seen_total, emitted,
                 yielded, why>>

EndPivot ==
  /\ pc = "rows" /\ kind = "comext"
  /\ left = {}
  /\ GoTo("partners")
  /\ UNCHANGED <<kind, keyed, filed, asked, period, body, left, seen_total,
                 by_partner, emitted, yielded>>

\* Variants: both totals are taken for the aggregate; any country has a series.
series_key_bothTotals(code) ==
  IF code \in AGGREGATES
    THEN {Aggregate}
    ELSE IF is_real_partner(code) /\ code \in Tracked["comext"] THEN {code} ELSE {}

series_key_anyPartner(code) ==
  IF code \in AGGREGATES
    THEN IF code = Extra THEN {Aggregate} ELSE {}
    ELSE IF is_real_partner(code) THEN {code} ELSE {}

\* The series of a partner: at most one.
series_key(code) ==
  IF code \in AGGREGATES
    THEN IF code = Extra THEN {Aggregate} ELSE {}
    ELSE IF is_real_partner(code) /\ code \in Tracked["comext"] THEN {code} ELSE {}

\* values.get(indicator), the quantity in kilograms.
Got(code, leg) ==
  LET cells == {c \in by_partner : c.code = code /\ c.leg = leg}
  IN IF cells = {} THEN None ELSE (CHOOSE c \in cells : TRUE).obs

Kilograms(hundred_kg) == IF hundred_kg = None THEN None ELSE hundred_kg * 100

ComextObservation(code, series) ==
  Observed(series, Got(code, "value"), Kilograms(Got(code, "quantity")), FALSE)

YieldPartner(code) ==
  /\ pc = "partners"
  /\ \E c \in by_partner : c.code = code
  /\ by_partner' = {c \in by_partner : c.code # code}
  /\ yielded' = yielded \cup {ComextObservation(code, s) : s \in series_key(code)}
  /\ emitted' = (emitted \/ series_key(code) # {})
  /\ UNCHANGED <<kind, keyed, filed, pc, asked, period, body, left, seen_total,
                 why>>

EndComext ==
  /\ pc = "partners"
  /\ by_partner = {}
  /\ IF emitted THEN GoTo("finished") ELSE Refuse("unusable")
  /\ UNCHANGED <<kind, keyed, filed, asked, period, body, left, seen_total,
                 by_partner, emitted, yielded>>

\* A record of the Exchange: revenue is in thousands.
TwseObservation(row) == Observed(row.code, row.revenue * 1000, None, TRUE)

ReadTwse(row) ==
  /\ pc = "rows" /\ kind = "twse"
  /\ row \in left
  /\ left' = left \ {row}
  /\ IF row.code \in Tracked["twse"] /\ row.revenue # Blank
       THEN /\ emitted' = TRUE
            /\ yielded' = yielded \cup {TwseObservation(row)}
       ELSE UNCHANGED <<emitted, yielded>>
  /\ UNCHANGED <<kind, keyed, filed, pc, asked, period, body, seen_total, by_partner,
                 why>>

EndTwse ==
  /\ pc = "rows" /\ kind = "twse"
  /\ left = {}
  /\ IF emitted THEN GoTo("finished") ELSE Refuse("unusable")
  /\ UNCHANGED <<kind, keyed, filed, asked, period, body, left, seen_total,
                 by_partner, emitted, yielded>>

\* A row does not parse: run raises, and the observations are not handed on.
Malformed ==
  /\ pc = "rows" /\ left # {}
  /\ Refuse("malformed")
  /\ yielded' = {}
  /\ UNCHANGED <<kind, keyed, filed, asked, period, body, left, seen_total,
                 by_partner, emitted>>

-----------------------------------------------------------------------------
Init ==
  /\ kind \in Kind
  /\ keyed \in BOOLEAN /\ (kind # "census" => keyed)  \* only Census has a key
  /\ filed = {}
  /\ pc = "idle"
  /\ asked \in Month /\ period = asked
  /\ body = {} /\ left = {}
  /\ seen_total = {} /\ by_partner = {}
  /\ emitted = FALSE
  /\ yielded = {}
  /\ why = "not refused"

Next ==
  \/ \E f \in Filing : File(f)
  \/ \E a \in Month : FetchFails(a) \/ \E m \in Month : Fetch(a, m)
  \/ Open
  \/ \E row \in left : ReadCensus(row) \/ ReadComext(row) \/ ReadTwse(row)
  \/ \E code \in Code : YieldPartner(code)
  \/ EndCensus \/ EndPivot \/ EndComext \/ EndTwse \/ Malformed

Spec == Init /\ [][Next]_vars

-----------------------------------------------------------------------------
\* One observation for each series: upsert puts them into one INSERT, whose
\* conflict clause may not meet a row twice, and module Ingest relies on it.
OneEach == \A o, p \in yielded : o.series = p.series => o = p

Known(f, leg) == IF leg \in f.hidden THEN None ELSE f[leg]

\* The observation of a party is what it filed for the month asked, in dollars,
\* euros, pieces and kilograms, and a figure that is withheld is no number:
\* never zero, never another month's, never in the source's own unit.
AsFiled ==
  \A o \in yielded : o.series # Aggregate =>
    \E f \in filed :
      /\ f.party = o.series
      /\ f.month = asked /\ o.month = asked
      /\ o.value = Known(f, "value")
      /\ o.quantity = IF kind = "twse" THEN None ELSE Known(f, "quantity")

\* What the answer holds for a series: a tracked party's value for the month
\* asked, which the Exchange has until a newer month is filed.
Published(f) ==
  /\ f.month = asked
  /\ f.party \in Tracked[kind]
  /\ "value" \notin f.hidden
  /\ kind = "twse" => \A g \in filed : Ordinal(g.month) <= Ordinal(asked)

\* What the rows say is unusable.
Rejected == why \in {"empty", "other month", "unusable"}

\* No published value is lost: it is observed, and the answer that holds it is
\* not refused, whatever else is missing from it.
NothingLost ==
  \A f \in filed : Published(f) =>
    /\ ~Rejected
    /\ pc = "finished" => \E o \in yielded : o.series = f.party

\* Whose imports the total sums.
Summed == IF kind = "comext" THEN Party \ Member ELSE Party

\* The total is the sum of all that was filed, each country once, tracked or
\* not, and of nothing the Union's members sold each other; and when anything
\* was filed there is a total.
Reconciles ==
  /\ \A o \in yielded : o.series = Aggregate =>
       /\ o.value = SumOf(asked, Summed, "value")
       /\ o.quantity = SumOf(asked, Summed, "quantity")
  /\ kind # "twse" /\ FiledBy(asked, Summed) # {} =>
       /\ ~Rejected
       /\ pc = "finished" => \E o \in yielded : o.series = Aggregate

\* The price of a quantity: none of nothing.
IsPrice(unit_value, value, quantity) ==
  IF quantity = 0 THEN unit_value = None
  ELSE /\ unit_value # None /\ unit_value[2] # 0
       /\ unit_value[1] * quantity = value * unit_value[2]

\* A unit value is the price of the imports that the observation is about, in
\* dollars a piece or in euros a kilogram: of what one party filed, if it
\* withheld neither figure, or of all that the Comext total sums.  A company's
\* revenue and the Census total have none.  (base.py, of the flag that leaves
\* one out, means it for every "aggregate across origins"; Comext's sets none.)
UnitValues ==
  \A o \in yielded :
    /\ kind = "twse" \/ (kind = "census" /\ o.series = Aggregate) => o.unit_value = None
    /\ kind = "comext" /\ o.series = Aggregate =>
         IsPrice(o.unit_value, SumOf(asked, Summed, "value"), SumOf(asked, Summed, "quantity"))
    /\ kind # "twse" /\ o.series # Aggregate =>
         \A f \in FiledBy(asked, {o.series}) :
           IF f.hidden # {} THEN o.unit_value = None
           ELSE IsPrice(o.unit_value, f.value, f.quantity)

(***************************************************************************)
(* Why these hold: how far the reading is.                                 *)
(***************************************************************************)
Reading == pc \in {"rows", "partners", "finished"} \/ why \in {"malformed", "unusable"}
Opened == pc = "opened" \/ why \in {"unreadable", "empty", "other month"}

\* The answer is what the source has for the month it serves, and that is the
\* month asked once the fetcher reads it.
AnswerInv ==
  /\ kind \in Kind /\ filed \subseteq Filing /\ asked \in Month
  /\ pc \in PC /\ (pc = "refused" <=> why # "not refused")
  /\ \A f, g \in filed : f.month = g.month /\ f.party = g.party => f = g
  /\ Opened => period = asked /\ \E m \in Month : Serves(m, asked) /\ body = Rows(m)
  /\ Reading => period = asked /\ body = Rows(asked)
  /\ pc \in {"idle", "opened"} \/ why \in {"fetch", "unreadable", "empty", "other month"} =>
       yielded = {} /\ by_partner = {} /\ ~emitted
  /\ pc = "opened" \/ why = "empty" => left = body
  /\ why = "empty" => left = {}
  /\ why = "other month" => kind = "twse" /\ body # Rows(asked)

\* No series is yielded that has yet to be.
Apart ==
  \A o \in yielded :
    /\ \A row \in left : o.series # row.code
    /\ \A c \in by_partner : o.series \notin series_key(c.code)

\* What has been read and yielded is out of what is still to come.
PendingInv ==
  /\ left \subseteq body
  /\ pc \in {"partners", "finished"} \/ why = "unusable" => left = {}
  /\ pc = "partners" => kind = "comext"
  /\ kind # "comext" => by_partner = {}
  /\ kind = "comext" /\ pc = "rows" => yielded = {} /\ ~emitted
  /\ kind = "comext" /\ (pc = "finished" \/ why = "unusable") => by_partner = {}
  /\ pc = "rows" => \A o \in yielded : o.series # Aggregate
  /\ \A t, u \in seen_total : t = u
  /\ Apart

\* Comext: the numbers of a partner stay together until it is yielded.
PivotInv ==
  kind = "comext" =>
    /\ by_partner \subseteq {row \in body \ left : row.obs # Blank}
    /\ pc = "rows" => \A d \in body \ left : d.obs # Blank => d \in by_partner
    /\ \A c \in by_partner, d \in body \ left :
         d.code = c.code /\ d.obs # Blank => d \in by_partner

\* What has been read is not lost, and counts.
CensusDone ==
  \A row \in body \ left :
    /\ row.code \in Tracked["census"] => \E o \in yielded : o.series = row.code
    /\ is_country_code(row.code) => emitted

ComextDone ==
  \A row \in body \ left : row.obs # Blank =>
    \/ row \in by_partner
    \/ \A s \in series_key(row.code) :
         emitted /\ \E o \in yielded : o.series = s

TwseDone ==
  \A row \in body \ left : row.code \in Tracked["twse"] /\ row.revenue # Blank =>
    emitted /\ \E o \in yielded : o.series = row.code

DoneInv ==
  Reading /\ why # "malformed" =>
    /\ kind = "census" => CensusDone
    /\ kind = "comext" => ComextDone
    /\ kind = "twse" => TwseDone
    /\ pc = "finished" => emitted
    /\ why = "unusable" => ~emitted

\* How a unit value comes about.
UnitInv ==
  \A o \in yielded :
    o.unit_value = IF kind = "twse" \/ (kind = "census" /\ o.series = Aggregate)
                     THEN None ELSE with_unit_value(o.value, o.quantity)

\* The world row of Census is kept until the end, and a total that is yielded
\* is the sum of what was filed.
Totals == [value |-> SumOf(asked, Party, "value"), quantity |-> SumOf(asked, Party, "quantity")]

TotalInv ==
  /\ IsFiniteSet(filed)
  /\ \A f \in filed : f.party \in Filers[kind]
  /\ body # {} => Opened \/ Reading
  /\ seen_total # {} => kind = "census" /\ Reading
  /\ \A t \in seen_total : t = Totals
  /\ kind = "census" /\ Reading => \A row \in body \ left : row.code = World => seen_total # {}
  /\ kind = "census" /\ pc = "finished" /\ seen_total # {} => \E o \in yielded : o.series = Aggregate
  /\ \A o \in yielded : o.series = Aggregate =>
       /\ o.value = SumOf(asked, Summed, "value")
       /\ o.quantity = SumOf(asked, Summed, "quantity")

\* The inductive invariant.
IInv ==
  /\ AnswerInv /\ PendingInv /\ PivotInv /\ DoneInv /\ UnitInv
  /\ OneEach /\ AsFiled
=============================================================================
