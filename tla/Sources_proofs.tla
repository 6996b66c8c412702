--------------------------- MODULE Sources_proofs ---------------------------
(***************************************************************************)
(* For every set of parties, tracked parties, groupings, months and        *)
(* amounts, and for answers of any length: what module Sources hands on    *)
(* to upsert has one observation for each series, each is what was filed,  *)
(* a unit value is made only of what both legs publish, no published value *)
(* is lost, and the totals are the sums of what was filed.  The sums of    *)
(* what the units of publication divided come back by module Sums.         *)
(***************************************************************************)
EXTENDS Sources, Sums

(***************************************************************************)
(* The figures of a filing.                                                *)
(***************************************************************************)
\* What is divided by the unit of publication comes back when multiplied.
LEMMA Exact ==
  ASSUME NEW a \in Amount
  PROVE  /\ a \in Nat
         /\ (a \div 1) = a
         /\ (a \div 100) \in Int /\ (a \div 100) * 100 = a
         /\ (a \div 1000) \in Int /\ (a \div 1000) * 1000 = a
<1>1. a \in Nat /\ a % 1000 = 0
  BY SourcesAssumption
<1> QED BY <1>1, SMTT(30)

LEMMA UnitExact ==
  ASSUME NEW a \in Amount
  PROVE  /\ \A leg \in Leg : (a \div Unit(leg)) \in Int
         /\ (a \div Unit("value")) = a
         /\ (a \div Unit("quantity")) # None
         /\ (a \div Unit("quantity")) * 100 = a
<1>1. Unit("value") = 1 /\ Unit("quantity") = 100
  BY DEF Unit
<1>2. Leg = {"value", "quantity"}
  BY DEF Leg
<1>3. None \notin Int
  BY SourcesAssumption
<1> QED BY <1>1, <1>2, <1>3, Exact

\* The texts of a filing are read back as its figures.
LEMMA TextRead ==
  ASSUME NEW f \in Filing
  PROVE  /\ f["value"] = f.value /\ f.value \in Nat
         /\ f["quantity"] = f.quantity /\ f.quantity \in Nat /\ f.quantity # Blank
         /\ to_int(Text(f, "value", 1)) = Known(f, "value")
         /\ "value" \notin f.hidden =>
              /\ Text(f, "value", 1) # Blank /\ Text(f, "value", 1000) # Blank
              /\ Text(f, "value", 1000) * 1000 = Known(f, "value")
<1>1. /\ f["value"] = f.value /\ f["quantity"] = f.quantity
      /\ f.value \in Amount /\ f.quantity \in Amount
  BY DEF Filing
<1>2. /\ f.value \in Nat /\ f.quantity \in Nat
      /\ (f.value \div 1) = f.value
      /\ (f.value \div 1000) \in Int /\ (f.value \div 1000) * 1000 = f.value
  BY <1>1, Exact
<1>3. f.value # Blank /\ f.quantity # Blank /\ (f.value \div 1000) # Blank
  BY <1>2, SourcesAssumption
<1>4. CASE "value" \in f.hidden
  BY <1>1, <1>2, <1>3, <1>4 DEF Text, to_int, Known
<1>5. CASE "value" \notin f.hidden
  <2>1. /\ Text(f, "value", 1) = f.value /\ Text(f, "value", 1000) = f.value \div 1000
        /\ Known(f, "value") = f.value
    BY <1>1, <1>2, <1>5 DEF Text, Known
  <2>2. to_int(Text(f, "value", 1)) = f.value
    BY <1>3, <2>1 DEF to_int
  <2> QED BY <1>1, <1>2, <1>3, <2>1, <2>2
<1> QED BY <1>4, <1>5

USE SourcesAssumption DEF Kind, Code

(***************************************************************************)
(* The rows of an answer.                                                  *)
(***************************************************************************)
\* Within a month no two rows of Census are for one country, and the row of a
\* country is made of its filing.
LEMMA CensusRow ==
  ASSUME NEW m \in Month, filed \subseteq Filing,
         NEW row \in CensusRows(m), row.code \in Party
  PROVE  \E f \in filed :
           /\ f.month = m /\ f.party = row.code /\ f.party \in Filers["census"]
           /\ row = [code |-> f.party,
                     value |-> Text(f, "value", 1),
                     quantity |-> IF "quantity" \in f.hidden THEN 0 ELSE f.quantity,
                     flag |-> "quantity" \in f.hidden]
  BY DEF CensusRows, FiledBy

LEMMA TwseRow ==
  ASSUME NEW m \in Month, filed \subseteq Filing, NEW row \in TwseRows(m)
  PROVE  \E f \in filed :
           /\ f.month = m /\ f.party = row.code /\ f.party \in Filers["twse"]
           /\ row = [code |-> f.party, month |-> Roc(m),
                     revenue |-> Text(f, "value", 1000)]
  BY DEF TwseRows, FiledBy

LEMMA ComextRow ==
  ASSUME NEW m \in Month, filed \subseteq Filing,
         NEW row \in ComextRows(m), row.code \in Party
  PROVE  \E f \in filed :
           /\ f.month = m /\ f.party = row.code /\ f.party \in Filers["comext"]
           /\ row.leg \in Leg
           /\ row = [code |-> f.party, leg |-> row.leg,
                     obs |-> Text(f, row.leg, Unit(row.leg))]
  BY DEF ComextRows, TotalRows, FiledBy

\* Every filing has its row.
LEMMA FilingRow ==
  ASSUME NEW m \in Month, filed \subseteq Filing,
         NEW f \in filed, f.month = m
  PROVE  /\ f.party \in Filers["census"] =>
              \E row \in CensusRows(m) : row.code = f.party
         /\ f.party \in Filers["twse"] =>
              \E row \in TwseRows(m) :
                row.code = f.party /\ row.revenue = Text(f, "value", 1000)
         /\ f.party \in Filers["comext"] =>
              \A leg \in Leg :
                [code |-> f.party, leg |-> leg, obs |-> Text(f, leg, Unit(leg))]
                  \in ComextRows(m)
<1>1. ASSUME f.party \in Filers["census"]
      PROVE  \E row \in CensusRows(m) : row.code = f.party
  <2>1. [code |-> f.party, value |-> Text(f, "value", 1),
         quantity |-> IF "quantity" \in f.hidden THEN 0 ELSE f.quantity,
         flag |-> "quantity" \in f.hidden] \in CensusRows(m)
    BY <1>1 DEF CensusRows, FiledBy
  <2> QED BY <2>1
<1>2. ASSUME f.party \in Filers["twse"]
      PROVE  \E row \in TwseRows(m) :
               row.code = f.party /\ row.revenue = Text(f, "value", 1000)
  <2>1. [code |-> f.party, month |-> Roc(m),
         revenue |-> Text(f, "value", 1000)] \in TwseRows(m)
    <3>1. f \in FiledBy(m, Filers["twse"])
      BY <1>2 DEF FiledBy
    <3> QED BY <3>1 DEF TwseRows
  <2> QED BY <2>1
<1>3. ASSUME f.party \in Filers["comext"], NEW leg \in Leg
      PROVE  [code |-> f.party, leg |-> leg, obs |-> Text(f, leg, Unit(leg))]
               \in ComextRows(m)
  BY <1>3 DEF ComextRows, FiledBy
<1> QED BY <1>1, <1>2, <1>3

\* Census and the Exchange have one row for a party.
LEMMA OneRow ==
  ASSUME NEW m \in Month, AnswerInv
  PROVE  /\ \A r, t \in CensusRows(m) : r.code \in Party /\ r.code = t.code => r = t
         /\ \A r, t \in TwseRows(m) : r.code = t.code => r = t
<1>0. filed \subseteq Filing
  BY DEF AnswerInv
<1>1. ASSUME NEW r \in CensusRows(m), NEW t \in CensusRows(m),
             r.code \in Party, r.code = t.code
      PROVE  r = t
  <2>1. PICK f \in filed :
           /\ f.month = m /\ f.party = r.code
           /\ r = [code |-> f.party, value |-> Text(f, "value", 1),
                   quantity |-> IF "quantity" \in f.hidden THEN 0 ELSE f.quantity,
                   flag |-> "quantity" \in f.hidden]
    BY <1>0, <1>1, CensusRow
  <2>2. PICK g \in filed :
           /\ g.month = m /\ g.party = t.code
           /\ t = [code |-> g.party, value |-> Text(g, "value", 1),
                   quantity |-> IF "quantity" \in g.hidden THEN 0 ELSE g.quantity,
                   flag |-> "quantity" \in g.hidden]
    BY <1>0, <1>1, CensusRow
  <2>3. f = g
    BY <1>1, <2>1, <2>2 DEF AnswerInv
  <2> QED BY <2>1, <2>2, <2>3
<1>2. ASSUME NEW r \in TwseRows(m), NEW t \in TwseRows(m), r.code = t.code
      PROVE  r = t
  <2>1. PICK f \in filed :
           /\ f.month = m /\ f.party = r.code
           /\ r = [code |-> f.party, month |-> Roc(m),
                   revenue |-> Text(f, "value", 1000)]
    BY <1>0, <1>2, TwseRow
  <2>2. PICK g \in filed :
           /\ g.month = m /\ g.party = t.code
           /\ t = [code |-> g.party, month |-> Roc(m),
                   revenue |-> Text(g, "value", 1000)]
    BY <1>0, <1>2, TwseRow
  <2>3. f = g
    BY ZenonT(40), <1>2, <2>1, <2>2 DEF AnswerInv
  <2> QED BY <2>1, <2>2, <2>3
<1> QED BY <1>1, <1>2

\* Comext has one row for a partner and an indicator.
LEMMA OneCell ==
  ASSUME NEW m \in Month, AnswerInv,
         NEW r \in ComextRows(m), NEW t \in ComextRows(m),
         r.code = t.code, r.leg = t.leg
  PROVE  r = t
<1>0. filed \subseteq Filing
  BY DEF AnswerInv
<1>1. CASE r.code \in Party
  <2>1. PICK f \in filed :
           /\ f.month = m /\ f.party = r.code
           /\ r = [code |-> f.party, leg |-> r.leg, obs |-> Text(f, r.leg, Unit(r.leg))]
    BY <1>0, <1>1, ComextRow
  <2>2. PICK g \in filed :
           /\ g.month = m /\ g.party = t.code
           /\ t = [code |-> g.party, leg |-> t.leg, obs |-> Text(g, t.leg, Unit(t.leg))]
    BY <1>0, <1>1, ComextRow
  <2>3. f = g
    BY <2>1, <2>2 DEF AnswerInv
  <2> QED BY <2>1, <2>2, <2>3
<1>2. CASE r.code \notin Party
  <2>2. r \in TotalRows(Extra, m, Party \ Member) \cup TotalRows(Intra, m, Member)
    BY <1>0, <1>2 DEF ComextRows, FiledBy, Filing
  <2>3. t \in TotalRows(Extra, m, Party \ Member) \cup TotalRows(Intra, m, Member)
    BY <1>0, <1>2 DEF ComextRows, FiledBy, Filing
  <2>4. ASSUME NEW code, NEW ps, NEW x \in TotalRows(code, m, ps)
        PROVE  x = [code |-> code, leg |-> x.leg, obs |-> SumOf(m, ps, x.leg) \div Unit(x.leg)]
    BY <2>4 DEF TotalRows
  <2>5. CASE r \in TotalRows(Extra, m, Party \ Member)
    <3>1. t \in TotalRows(Extra, m, Party \ Member)
      BY <2>3, <2>4, <2>5
    <3> QED BY <2>4, <2>5, <3>1
  <2>6. CASE r \in TotalRows(Intra, m, Member)
    <3>1. t \in TotalRows(Intra, m, Member)
      BY <2>3, <2>4, <2>6
    <3> QED BY <2>4, <2>6, <3>1
  <2> QED BY <2>2, <2>5, <2>6
<1> QED BY <1>1, <1>2

\* Two partners do not share a series.
LEMMA SeriesKeyApart ==
  ASSUME NEW c, NEW d, NEW s, s \in series_key(c), s \in series_key(d)
  PROVE  c = d
  BY DEF series_key, AGGREGATES

\* The calendar of the Exchange is read back as it was written.
LEMMA RocBack ==
  ASSUME NEW m \in Month
  PROVE  roc_to_date(Roc(m)) = m
<1>1. PICK y \in Int, n \in 1..12 : m = <<y, n>>
  OBVIOUS
<1> QED BY <1>1 DEF roc_to_date, Roc

\* What Comext's numbers of a tracked partner come to.
LEMMA GotKnown ==
  ASSUME AnswerInv, PivotInv, kind = "comext", pc = "partners", left = {},
         NEW code \in Tracked["comext"], NEW c \in by_partner, c.code = code
  PROVE  \E f \in filed :
           /\ f.party = code /\ f.month = asked
           /\ Got(code, "value") = Known(f, "value")
           /\ Kilograms(Got(code, "quantity")) = Known(f, "quantity")
<1>0. code \in Filers["comext"] /\ code \in Party
  BY ZenonT(40) DEF AnswerInv
<1>1. /\ body = ComextRows(asked) /\ asked \in Month /\ filed \subseteq Filing
      /\ code \in Party /\ code \in Filers["comext"]
  BY ZenonT(40), <1>0 DEF AnswerInv, Reading, Rows
<1>2. c \in ComextRows(asked)
  BY <1>1 DEF PivotInv
<1>3. PICK f \in filed : f.month = asked /\ f.party = code
  BY <1>1, <1>2, ComextRow
<1>4. \A leg \in Leg : f[leg] \in Amount
  BY <1>1, <1>3 DEF Filing, Leg
<1>5. ASSUME NEW leg \in Leg, leg \in f.hidden
      PROVE  Got(code, leg) = None
  <2>1. [code |-> code, leg |-> leg, obs |-> Blank] \in ComextRows(asked)
    BY <1>1, <1>3, <1>5, FilingRow DEF Text
  <2>2. ASSUME NEW d \in by_partner, d.code = code, d.leg = leg PROVE FALSE
    <3>1. d \in ComextRows(asked) /\ d.obs # Blank
      BY <1>1, <2>2 DEF PivotInv
    <3> QED BY <1>1, <2>1, <2>2, <3>1, OneCell
  <2> QED BY <2>2 DEF Got
<1>6. ASSUME NEW leg \in Leg, leg \notin f.hidden
      PROVE  Got(code, leg) = f[leg] \div Unit(leg)
  <2> DEFINE d == [code |-> code, leg |-> leg, obs |-> f[leg] \div Unit(leg)]
  <2>1. d \in ComextRows(asked)
    BY <1>1, <1>3, <1>6, FilingRow DEF Text
  <2>2. d.obs \in Int
    BY <1>4, UnitExact
  <2>3. d \in by_partner
    BY <1>1, <2>1, <2>2 DEF PivotInv
  <2>4. ASSUME NEW e \in by_partner, e.code = code, e.leg = leg PROVE e = d
    <3>1. e \in ComextRows(asked)
      BY <1>1, <2>4 DEF PivotInv
    <3> QED BY <1>1, <2>1, <2>4, <3>1, OneCell
  <2>5. {e \in by_partner : e.code = code /\ e.leg = leg} = {d}
    BY <2>3, <2>4
  <2>6. Got(code, leg) = (CHOOSE e \in {d} : TRUE).obs
    BY <2>5 DEF Got
  <2> HIDE DEF d
  <2>7. (CHOOSE e \in {d} : TRUE) = d
    OBVIOUS
  <2>8. d.obs = f[leg] \div Unit(leg)
    BY DEF d
  <2> QED BY <2>6, <2>7, <2>8
<1>7. Got(code, "value") = Known(f, "value")
  BY <1>4, <1>5, <1>6, UnitExact DEF Leg, Known
<1>8. Kilograms(Got(code, "quantity")) = Known(f, "quantity")
  <2>1. CASE "quantity" \in f.hidden
    BY <1>5, <2>1 DEF Leg, Known, Kilograms
  <2>2. CASE "quantity" \notin f.hidden
    <3>1. Got(code, "quantity") = f["quantity"] \div Unit("quantity")
      BY <1>6, <2>2 DEF Leg
    <3>2. f["quantity"] \in Amount
      BY <1>4 DEF Leg
    <3> QED BY <2>2, <3>1, <3>2, UnitExact DEF Known, Kilograms
  <2> QED BY <2>1, <2>2
<1> QED BY <1>3, <1>7, <1>8

-----------------------------------------------------------------------------
(***************************************************************************)
(* Every action keeps the invariant.                                       *)
(***************************************************************************)
LEMMA InitHolds == Init => IInv
<1> SUFFICES ASSUME Init PROVE IInv
  OBVIOUS
<1>1. AnswerInv
  BY DEF Init, AnswerInv, Opened, Reading, PC
<1>2. PendingInv /\ PivotInv
  BY DEF Init, PendingInv, Apart, PivotInv
<1>3. DoneInv /\ UnitInv /\ OneEach /\ AsFiled
  BY DEF Init, DoneInv, Reading, UnitInv, OneEach, AsFiled
<1> QED BY <1>1, <1>2, <1>3 DEF IInv

LEMMA FileKeeps ==
  ASSUME IInv, NEW f \in Filing, File(f)
  PROVE  IInv'
<1> USE DEF IInv, File
<1>1. AnswerInv'
  <2>1. ~Opened' /\ ~Reading'
    BY DEF AnswerInv, Opened, Reading
  <2>2. (\A g, h \in filed : g.month = h.month /\ g.party = h.party => g = h)'
    <3>1. \A g \in filed : ~(g.month = f.month /\ g.party = f.party)
      BY DEF FiledBy
    <3>2. \A g, h \in filed : g.month = h.month /\ g.party = h.party => g = h
      BY DEF AnswerInv
    <3>3. filed' = filed \cup {f}
      OBVIOUS
    <3> HIDE DEF IInv, File
    <3> QED BY <3>1, <3>2, <3>3
  <2>3. pc = "idle" /\ pc' = "idle" /\ why = "not refused" /\ why' = "not refused"
    BY DEF AnswerInv
  <2>4. kind' \in Kind /\ filed' \subseteq Filing /\ asked' \in Month
    <3>1. kind \in Kind /\ filed \subseteq Filing /\ asked \in Month
      BY DEF AnswerInv
    <3>2. kind' = kind /\ filed' = filed \cup {f} /\ asked' = asked
      OBVIOUS
    <3> HIDE DEF IInv, File
    <3> QED BY <3>1, <3>2
  <2>5. yielded' = {} /\ by_partner' = {} /\ ~emitted'
    BY DEF AnswerInv
  <2> QED BY <2>1, <2>2, <2>3, <2>4, <2>5 DEF AnswerInv, PC
<1>2. yielded = {} /\ by_partner = {} /\ ~emitted
  BY DEF AnswerInv
<1>3. PendingInv' /\ PivotInv'
  BY <1>2 DEF PendingInv, Apart, PivotInv
<1>4. DoneInv' /\ UnitInv' /\ OneEach' /\ AsFiled'
  BY <1>2 DEF AnswerInv, DoneInv, Reading, UnitInv, OneEach, AsFiled
<1> QED BY <1>1, <1>3, <1>4

LEMMA FetchFailsKeeps ==
  ASSUME IInv, NEW a \in Month, FetchFails(a)
  PROVE  IInv'
<1> USE DEF IInv, FetchFails, Refuse
<1>1. yielded = {} /\ by_partner = {} /\ ~emitted
  BY DEF AnswerInv
<1>2. AnswerInv'
  BY DEF AnswerInv, Opened, Reading, PC
<1>3. PendingInv' /\ PivotInv'
  BY <1>1 DEF PendingInv, Apart, PivotInv
<1>4. DoneInv' /\ UnitInv' /\ OneEach' /\ AsFiled'
  BY <1>1 DEF DoneInv, Reading, UnitInv, OneEach, AsFiled
<1> QED BY <1>2, <1>3, <1>4

LEMMA FetchKeeps ==
  ASSUME IInv, NEW a \in Month, NEW m \in Month, Fetch(a, m)
  PROVE  IInv'
<1> USE DEF IInv, Fetch, GoTo
<1>1. yielded = {} /\ by_partner = {} /\ ~emitted
  BY DEF AnswerInv
<1>2. AnswerInv'
  <2>1. Serves(m, a)' /\ body' = Rows(m)'
    BY DEF Serves, Rows, CensusRows, ComextRows, TwseRows, TotalRows, SumOf, FiledBy
  <2>2. ~Reading'
    BY DEF AnswerInv, Reading
  <2> QED BY ZenonT(40), <1>1, <2>1, <2>2 DEF AnswerInv, Opened, PC
<1>3. PendingInv' /\ PivotInv'
  BY <1>1 DEF PendingInv, Apart, PivotInv, AnswerInv
<1>4. DoneInv' /\ UnitInv' /\ OneEach' /\ AsFiled'
  BY <1>1 DEF DoneInv, Reading, UnitInv, OneEach, AsFiled, AnswerInv
<1> QED BY <1>2, <1>3, <1>4

\* The answer does not change while it is read.
LEMMA SameAnswer ==
  ASSUME kind' = kind, filed' = filed
  PROVE  /\ \A m : Rows(m)' = Rows(m)
         /\ \A m, a : Serves(m, a)' = Serves(m, a)
  BY DEF Serves, Rows, CensusRows, ComextRows, TwseRows, TotalRows, SumOf, FiledBy

\* What a step of the reading leaves to be shown of AnswerInv.
LEMMA StillAnswered ==
  ASSUME AnswerInv, Reading, kind' = kind, filed' = filed, asked' = asked,
         period' = period, body' = body, pc' \in PC,
         pc' = "refused" <=> why' # "not refused",
         pc' \notin {"idle", "opened"},
         why' \in {"not refused", "malformed", "unusable"}
  PROVE  AnswerInv'
<1>1. Rows(asked)' = Rows(asked)
  BY SameAnswer
<1>2. ~Opened'
  BY DEF Opened
<1>3. period' = asked' /\ body' = Rows(asked)'
  BY <1>1 DEF AnswerInv
<1> QED BY <1>2, <1>3 DEF AnswerInv

LEMMA OpenKeeps ==
  ASSUME IInv, Open
  PROVE  IInv'
<1> USE DEF IInv
<1>1. /\ yielded = {} /\ by_partner = {} /\ ~emitted /\ left = body
      /\ pc = "opened" /\ why = "not refused"
  BY DEF Open, AnswerInv
<1>2. /\ kind' = kind /\ filed' = filed /\ asked' = asked /\ body' = body
      /\ left' = left /\ yielded' = {} /\ by_partner' = {} /\ ~emitted'
      /\ \A t, u \in seen_total' : t = u
  BY <1>1 DEF Open, PendingInv
<1>0. Apart'
  BY <1>2 DEF Apart
<1>3. PICK m \in Month : Serves(m, asked) /\ body = Rows(m)
  BY <1>1 DEF AnswerInv, Opened
<1>4. /\ \A n : Rows(n)' = Rows(n)
      /\ \A n, a : Serves(n, a)' = Serves(n, a)
  BY <1>2, SameAnswer
<1>5. Serves(m, asked)' /\ body' = Rows(m)' /\ Rows(asked)' = Rows(asked)
  BY <1>2, <1>3, <1>4
<1>6. CASE UNCHANGED period /\ (Refuse("unreadable") \/ (left = {} /\ Refuse("empty")))
  <2>1. /\ ~Reading' /\ pc' = "refused" /\ why' \in {"unreadable", "empty"}
        /\ why' = "empty" => left = {}
    BY <1>6 DEF Refuse, Reading
  <2>2. period' = asked'
    BY <1>1, <1>2, <1>6 DEF AnswerInv, Opened
  <2>3. AnswerInv'
    BY ZenonT(40), <1>1, <1>2, <1>3, <1>5, <1>6, <2>1, <2>2 DEF AnswerInv, PC
  <2>4. PendingInv' /\ PivotInv' /\ DoneInv'
    BY <1>0, <1>1, <1>2, <2>1 DEF PendingInv, PivotInv, DoneInv
  <2> QED BY <1>2, <2>3, <2>4 DEF UnitInv, OneEach, AsFiled
<1>7. CASE left # {} /\ kind # "twse" /\ GoTo("rows") /\ UNCHANGED period
  <2>1. pc' = "rows" /\ why' = "not refused" /\ m = asked
    BY <1>1, <1>3, <1>7 DEF GoTo, Serves
  <2>2. period' = asked' /\ body' = Rows(asked)'
    BY <1>1, <1>2, <1>5, <1>7, <2>1 DEF AnswerInv, Opened
  <2>3. ~Opened'
    BY <2>1 DEF Opened
  <2>4. AnswerInv'
    BY <1>1, <1>2, <2>1, <2>2, <2>3 DEF AnswerInv, PC
  <2>5. PendingInv' /\ PivotInv' /\ DoneInv'
    BY <1>0, <1>1, <1>2, <1>7, <2>1
       DEF PendingInv, PivotInv, DoneInv, CensusDone, ComextDone
  <2> QED BY <1>2, <2>4, <2>5 DEF UnitInv, OneEach, AsFiled
<1>8. ASSUME kind = "twse", NEW first \in left,
             IF roc_to_date(first.month) = asked
               THEN GoTo("rows") /\ period' = roc_to_date(first.month)
               ELSE Refuse("other month") /\ UNCHANGED period
      PROVE  IInv'
  <2>0. Rows(m) = TwseRows(m) /\ Rows(asked) = TwseRows(asked)
    <3>1. kind # "census" /\ kind # "comext"
      BY <1>8
    <3> QED BY <3>1 DEF Rows
  <2>1. first \in TwseRows(m) /\ filed \subseteq Filing
    <3>1. filed \subseteq Filing
      BY DEF AnswerInv
    <3> QED BY ZenonT(40), <1>1, <1>3, <1>8, <2>0, <3>1
  <2>2. roc_to_date(first.month) = m
    BY <2>1, TwseRow, RocBack
  <2>3. CASE m = asked
    <3>1. pc' = "rows" /\ why' = "not refused" /\ period' = asked'
      BY ZenonT(40), <1>1, <1>2, <1>8, <2>2, <2>3 DEF GoTo
    <3>2. body' = Rows(asked)' /\ ~Opened'
      BY <1>2, <1>5, <2>3, <3>1 DEF Opened
    <3>3. AnswerInv'
      BY ZenonT(40), <1>1, <1>2, <3>1, <3>2 DEF AnswerInv, PC
    <3>4. PendingInv' /\ PivotInv' /\ DoneInv'
      BY <1>0, <1>1, <1>2, <1>8, <3>1 DEF PendingInv, PivotInv, DoneInv, TwseDone
    <3> QED BY <1>2, <3>3, <3>4 DEF UnitInv, OneEach, AsFiled
  <2>4. CASE m # asked
    <3>1. pc' = "refused" /\ why' = "other month" /\ period' = period
      BY <1>8, <2>2, <2>4 DEF Refuse
    <3>2. period' = asked' /\ ~Reading'
      BY <1>1, <1>2, <3>1 DEF AnswerInv, Opened, Reading
    <3>3. asked \in Month
      BY DEF AnswerInv
    <3>4. first \notin TwseRows(asked)
      BY <2>1, <2>2, <2>4, <3>3, TwseRow, RocBack
    <3>5. body' # Rows(asked)'
      BY <1>1, <1>2, <1>5, <1>8, <2>0, <3>4
    <3>6. AnswerInv'
      <4>1. Opened' /\ kind' = "twse"
        BY <1>2, <1>8, <3>1 DEF Opened
      <4>2. (\E n \in Month : Serves(n, asked) /\ body = Rows(n))'
        BY <1>2, <1>5
      <4> QED BY ZenonT(40), <1>1, <1>2, <3>1, <3>2, <3>5, <4>1, <4>2 DEF AnswerInv, PC
    <3>7. PendingInv' /\ PivotInv' /\ DoneInv'
      BY <1>0, <1>1, <1>2, <1>8, <3>1, <3>2 DEF PendingInv, PivotInv, DoneInv
    <3> QED BY <1>2, <3>6, <3>7 DEF UnitInv, OneEach, AsFiled
  <2> QED BY <2>3, <2>4
<1>9. \/ UNCHANGED period /\ (Refuse("unreadable") \/ (left = {} /\ Refuse("empty")))
      \/ left # {} /\ kind # "twse" /\ GoTo("rows") /\ UNCHANGED period
      \/ kind = "twse" /\ \E first \in left :
           IF roc_to_date(first.month) = asked
             THEN GoTo("rows") /\ period' = roc_to_date(first.month)
             ELSE Refuse("other month") /\ UNCHANGED period
  <2> HIDE DEF IInv
  <2> QED BY Zenon DEF Open
<1> HIDE DEF IInv
<1> QED BY <1>6, <1>7, <1>8, <1>9, Zenon

\* One more observation, for a series that has none.
LEMMA OneMore ==
  ASSUME OneEach, AsFiled, UnitInv, kind' = kind, filed' = filed, asked' = asked,
         NEW o, yielded' = yielded \cup {o},
         \A p \in yielded : p.series # o.series,
         o.series # Aggregate =>
           \E f \in filed :
             /\ f.party = o.series
             /\ f.month = asked /\ o.month = asked
             /\ o.value = Known(f, "value")
             /\ o.quantity = IF kind = "twse" THEN None ELSE Known(f, "quantity"),
         o.unit_value = IF kind = "twse" \/ (kind = "census" /\ o.series = Aggregate)
                          THEN None ELSE with_unit_value(o.value, o.quantity)
  PROVE  OneEach' /\ AsFiled' /\ UnitInv'
<1>1. OneEach'
  BY DEF OneEach
<1>2. AsFiled'
  <2>1. \A p \in yielded' : p \in yielded \/ p = o
    OBVIOUS
  <2>2. \A f, leg : Known(f, leg)' = Known(f, leg)
    BY DEF Known
  <2> QED BY <2>1, <2>2 DEF AsFiled
<1>3. UnitInv'
  <2>1. \A p \in yielded' : p \in yielded \/ p = o
    OBVIOUS
  <2>2. \A v, q : with_unit_value(v, q)' = with_unit_value(v, q)
    BY DEF with_unit_value
  <2> QED BY <2>1, <2>2 DEF UnitInv
<1> QED BY <1>1, <1>2, <1>3

LEMMA NoMore ==
  ASSUME OneEach, AsFiled, UnitInv, kind' = kind, filed' = filed, asked' = asked,
         yielded' = yielded
  PROVE  OneEach' /\ AsFiled' /\ UnitInv'
  BY DEF OneEach, AsFiled, UnitInv, Known, with_unit_value

LEMMA ReadCensusKeeps ==
  ASSUME IInv, NEW row \in left, ReadCensus(row)
  PROVE  IInv'
<1> USE DEF IInv
<1>1. /\ pc = "rows" /\ kind = "census" /\ why = "not refused"
      /\ kind' = kind /\ filed' = filed /\ asked' = asked /\ period' = period
      /\ body' = body /\ pc' = pc /\ why' = why /\ by_partner' = by_partner
      /\ left' = left \ {row} /\ emitted' = (emitted \/ is_country_code(row.code))
  BY DEF ReadCensus, AnswerInv
<1>2. /\ body = CensusRows(asked) /\ period = asked /\ asked \in Month
      /\ filed \subseteq Filing /\ row \in CensusRows(asked)
      /\ left \subseteq CensusRows(asked) /\ by_partner = {}
  <2>1. Rows(asked) = CensusRows(asked)
    BY <1>1 DEF Rows
  <2>2. body = Rows(asked) /\ period = asked /\ asked \in Month /\ filed \subseteq Filing
    BY <1>1 DEF AnswerInv, Reading
  <2>3. left \subseteq body /\ by_partner = {}
    BY <1>1 DEF PendingInv
  <2> QED BY <2>1, <2>2, <2>3
<1>3. AnswerInv'
  BY <1>1, StillAnswered DEF Reading, PC
<1>4. PivotInv'
  BY <1>1 DEF PivotInv
<1>5. \A t, u \in seen_total' : t = u
  BY DEF ReadCensus, PendingInv
<1>8. (emitted => emitted') /\ (is_country_code(row.code) => emitted')
  <2> HIDE DEF IInv
  <2> QED BY <1>1
<1>6. CASE row.code \in Tracked["census"]
  <2> DEFINE o == CensusObservation(row)
  <2>1. row.code \in Party /\ row.code # Aggregate
    BY <1>6
  <2>2. PICK f \in filed :
           /\ f.month = asked /\ f.party = row.code
           /\ row = [code |-> f.party, value |-> Text(f, "value", 1),
                     quantity |-> IF "quantity" \in f.hidden THEN 0 ELSE f.quantity,
                     flag |-> "quantity" \in f.hidden]
    BY <1>2, <2>1, CensusRow
  <2>3. f \in Filing
    BY <1>2
  <2>4. to_int(row.value) = Known(f, "value")
    <3>1. row.value = Text(f, "value", 1)
      BY <2>2
    <3> HIDE DEF IInv
    <3> QED BY <2>3, <3>1, TextRead
  <2>5. CensusFigures(row).quantity = Known(f, "quantity")
    <3>1. /\ row.quantity = IF "quantity" \in f.hidden THEN 0 ELSE f.quantity
          /\ row.flag = ("quantity" \in f.hidden)
      BY <2>2
    <3>2. CASE "quantity" \in f.hidden
      BY <3>1, <3>2 DEF CensusFigures, Known
    <3>3. CASE "quantity" \notin f.hidden
      <4>1. row.quantity = f.quantity /\ ~row.flag
        BY ZenonT(40), <3>1, <3>3
      <4>2. f.quantity # Blank /\ f["quantity"] = f.quantity
        BY <2>3, TextRead
      <4> QED BY <3>3, <4>1, <4>2 DEF CensusFigures, to_int, Known
    <3> QED BY <3>2, <3>3
  <2>6. /\ o.series = row.code /\ o.month = asked
        /\ o.value = Known(f, "value") /\ o.quantity = Known(f, "quantity")
        /\ o.unit_value = with_unit_value(o.value, o.quantity)
    BY <1>2, <2>4, <2>5 DEF CensusObservation, CensusFigures, Observed
  <2>7. yielded' = yielded \cup {o}
    BY <1>6 DEF ReadCensus
  <2>8. \A p \in yielded : p.series # o.series
    BY <2>6 DEF PendingInv, Apart
  <2> HIDE DEF o
  <2>9. OneEach' /\ AsFiled' /\ UnitInv'
    BY <1>1, <2>1, <2>2, <2>6, <2>7, <2>8, OneMore
  <2>10. PendingInv'
    <3>1. \A r \in left' : o.series # r.code
      BY <1>1, <1>2, <2>1, <2>6, OneRow
    <3>2. \A p \in yielded, r \in left' : p.series # r.code
      BY ZenonT(40), <1>1 DEF PendingInv, Apart
    <3>3. Apart'
      BY ZenonT(40), <1>1, <1>2, <2>6, <2>7, <3>1, <3>2 DEF Apart
    <3>4. \A p \in yielded' : p.series # Aggregate
      BY ZenonT(40), <1>1, <2>1, <2>6, <2>7 DEF PendingInv
    <3> QED BY <1>1, <1>2, <1>5, <3>3, <3>4 DEF PendingInv
  <2>11. DoneInv'
    <3>1. CensusDone
      BY <1>1 DEF DoneInv, Reading
    <3>2. CensusDone'
      <4>1. \A d \in body' \ left' : d \in body \ left \/ d = row
        BY <1>1
      <4>2. \A p : p \in yielded' <=> p \in yielded \/ p = o
        BY <2>7
      <4> HIDE DEF IInv
      <4> QED BY <1>8, <2>6, <3>1, <4>1, <4>2 DEF CensusDone, is_country_code
    <3> QED BY <1>1, <3>2 DEF DoneInv
  <2> QED BY <1>3, <1>4, <2>9, <2>10, <2>11
<1>7. CASE row.code \notin Tracked["census"]
  <2>1. yielded' = yielded
    BY <1>7 DEF ReadCensus
  <2>2. OneEach' /\ AsFiled' /\ UnitInv'
    BY <1>1, <2>1, NoMore
  <2>3. PendingInv'
    BY ZenonT(40), <1>1, <1>2, <1>5, <2>1 DEF PendingInv, Apart
  <2>4. DoneInv'
    <3>1. CensusDone
      BY <1>1 DEF DoneInv, Reading
    <3>2. CensusDone'
      <4>1. \A d \in body' \ left' : d \in body \ left \/ d = row
        BY <1>1
      <4> HIDE DEF IInv
      <4> QED BY <1>7, <1>8, <2>1, <3>1, <4>1 DEF CensusDone, is_country_code
    <3> QED BY <1>1, <3>2 DEF DoneInv
  <2> QED BY <1>3, <1>4, <2>2, <2>3, <2>4
<1> QED BY <1>6, <1>7

LEMMA EndCensusKeeps ==
  ASSUME IInv, EndCensus
  PROVE  IInv'
<1> USE DEF IInv
<1>1. /\ pc = "rows" /\ kind = "census" /\ why = "not refused" /\ left = {}
      /\ kind' = kind /\ filed' = filed /\ asked' = asked /\ period' = period
      /\ body' = body /\ left' = left /\ by_partner' = by_partner
      /\ emitted' = emitted /\ seen_total' = seen_total
  BY DEF EndCensus, AnswerInv
<1>2. by_partner = {} /\ (\A p \in yielded : p.series # Aggregate)
  BY <1>1 DEF PendingInv
<1>3. PivotInv'
  BY <1>1 DEF PivotInv
<1>6. CensusDone
  BY <1>1 DEF DoneInv, Reading
<1>7. \A t, u \in seen_total' : t = u
  BY <1>1 DEF PendingInv
<1>8. Apart'
  BY <1>1, <1>2 DEF Apart
<1>4. CASE emitted
  <2>1. /\ pc' = "finished" /\ why' = "not refused"
        /\ yielded' = yielded \cup
             {Observed(Aggregate, t.value, t.quantity, TRUE) : t \in seen_total}
    BY ZenonT(40), <1>1, <1>4 DEF EndCensus, GoTo
  <2>2. AnswerInv'
    BY <1>1, <2>1, StillAnswered DEF Reading, PC
  <2>3. PendingInv' /\ DoneInv'
    <3>1. CensusDone'
      BY ZenonT(40), <1>1, <1>6, <2>1 DEF CensusDone, is_country_code
    <3> QED BY <1>1, <1>2, <1>4, <1>7, <1>8, <2>1, <3>1 DEF PendingInv, DoneInv
  <2>4. OneEach' /\ AsFiled' /\ UnitInv'
    <3>1. CASE seen_total = {}
      BY ZenonT(40), <1>1, <2>1, <3>1, NoMore
    <3>2. CASE seen_total # {}
      <4>1. PICK t : seen_total = {t}
        <5>1. PICK u \in seen_total : TRUE
          BY <3>2
        <5>2. \A t \in seen_total : t = u
          BY <1>1, <1>7, <5>1
        <5> HIDE DEF IInv
        <5>3. seen_total = {u}
          BY <5>1, <5>2
        <5> QED BY <5>3
      <4> DEFINE o == Observed(Aggregate, t.value, t.quantity, TRUE)
      <4>2. yielded' = yielded \cup {o}
        BY ZenonT(40), <2>1, <4>1
      <4>3. o.series = Aggregate /\ o.unit_value = None
        BY DEF Observed
      <4> HIDE DEF o
      <4> QED BY <1>1, <1>2, <4>2, <4>3, OneMore
    <3> QED BY <3>1, <3>2
  <2> QED BY <1>3, <2>2, <2>3, <2>4
<1>5. CASE ~emitted
  <2>1. pc' = "refused" /\ why' = "unusable" /\ yielded' = yielded
    BY <1>5 DEF EndCensus, Refuse
  <2>2. AnswerInv'
    BY <1>1, <2>1, StillAnswered DEF Reading, PC
  <2>3. PendingInv' /\ DoneInv'
    <3>1. CensusDone'
      BY ZenonT(40), <1>1, <1>6, <2>1 DEF CensusDone, is_country_code
    <3> QED BY <1>1, <1>2, <1>5, <1>7, <1>8, <2>1, <3>1 DEF PendingInv, DoneInv
  <2> QED BY <1>1, <1>3, <2>1, <2>2, <2>3, NoMore
<1> QED BY <1>4, <1>5

LEMMA ReadComextKeeps ==
  ASSUME IInv, NEW row \in left, ReadComext(row)
  PROVE  IInv'
<1> USE DEF IInv
<1>1. /\ pc = "rows" /\ kind = "comext" /\ why = "not refused"
      /\ kind' = kind /\ filed' = filed /\ asked' = asked /\ period' = period
      /\ body' = body /\ pc' = pc /\ why' = why /\ by_partner' = Pivoted(row)
      /\ left' = left \ {row} /\ emitted' = emitted /\ yielded' = yielded
      /\ seen_total' = seen_total
  BY DEF ReadComext, AnswerInv
<1>2. /\ body = ComextRows(asked) /\ asked \in Month /\ left \subseteq body
      /\ yielded = {} /\ ~emitted
  BY ZenonT(40), <1>1 DEF AnswerInv, Reading, Rows, PendingInv
<1>3. AnswerInv'
  BY <1>1, StillAnswered DEF Reading, PC
<1>4. by_partner' = {d \in body' \ left' : d.obs # Blank}
  <2>1. by_partner = {d \in body \ left : d.obs # Blank}
    BY <1>1 DEF PivotInv
  <2>2. CASE row.obs = Blank
    BY <1>1, <2>1, <2>2 DEF Pivoted
  <2>3. CASE row.obs # Blank
    <3>1. by_partner' =
            {c \in by_partner : ~(c.code = row.code /\ c.leg = row.leg)} \cup {row}
      BY <1>1, <2>3 DEF Pivoted
    <3>2. \A c \in by_partner : ~(c.code = row.code /\ c.leg = row.leg)
      BY <1>2, <2>1, OneCell
    <3>3. by_partner' = by_partner \cup {row}
      BY <3>1, <3>2
    <3>4. body' \ left' = (body \ left) \cup {row}
      <4> HIDE DEF IInv, Code, Kind
      <4>1. body' = body /\ left' = left \ {row} /\ row \in body
        BY <1>1, <1>2
      <4> QED BY <4>1
    <3> QED BY <2>1, <2>3, <3>3, <3>4
  <2> QED BY <2>2, <2>3
<1>5. PivotInv'
  BY <1>4 DEF PivotInv
<1>6. PendingInv'
  BY <1>1, <1>2 DEF PendingInv, Apart
<1>7. DoneInv'
  BY <1>1, <1>4 DEF DoneInv, ComextDone
<1> QED BY <1>1, <1>3, <1>5, <1>6, <1>7, NoMore

LEMMA EndPivotKeeps ==
  ASSUME IInv, EndPivot
  PROVE  IInv'
<1> USE DEF IInv
<1>1. /\ pc = "rows" /\ kind = "comext" /\ why = "not refused" /\ left = {}
      /\ kind' = kind /\ filed' = filed /\ asked' = asked /\ period' = period
      /\ body' = body /\ left' = left /\ by_partner' = by_partner
      /\ emitted' = emitted /\ yielded' = yielded /\ seen_total' = seen_total
      /\ pc' = "partners" /\ why' = why
  BY DEF EndPivot, GoTo, AnswerInv
<1>2. AnswerInv'
  BY <1>1, StillAnswered DEF Reading, PC
<1>3. PendingInv' /\ PivotInv' /\ DoneInv'
  BY ZenonT(40), <1>1 DEF PendingInv, Apart, PivotInv, DoneInv, ComextDone, Reading, series_key
<1> QED BY <1>1, <1>2, <1>3, NoMore

LEMMA YieldPartnerKeeps ==
  ASSUME IInv, NEW code \in Code, YieldPartner(code)
  PROVE  IInv'
<1> USE DEF IInv
<1>1. /\ pc = "partners" /\ kind = "comext" /\ why = "not refused" /\ left = {}
      /\ kind' = kind /\ filed' = filed /\ asked' = asked /\ period' = period
      /\ body' = body /\ left' = left /\ seen_total' = seen_total
      /\ pc' = pc /\ why' = why
      /\ by_partner' = {c \in by_partner : c.code # code}
      /\ yielded' = yielded \cup {ComextObservation(code, s) : s \in series_key(code)}
      /\ emitted' = (emitted \/ series_key(code) # {})
  BY DEF YieldPartner, AnswerInv, PendingInv
<1>2. PICK c \in by_partner : c.code = code
  BY DEF YieldPartner
<1>3. AnswerInv'
  BY <1>1, StillAnswered DEF Reading, PC
<1>4. PivotInv'
  <2>1. /\ by_partner \subseteq {d \in body \ left : d.obs # Blank}
        /\ \A b \in by_partner, d \in body \ left :
             d.code = b.code /\ d.obs # Blank => d \in by_partner
    BY <1>1 DEF PivotInv
  <2>2. pc' # "rows" /\ body' \ left' = body \ left
    BY <1>1
  <2>3. \A b : b \in by_partner' <=> b \in by_partner /\ b.code # code
    BY <1>1
  <2> QED BY <2>1, <2>2, <2>3 DEF PivotInv
<1>8. ComextDone
  BY <1>1 DEF DoneInv, Reading
<1>9. Apart /\ \A t, u \in seen_total' : t = u
  BY <1>1 DEF PendingInv
<1>5. \A d, s : series_key(d)' = series_key(d)
  BY DEF series_key
<1>6. CASE series_key(code) = {}
  <2>1. yielded' = yielded
    <3>1. {ComextObservation(code, s) : s \in series_key(code)} = {}
      BY <1>6
    <3> QED BY <1>1, <3>1
  <2>2. PendingInv'
    <3>1. Apart'
      BY <1>1, <1>5, <1>9, <2>1 DEF Apart
    <3> QED BY <1>1, <1>9, <3>1 DEF PendingInv
  <2>3. DoneInv'
    <3>1. ASSUME NEW d \in body' \ left', d.obs # Blank, d \notin by_partner',
                 NEW t \in series_key(d.code)
          PROVE  emitted' /\ \E p \in yielded' : p.series = t
      <4>1. d.code # code
        BY <1>6, <3>1
      <4>2. d \in body \ left /\ d \notin by_partner
        BY <1>1, <3>1, <4>1
      <4> QED BY <1>1, <1>8, <2>1, <3>1, <4>2 DEF ComextDone
    <3>2. ComextDone'
      BY <1>5, <3>1 DEF ComextDone
    <3> QED BY <1>1, <3>2 DEF DoneInv
  <2> QED BY <1>1, <1>3, <1>4, <2>1, <2>2, <2>3, NoMore
<1>7. CASE series_key(code) # {}
  <2>1. PICK s : series_key(code) = {s}
    BY ZenonT(40), <1>7 DEF series_key
  <2> DEFINE o == ComextObservation(code, s)
  <2>2. yielded' = yielded \cup {o} /\ emitted'
    <3> HIDE DEF IInv
    <3>1. {ComextObservation(code, t) : t \in series_key(code)} = {o}
      BY <2>1
    <3> HIDE DEF o
    <3> QED BY <1>1, <1>7, <3>1
  <2>3. /\ o.series = s /\ o.month = period /\ o.value = Got(code, "value")
        /\ o.quantity = Kilograms(Got(code, "quantity"))
        /\ o.unit_value = with_unit_value(o.value, o.quantity)
    BY DEF ComextObservation, Observed
  <2> HIDE DEF o
  <2>4. \A p \in yielded : p.series # s
    BY <1>2, <1>9, <2>1 DEF Apart
  <2>5. s # Aggregate => code \in Tracked["comext"] /\ s = code
    BY <2>1 DEF series_key
  <2>6. period = asked
    BY <1>1 DEF AnswerInv, Reading
  <2>7. OneEach' /\ AsFiled' /\ UnitInv'
    <3>1. CASE s = Aggregate
      BY <1>1, <2>2, <2>3, <2>4, <3>1, OneMore
    <3>2. CASE s # Aggregate
      <4>1. PICK f \in filed :
               /\ f.party = code /\ f.month = asked
               /\ Got(code, "value") = Known(f, "value")
               /\ Kilograms(Got(code, "quantity")) = Known(f, "quantity")
        BY <1>1, <1>2, <2>5, <3>2, GotKnown
      <4> QED BY <1>1, <2>2, <2>3, <2>4, <2>5, <2>6, <3>2, <4>1, OneMore
    <3> QED BY <3>1, <3>2
  <2>8. PendingInv'
    <3>1. \A d \in by_partner' : s \notin series_key(d.code)
      BY <1>1, <2>1, SeriesKeyApart
    <3>2. \A p \in yielded, d \in by_partner' : p.series \notin series_key(d.code)
      BY <1>1, <1>9 DEF Apart
    <3>3. Apart'
      BY <1>1, <1>5, <2>2, <2>3, <3>1, <3>2 DEF Apart
    <3> QED BY <1>1, <1>9, <3>3 DEF PendingInv
  <2>9. DoneInv'
    <3>1. ASSUME NEW d \in body' \ left', d.obs # Blank, d \notin by_partner',
                 NEW t \in series_key(d.code)
          PROVE  \E p \in yielded' : p.series = t
      <4>1. CASE d.code = code
        BY <2>1, <2>2, <2>3, <3>1, <4>1
      <4>2. CASE d.code # code
        <5>1. d \in body \ left /\ d \notin by_partner
          BY <1>1, <3>1, <4>2
        <5>2. \E p \in yielded : p.series = t
          BY <1>8, <3>1, <5>1 DEF ComextDone
        <5> QED BY <2>2, <5>2
      <4> QED BY <4>1, <4>2
    <3>2. ComextDone'
      BY <1>5, <2>2, <3>1 DEF ComextDone
    <3> QED BY <1>1, <3>2 DEF DoneInv
  <2> QED BY <1>3, <1>4, <2>7, <2>8, <2>9
<1> QED BY <1>6, <1>7

LEMMA EndComextKeeps ==
  ASSUME IInv, EndComext
  PROVE  IInv'
<1> USE DEF IInv
<1>1. /\ pc = "partners" /\ kind = "comext" /\ why = "not refused"
      /\ left = {} /\ by_partner = {}
      /\ kind' = kind /\ filed' = filed /\ asked' = asked /\ period' = period
      /\ body' = body /\ left' = left /\ by_partner' = by_partner
      /\ emitted' = emitted /\ yielded' = yielded /\ seen_total' = seen_total
      /\ \/ emitted /\ pc' = "finished" /\ why' = "not refused"
         \/ ~emitted /\ pc' = "refused" /\ why' = "unusable"
  <2>1. why = "not refused" /\ left = {} /\ kind = "comext"
    BY DEF EndComext, AnswerInv, PendingInv
  <2> HIDE DEF IInv
  <2>2. CASE emitted
    BY <2>1, <2>2 DEF EndComext, GoTo
  <2>3. CASE ~emitted
    BY <2>1, <2>3 DEF EndComext, Refuse
  <2> QED BY <2>2, <2>3
<1>2. AnswerInv'
  BY <1>1, StillAnswered DEF Reading, PC
<1>3. PendingInv' /\ PivotInv'
  BY <1>1 DEF PendingInv, Apart, PivotInv
<1>4. DoneInv'
  <2>1. ComextDone
    BY <1>1 DEF DoneInv, Reading
  <2>2. ComextDone'
    BY ZenonT(40), <1>1, <2>1 DEF ComextDone, series_key
  <2> QED BY <1>1, <2>2 DEF DoneInv
<1> QED BY <1>1, <1>2, <1>3, <1>4, NoMore

LEMMA ReadTwseKeeps ==
  ASSUME IInv, NEW row \in left, ReadTwse(row)
  PROVE  IInv'
<1> USE DEF IInv
<1>1. /\ pc = "rows" /\ kind = "twse" /\ why = "not refused"
      /\ kind' = kind /\ filed' = filed /\ asked' = asked /\ period' = period
      /\ body' = body /\ pc' = pc /\ why' = why /\ by_partner' = by_partner
      /\ left' = left \ {row} /\ seen_total' = seen_total
  BY DEF ReadTwse, AnswerInv
<1>2. /\ body = TwseRows(asked) /\ period = asked /\ asked \in Month
      /\ filed \subseteq Filing /\ row \in TwseRows(asked)
      /\ left \subseteq TwseRows(asked) /\ by_partner = {}
  <2>1. Rows(asked) = TwseRows(asked)
    <3>1. kind # "census" /\ kind # "comext"
      BY <1>1
    <3> QED BY <3>1 DEF Rows
  <2>2. body = Rows(asked) /\ period = asked /\ asked \in Month /\ filed \subseteq Filing
    BY <1>1 DEF AnswerInv, Reading
  <2>3. left \subseteq body /\ by_partner = {}
    BY <1>1 DEF PendingInv
  <2> QED BY <2>1, <2>2, <2>3
<1>3. AnswerInv'
  BY <1>1, StillAnswered DEF Reading, PC
<1>4. PivotInv'
  BY <1>1 DEF PivotInv
<1>5. \A t, u \in seen_total' : t = u
  BY <1>1 DEF PendingInv
<1>6. CASE row.code \in Tracked["twse"] /\ row.revenue # Blank
  <2> DEFINE o == TwseObservation(row)
  <2>1. row.code \in Party /\ row.code # Aggregate
    BY <1>6
  <2>2. PICK f \in filed :
           /\ f.month = asked /\ f.party = row.code
           /\ row = [code |-> f.party, month |-> Roc(asked),
                     revenue |-> Text(f, "value", 1000)]
    BY <1>2, TwseRow
  <2>3. f \in Filing
    BY <1>2
  <2>4. row.revenue * 1000 = Known(f, "value")
    <3>1. row.revenue = Text(f, "value", 1000)
      BY <2>2
    <3>2. "value" \notin f.hidden
      BY <1>6, <3>1 DEF Text
    <3> HIDE DEF IInv
    <3> QED BY <2>3, <3>1, <3>2, TextRead
  <2>5. /\ o.series = row.code /\ o.month = asked
        /\ o.value = Known(f, "value") /\ o.quantity = None /\ o.unit_value = None
    BY <1>2, <2>4 DEF TwseObservation, Observed
  <2>6. yielded' = yielded \cup {o} /\ emitted'
    BY <1>6 DEF ReadTwse
  <2>7. \A p \in yielded : p.series # o.series
    BY <2>5 DEF PendingInv, Apart
  <2> HIDE DEF o
  <2>8. OneEach' /\ AsFiled' /\ UnitInv'
    BY ZenonT(40), <1>1, <2>1, <2>2, <2>5, <2>6, <2>7, OneMore
  <2>9. PendingInv'
    <3>1. \A r \in left' : o.series # r.code
      BY <1>1, <1>2, <2>5, OneRow
    <3>2. \A p \in yielded, r \in left' : p.series # r.code
      BY <1>1 DEF PendingInv, Apart
    <3>3. Apart'
      BY <1>1, <1>2, <2>5, <2>6, <3>1, <3>2 DEF Apart
    <3>4. \A p \in yielded' : p.series # Aggregate
      BY ZenonT(40), <1>1, <2>1, <2>5, <2>6 DEF PendingInv
    <3> QED BY <1>1, <1>2, <1>5, <3>3, <3>4 DEF PendingInv
  <2>10. DoneInv'
    <3>1. TwseDone
      BY <1>1 DEF DoneInv, Reading
    <3>2. TwseDone'
      BY <1>1, <2>5, <2>6, <3>1 DEF TwseDone
    <3> QED BY <1>1, <3>2 DEF DoneInv
  <2> QED BY <1>3, <1>4, <2>8, <2>9, <2>10
<1>7. CASE ~(row.code \in Tracked["twse"] /\ row.revenue # Blank)
  <2>1. yielded' = yielded /\ emitted' = emitted
    BY <1>7 DEF ReadTwse
  <2>2. OneEach' /\ AsFiled' /\ UnitInv'
    BY <1>1, <2>1, NoMore
  <2>3. PendingInv'
    BY <1>1, <1>2, <1>5, <2>1 DEF PendingInv, Apart
  <2>4. DoneInv'
    <3>1. TwseDone
      BY <1>1 DEF DoneInv, Reading
    <3>2. TwseDone'
      BY ZenonT(40), <1>1, <1>7, <2>1, <3>1 DEF TwseDone
    <3> QED BY <1>1, <3>2 DEF DoneInv
  <2> QED BY <1>3, <1>4, <2>2, <2>3, <2>4
<1> QED BY <1>6, <1>7

LEMMA EndTwseKeeps ==
  ASSUME IInv, EndTwse
  PROVE  IInv'
<1> USE DEF IInv
<1>1. /\ pc = "rows" /\ kind = "twse" /\ why = "not refused" /\ left = {}
      /\ kind' = kind /\ filed' = filed /\ asked' = asked /\ period' = period
      /\ body' = body /\ left' = left /\ by_partner' = by_partner
      /\ emitted' = emitted /\ yielded' = yielded /\ seen_total' = seen_total
      /\ \/ emitted /\ pc' = "finished" /\ why' = "not refused"
         \/ ~emitted /\ pc' = "refused" /\ why' = "unusable"
  <2>1. why = "not refused"
    BY DEF EndTwse, AnswerInv
  <2> HIDE DEF IInv
  <2>2. CASE emitted
    BY <2>1, <2>2 DEF EndTwse, GoTo
  <2>3. CASE ~emitted
    BY <2>1, <2>3 DEF EndTwse, Refuse
  <2> QED BY <2>2, <2>3
<1>2. AnswerInv'
  BY <1>1, StillAnswered DEF Reading, PC
<1>3. PendingInv' /\ PivotInv'
  BY <1>1 DEF PendingInv, Apart, PivotInv
<1>4. DoneInv'
  <2>1. TwseDone
    BY <1>1 DEF DoneInv, Reading
  <2>2. TwseDone'
    BY <1>1, <2>1 DEF TwseDone
  <2> QED BY <1>1, <2>2 DEF DoneInv
<1> QED BY <1>1, <1>2, <1>3, <1>4, NoMore

LEMMA MalformedKeeps ==
  ASSUME IInv, Malformed
  PROVE  IInv'
<1> USE DEF IInv
<1>1. /\ pc = "rows" /\ why = "not refused"
      /\ kind' = kind /\ filed' = filed /\ asked' = asked /\ period' = period
      /\ body' = body /\ left' = left /\ by_partner' = by_partner
      /\ emitted' = emitted /\ yielded' = {} /\ seen_total' = seen_total
      /\ pc' = "refused" /\ why' = "malformed"
  BY DEF Malformed, Refuse, AnswerInv
<1>2. AnswerInv'
  BY <1>1, StillAnswered DEF Reading, PC
<1>3. PendingInv' /\ PivotInv'
  BY <1>1 DEF PendingInv, Apart, PivotInv
<1> QED BY <1>1, <1>2, <1>3 DEF DoneInv, UnitInv, OneEach, AsFiled

LEMMA Stutters ==
  ASSUME IInv, UNCHANGED vars
  PROVE  IInv'
<1> USE DEF IInv, vars
<1>1. Rows(asked)' = Rows(asked) /\ \A m : Rows(m)' = Rows(m)
  BY SameAnswer
<1>2. \A m : Serves(m, asked)' = Serves(m, asked)
  BY SameAnswer
<1>3. AnswerInv'
  BY <1>1, <1>2 DEF AnswerInv, Opened, Reading
<1>4. PendingInv' /\ PivotInv' /\ DoneInv'
  BY DEF PendingInv, Apart, PivotInv, DoneInv, CensusDone, ComextDone, TwseDone,
         Reading, series_key, is_country_code
<1> QED BY <1>3, <1>4, NoMore

LEMMA NextKeeps == IInv /\ [Next]_vars => IInv'
<1> SUFFICES ASSUME IInv, [Next]_vars PROVE IInv'
  OBVIOUS
<1>1. ASSUME NEW f \in Filing, File(f) PROVE IInv'
  BY <1>1, FileKeeps
<1>2. ASSUME NEW a \in Month, FetchFails(a) PROVE IInv'
  BY <1>2, FetchFailsKeeps
<1>3. ASSUME NEW a \in Month, NEW m \in Month, Fetch(a, m) PROVE IInv'
  BY <1>3, FetchKeeps
<1>4. CASE Open
  BY <1>4, OpenKeeps
<1>5. ASSUME NEW row \in left, ReadCensus(row) \/ ReadComext(row) \/ ReadTwse(row)
      PROVE  IInv'
  BY <1>5, ReadCensusKeeps, ReadComextKeeps, ReadTwseKeeps
<1>6. ASSUME NEW code \in Code, YieldPartner(code) PROVE IInv'
  <2> HIDE DEF Code
  <2> QED BY <1>6, YieldPartnerKeeps
<1>7. CASE EndCensus \/ EndPivot \/ EndComext \/ EndTwse \/ Malformed
  BY <1>7, EndCensusKeeps, EndPivotKeeps, EndComextKeeps, EndTwseKeeps, MalformedKeeps
<1>8. CASE UNCHANGED vars
  BY <1>8, Stutters
<1> HIDE DEF Code
<1> QED BY <1>1, <1>2, <1>3, <1>4, <1>5, <1>6, <1>7, <1>8 DEF Next

\* The invariant holds of every state: for every set of parties, of months and of
\* amounts, and however many filings an answer is made of.
THEOREM Inductive == Spec => []IInv
  BY InitHolds, NextKeeps, PTL DEF Spec

-----------------------------------------------------------------------------
(***************************************************************************)
(* What it shows of the three fetchers.                                    *)
(***************************************************************************)
\* What Fetcher.run hands to upsert has at most one observation for a series, so
\* its INSERT never meets a row twice.
THEOREM SeriesOnce == Spec => []OneEach
<1>1. IInv => OneEach
  BY DEF IInv
<1> QED BY <1>1, Inductive, PTL

\* The observation of a party is what it filed for the month asked, in the unit
\* of the series, and a figure that was withheld is no number.
THEOREM FiguresAsFiled == Spec => []AsFiled
<1>1. IInv => AsFiled
  BY DEF IInv
<1> QED BY <1>1, Inductive, PTL

\* The number of a month tells the month.
LEMMA OrdinalTells ==
  ASSUME NEW m \in Month, NEW n \in Month, Ordinal(m) = Ordinal(n)
  PROVE  m = n
<1>1. PICK y \in Int, i \in 1..12 : m = <<y, i>>
  OBVIOUS
<1>2. PICK z \in Int, j \in 1..12 : n = <<z, j>>
  OBVIOUS
<1>3. 12 * y + i = 12 * z + j
  BY <1>1, <1>2 DEF Ordinal
<1> QED BY <1>1, <1>2, <1>3

\* While anything is published for the month asked, that is the month served.
LEMMA ServedIsAsked ==
  ASSUME IInv, Opened, NEW f \in filed, Published(f)
  PROVE  body = Rows(asked)
<1>1. PICK m \in Month : Serves(m, asked) /\ body = Rows(m)
  BY DEF IInv, AnswerInv
<1>2. asked \in Month /\ filed \subseteq Filing
  BY DEF IInv, AnswerInv
<1>3. CASE kind # "twse"
  BY <1>1, <1>3 DEF Serves
<1>4. CASE kind = "twse"
  <2>1. PICK g \in filed : g.month = m
    BY <1>1, <1>4 DEF Serves
  <2>2. Ordinal(asked) <= Ordinal(m) /\ Ordinal(m) <= Ordinal(asked)
    BY <1>1, <1>4, <2>1 DEF Serves, Published
  <2>3. Ordinal(asked) \in Int /\ Ordinal(m) \in Int
    BY <1>2 DEF Ordinal
  <2>4. Ordinal(asked) = Ordinal(m)
    <3> HIDE DEF Code
    <3> QED BY <2>2, <2>3
  <2> QED BY <1>1, <1>2, <2>4, OrdinalTells
<1> QED BY <1>3, <1>4

\* The row of a published value.
LEMMA PublishedRow ==
  ASSUME IInv, NEW f \in filed, Published(f), body = Rows(asked)
  PROVE  \E row \in body :
           /\ row.code = f.party
           /\ kind = "twse" => row.revenue # Blank
           /\ kind = "comext" => row.obs # Blank
<1>1. /\ asked \in Month /\ filed \subseteq Filing /\ kind \in Kind
      /\ f.month = asked /\ f.party \in Filers[kind] /\ "value" \notin f.hidden
  BY ZenonT(40) DEF IInv, AnswerInv, Published
<1>3. Text(f, "value", 1000) # Blank /\ Text(f, "value", 1) # Blank
  BY <1>1, TextRead
<1>4. CASE kind = "census"
  BY <1>1, <1>4, FilingRow DEF Rows
<1>5. CASE kind = "comext"
  <2>1. [code |-> f.party, leg |-> "value", obs |-> Text(f, "value", Unit("value"))] \in body
    <3>1. Rows(asked) = ComextRows(asked)
      BY <1>5 DEF Rows
    <3>2. "value" \in Leg /\ f.party \in Filers["comext"]
      BY <1>1, <1>5 DEF Leg
    <3>3. \A leg \in Leg :
            [code |-> f.party, leg |-> leg, obs |-> Text(f, leg, Unit(leg))]
              \in ComextRows(asked)
      BY <1>1, <3>2, FilingRow
    <3> QED BY <3>1, <3>2, <3>3
  <2>2. Unit("value") = 1
    BY DEF Unit
  <2> QED BY <1>3, <1>5, <2>1, <2>2
<1>6. CASE kind = "twse"
  <2>1. Rows(asked) = TwseRows(asked)
    <3>1. kind # "census" /\ kind # "comext"
      BY <1>6
    <3> QED BY <3>1 DEF Rows
  <2> QED BY <1>1, <1>3, <1>6, <2>1, FilingRow
<1> QED BY <1>1, <1>4, <1>5, <1>6

LEMMA NothingLostFollows == IInv => NothingLost
<1> SUFFICES ASSUME IInv, NEW f \in filed, Published(f)
             PROVE  /\ ~Rejected
                    /\ pc = "finished" => \E o \in yielded : o.series = f.party
  BY DEF NothingLost
<1>1. f.party \in Tracked[kind] /\ kind \in Kind
  BY DEF Published, IInv, AnswerInv
<1>2. why # "empty"
  <2> SUFFICES ASSUME why = "empty" PROVE FALSE
    OBVIOUS
  <2>1. body = Rows(asked)
    BY ServedIsAsked DEF Opened
  <2>2. body = {}
    BY DEF IInv, AnswerInv
  <2> QED BY <2>1, <2>2, PublishedRow
<1>3. why # "other month"
  <2> SUFFICES ASSUME why = "other month" PROVE FALSE
    OBVIOUS
  <2>1. body = Rows(asked)
    BY ServedIsAsked DEF Opened
  <2> QED BY <2>1 DEF IInv, AnswerInv
<1>4. ASSUME pc = "finished" \/ why = "unusable"
      PROVE  emitted /\ \E o \in yielded : o.series = f.party
  <2>1. Reading /\ why # "malformed" /\ body = Rows(asked)
    BY <1>4 DEF IInv, AnswerInv, Reading
  <2>2. left = {} /\ (kind = "comext" => by_partner = {})
    BY <1>4 DEF IInv, PendingInv
  <2>3. PICK row \in body \ left :
           /\ row.code = f.party
           /\ kind = "twse" => row.revenue # Blank
           /\ kind = "comext" => row.obs # Blank
    BY <2>1, <2>2, PublishedRow
  <2>4. CASE kind = "census"
    <3>1. CensusDone
      BY <2>1, <2>4 DEF IInv, DoneInv
    <3>2. is_country_code(row.code)
      BY <1>1, <2>3, <2>4
    <3> QED BY <1>1, <2>3, <2>4, <3>1, <3>2 DEF CensusDone
  <2>5. CASE kind = "twse"
    <3>1. TwseDone
      BY <2>1, <2>5 DEF IInv, DoneInv
    <3> QED BY <1>1, <2>3, <2>5, <3>1 DEF TwseDone
  <2>6. CASE kind = "comext"
    <3>1. ComextDone
      BY <2>1, <2>6 DEF IInv, DoneInv
    <3>2. f.party \in series_key(row.code)
      <4>1. is_real_partner(f.party) /\ f.party \in Tracked["comext"]
        BY <1>1, <2>6
      <4>2. f.party \notin AGGREGATES
        BY <4>1 DEF is_real_partner
      <4> QED BY <2>3, <4>1, <4>2 DEF series_key
    <3> QED BY <2>2, <2>3, <2>6, <3>1, <3>2 DEF ComextDone
  <2> QED BY <1>1, <2>4, <2>5, <2>6
<1>5. why = "unusable" => ~emitted
  BY DEF IInv, DoneInv, Reading
<1> QED BY <1>2, <1>3, <1>4, <1>5 DEF Rejected

\* No value a source publishes for a series is lost, and the answer it is in is
\* not refused for what its rows say.
THEOREM NoValueLost == Spec => []NothingLost
  BY NothingLostFollows, Inductive, PTL

-----------------------------------------------------------------------------
(***************************************************************************)
(* The totals.                                                             *)
(***************************************************************************)
\* The amounts that are filed are whole thousands, and so are their sums: what
\* is divided by a unit comes back here too.
Whole == {n \in Nat : \E q \in Nat : n = 1000 * q}

LEMMA SumIsWhole ==
  ASSUME filed \subseteq Filing, IsFiniteSet(filed), NEW m, NEW ps, NEW leg \in Leg
  PROVE  SumOf(m, ps, leg) \in Whole
<1> DEFINE fs == FiledBy(m, ps)
           f == [x \in fs |-> x[leg]]
           solves(T) == T = [s \in SUBSET fs |->
                               IF s = {} THEN 0
                               ELSE (CHOOSE x \in s : TRUE)[leg] + T[s \ {CHOOSE x \in s : TRUE}]]
           c == CHOOSE T : solves(T)
<1>1. IsFiniteSet(fs)
  <2>1. fs \in SUBSET filed
    BY DEF FiledBy
  <2> HIDE DEF fs
  <2> QED BY <2>1, FS_Subset
<1>2. \A x \in fs : x[leg] \in Amount
  BY DEF FiledBy, Filing, Leg
<1>3. \A a \in Amount : a \in Whole
  <2> SUFFICES ASSUME NEW a \in Amount PROVE a \in Whole
    OBVIOUS
  <2>1. a \in Nat /\ a % 1000 = 0
    BY SourcesAssumption
  <2>2. (a \div 1000) \in Nat /\ a = 1000 * (a \div 1000)
    BY <2>1, SMTT(30)
  <2> QED BY <2>1, <2>2 DEF Whole
<1>4. f \in [fs -> Whole] /\ f \in [fs -> Int] /\ \A x \in fs : f[x] = x[leg]
  <2> HIDE DEF fs
  <2>1. Whole \subseteq Int
    BY DEF Whole
  <2>2. f \in [fs -> Whole] /\ \A x \in fs : f[x] = x[leg]
    BY <1>2, <1>3
  <2> QED BY <2>1, <2>2
<1>5. SumOf(m, ps, leg) = c[fs]
  BY DEF SumOf, Sum, MapThenSumSet, MapThenFoldSet
<1> HIDE DEF f, fs
<1>6. \A s \in SUBSET fs : s # {} => f[Chosen(s)] = (CHOOSE x \in s : TRUE)[leg]
  BY <1>4, ChosenFacts DEF Chosen
<1>7. \A T : SumRecursion(T, f, fs) <=> solves(T)
  <2> SUFFICES ASSUME NEW T PROVE SumRecursion(T, f, fs) <=> solves(T)
    OBVIOUS
  <2>1. [s \in SUBSET fs |-> IF s = {} THEN 0 ELSE f[Chosen(s)] + T[s \ {Chosen(s)}]]
          = [s \in SUBSET fs |->
               IF s = {} THEN 0
               ELSE (CHOOSE x \in s : TRUE)[leg] + T[s \ {CHOOSE x \in s : TRUE}]]
    BY <1>6 DEF Chosen
  <2> QED BY <2>1, Zenon DEF SumRecursion
<1> HIDE DEF solves
<1>8. \E T : solves(T)
  BY <1>1, <1>4, <1>7, SumsExist
<1>9. solves(c)
  BY <1>8
<1> HIDE DEF c
<1>10. IsSum(c, f, fs)
  BY <1>1, <1>4, <1>7, <1>9, SumFacts
<1> DEFINE F == {s \in SUBSET fs : c[s] \in Whole}
<1>11. {} \in F
  BY <1>10 DEF IsSum, Whole
<1>12. ASSUME NEW s \in SUBSET fs, s # {}, \A x \in s : s \ {x} \in F PROVE s \in F
  <2>1. PICK x \in s : TRUE
    BY <1>12
  <2>2. c[s \ {x}] \in Whole /\ f[x] \in Whole
    BY ZenonT(40), <1>4, <1>12, <2>1
  <2>3. c[s] = f[x] + c[s \ {x}]
    BY <1>10, <2>1 DEF IsSum
  <2>4. \A a, b \in Whole : a + b \in Whole
    <3> SUFFICES ASSUME NEW a \in Whole, NEW b \in Whole PROVE a + b \in Whole
      OBVIOUS
    <3>1. PICK p \in Nat : a = 1000 * p
      BY DEF Whole
    <3>2. PICK q \in Nat : b = 1000 * q
      BY DEF Whole
    <3>3. a + b = 1000 * (p + q) /\ p + q \in Nat /\ a + b \in Nat
      BY <3>1, <3>2
    <3> DEFINE r == p + q
    <3>4. r \in Nat /\ a + b = 1000 * r
      BY <3>3
    <3> HIDE DEF r
    <3>5. \E q_1 \in Nat : a + b = 1000 * q_1
      <4> USE <3>4
      <4> WITNESS r \in Nat
      <4> QED OBVIOUS
    <3> QED BY ZenonT(40), <3>3, <3>5, Zenon DEF Whole
  <2> QED BY <2>2, <2>3, <2>4
<1>13. SUBSET fs \subseteq F
  <2> HIDE DEF F
  <2> QED BY <1>1, <1>11, <1>12, SubsetInduction
<1>14. fs \in F
  BY <1>13
<1> QED BY <1>5, <1>14

LEMMA TotalExact ==
  ASSUME filed \subseteq Filing, IsFiniteSet(filed), NEW m, NEW ps, NEW leg \in Leg
  PROVE  /\ SumOf(m, ps, leg) \in Int /\ SumOf(m, ps, leg) # Blank /\ SumOf(m, ps, leg) # None
         /\ (SumOf(m, ps, leg) \div Unit(leg)) \in Int
         /\ leg = "value" => SumOf(m, ps, leg) \div Unit(leg) = SumOf(m, ps, leg)
         /\ leg = "quantity" => (SumOf(m, ps, leg) \div Unit(leg)) * 100 = SumOf(m, ps, leg)
<1>1. PICK q \in Nat : SumOf(m, ps, leg) = 1000 * q
  <2>1. SumOf(m, ps, leg) \in Whole
    BY SumIsWhole
  <2> QED BY <2>1 DEF Whole
<1>2. /\ (1000 * q) \div 1 = 1000 * q
      /\ (1000 * q) \div 100 = 10 * q
      /\ (10 * q) * 100 = 1000 * q
      /\ 1000 * q \in Int /\ 10 * q \in Int
  OBVIOUS
<1>3. Unit("value") = 1 /\ Unit("quantity") = 100 /\ (leg = "value" \/ leg = "quantity")
  BY DEF Unit, Leg
<1>4. 1000 * q # Blank /\ 1000 * q # None
  BY <1>2, SourcesAssumption
<1> QED BY <1>1, <1>2, <1>3, <1>4

\* The world row of Census, and what is kept of it.
LEMMA WorldRow ==
  ASSUME filed \subseteq Filing, IsFiniteSet(filed), NEW m
  PROVE  /\ \A row \in CensusRows(m) : row.code = World =>
              /\ FiledBy(m, Party) # {}
              /\ CensusFigures(row) = [value |-> SumOf(m, Party, "value"),
                                       quantity |-> SumOf(m, Party, "quantity")]
         /\ FiledBy(m, Party) # {} => \E row \in CensusRows(m) : row.code = World
<1> DEFINE w == [code |-> World,
                 value |-> SumOf(m, Party, "value"),
                 quantity |-> SumOf(m, Party, "quantity"),
                 flag |-> FALSE]
<1>1. World \notin Party /\ World \notin Group
  BY SourcesAssumption
<1>2. "value" \in Leg /\ "quantity" \in Leg
  BY DEF Leg
<1>3. ASSUME NEW row \in CensusRows(m), row.code = World
      PROVE  row = w /\ FiledBy(m, Party) # {}
  <2>1. CASE row \in {[code |-> f.party,
                       value |-> Text(f, "value", 1),
                       quantity |-> IF "quantity" \in f.hidden THEN 0 ELSE f.quantity,
                       flag |-> "quantity" \in f.hidden] : f \in FiledBy(m, Filers["census"])}
    <3>1. row.code \in Party
      BY <2>1 DEF FiledBy, Filing
    <3> QED BY <1>1, <1>3, <3>1
  <2>2. CASE row \in {[code |-> g,
                       value |-> SumOf(m, MembersOf[g], "value"),
                       quantity |-> SumOf(m, MembersOf[g], "quantity"),
                       flag |-> FALSE] : g \in {h \in Group : FiledBy(m, MembersOf[h]) # {}}}
    <3>1. row.code \in Group
      BY <2>2
    <3> QED BY <1>1, <1>3, <3>1
  <2>3. CASE row \in {w : f \in FiledBy(m, Party)}
    BY <2>3
  <2> QED BY <1>3, <2>1, <2>2, <2>3 DEF CensusRows
<1>4. CensusFigures(w) = [value |-> SumOf(m, Party, "value"),
                          quantity |-> SumOf(m, Party, "quantity")]
  <2>1. SumOf(m, Party, "value") # Blank /\ SumOf(m, Party, "quantity") # Blank
    BY <1>2, TotalExact
  <2> QED BY <2>1 DEF CensusFigures, to_int
<1>5. FiledBy(m, Party) # {} => w \in CensusRows(m)
  BY DEF CensusRows
<1>6. w.code = World
  OBVIOUS
<1> HIDE DEF w
<1> QED BY <1>3, <1>4, <1>5, <1>6

\* The rows of the Union's imports from outside.
LEMMA ExtraRow ==
  ASSUME filed \subseteq Filing, IsFiniteSet(filed), NEW m
  PROVE  LET cell(leg) == [code |-> Extra, leg |-> leg,
                           obs |-> SumOf(m, Party \ Member, leg) \div Unit(leg)]
         IN  /\ \A row \in ComextRows(m) : row.code = Extra =>
                  /\ FiledBy(m, Party \ Member) # {}
                  /\ row.leg \in Leg /\ row = cell(row.leg)
             /\ FiledBy(m, Party \ Member) # {} =>
                  \A leg \in Leg : cell(leg) \in ComextRows(m) /\ cell(leg).obs # Blank
<1> DEFINE cell(leg) == [code |-> Extra, leg |-> leg,
                         obs |-> SumOf(m, Party \ Member, leg) \div Unit(leg)]
<1>1. Extra \notin Party /\ Extra # Intra
  BY SourcesAssumption
<1>2. ASSUME NEW row \in ComextRows(m), row.code = Extra
      PROVE  /\ FiledBy(m, Party \ Member) # {}
             /\ row.leg \in Leg /\ row = cell(row.leg)
  <2> DEFINE parties == {[code |-> f.party, leg |-> leg, obs |-> Text(f, leg, Unit(leg))] :
                           f \in FiledBy(m, Filers["comext"]), leg \in Leg}
  <2>0. ComextRows(m) = parties \cup TotalRows(Extra, m, Party \ Member)
                                \cup TotalRows(Intra, m, Member)
    BY DEF ComextRows
  <2>1. CASE row \in parties
    <3>1. row.code \in Party
      BY <2>1 DEF FiledBy, Filing
    <3> QED BY <1>1, <1>2, <3>1
  <2>2. CASE row \in TotalRows(Extra, m, Party \ Member)
    <3>1. PICK leg \in {l \in Leg : FiledBy(m, Party \ Member) # {}} : row = cell(leg)
      BY <2>2 DEF TotalRows
    <3>2. row.leg = leg
      BY <3>1
    <3> HIDE DEF cell
    <3> QED BY <3>1, <3>2
  <2>3. CASE row \in TotalRows(Intra, m, Member)
    <3>1. row.code = Intra
      BY <2>3 DEF TotalRows
    <3> QED BY <1>1, <1>2, <3>1
  <2> HIDE DEF cell, parties
  <2>4. \/ row \in parties
        \/ row \in TotalRows(Extra, m, Party \ Member)
        \/ row \in TotalRows(Intra, m, Member)
    BY <1>2, <2>0
  <2> QED BY <2>1, <2>2, <2>3, <2>4
<1>3. ASSUME FiledBy(m, Party \ Member) # {}, NEW leg \in Leg
      PROVE  cell(leg) \in ComextRows(m) /\ cell(leg).obs # Blank
  <2>1. cell(leg) \in TotalRows(Extra, m, Party \ Member)
    BY <1>3 DEF TotalRows
  <2>2. (SumOf(m, Party \ Member, leg) \div Unit(leg)) \in Int
    BY TotalExact
  <2>3. (SumOf(m, Party \ Member, leg) \div Unit(leg)) # Blank
    BY <2>2, SourcesAssumption
  <2> QED BY <2>1, <2>3 DEF ComextRows
<1> QED BY <1>2, <1>3

\* What Comext's numbers of the imports from outside come to.
LEMMA GotTotal ==
  ASSUME AnswerInv, PivotInv, IsFiniteSet(filed), kind = "comext", pc = "partners", left = {},
         NEW c \in by_partner, c.code = Extra
  PROVE  /\ Got(Extra, "value") = SumOf(asked, Party \ Member, "value")
         /\ Kilograms(Got(Extra, "quantity")) = SumOf(asked, Party \ Member, "quantity")
<1>1. /\ body = ComextRows(asked) /\ asked \in Month /\ filed \subseteq Filing
  BY DEF AnswerInv, Reading, Rows
<1>2. c \in ComextRows(asked) /\ by_partner \subseteq ComextRows(asked)
  BY <1>1 DEF PivotInv
<1>3. FiledBy(asked, Party \ Member) # {}
  BY <1>1, <1>2, ExtraRow
<1>4. ASSUME NEW leg \in Leg
      PROVE  Got(Extra, leg) = SumOf(asked, Party \ Member, leg) \div Unit(leg)
  <2> DEFINE d == [code |-> Extra, leg |-> leg,
                   obs |-> SumOf(asked, Party \ Member, leg) \div Unit(leg)]
  <2>1. d \in ComextRows(asked) /\ d.obs # Blank
    BY <1>1, <1>3, ExtraRow
  <2>2. d \in by_partner
    BY <1>1, <2>1 DEF PivotInv
  <2>6. /\ d.code = Extra /\ d.leg = leg
        /\ d.obs = SumOf(asked, Party \ Member, leg) \div Unit(leg)
    OBVIOUS
  <2> HIDE DEF d
  <2>3. ASSUME NEW e \in by_partner, e.code = Extra, e.leg = leg PROVE e = d
    <3>1. e \in ComextRows(asked)
      BY <1>2
    <3> QED BY <1>1, <2>1, <2>3, <2>6, <3>1, OneCell
  <2>4. {e \in by_partner : e.code = Extra /\ e.leg = leg} = {d}
    BY <2>2, <2>3, <2>6
  <2>5. Got(Extra, leg) = (CHOOSE e \in {d} : TRUE).obs
    BY <2>4 DEF Got
  <2>7. (CHOOSE e \in {d} : TRUE) = d
    OBVIOUS
  <2> QED BY <2>5, <2>6, <2>7
<1>5. "value" \in Leg /\ "quantity" \in Leg
  BY DEF Leg
<1>6. Got(Extra, "value") = SumOf(asked, Party \ Member, "value")
  <2>1. SumOf(asked, Party \ Member, "value") \div Unit("value")
          = SumOf(asked, Party \ Member, "value")
    BY <1>1, <1>5, TotalExact
  <2> QED BY <1>4, <1>5, <2>1
<1>7. Kilograms(Got(Extra, "quantity")) = SumOf(asked, Party \ Member, "quantity")
  <2> DEFINE q == SumOf(asked, Party \ Member, "quantity") \div Unit("quantity")
  <2>1. q \in Int /\ q * 100 = SumOf(asked, Party \ Member, "quantity")
    BY <1>1, <1>5, TotalExact
  <2>2. Got(Extra, "quantity") = q
    BY <1>4, <1>5
  <2> HIDE DEF q
  <2>3. q # None
    BY <2>1, SourcesAssumption
  <2> QED BY <2>1, <2>2, <2>3 DEF Kilograms
<1> QED BY <1>6, <1>7

\* Nothing is filed while an answer is read, and the sums stay what they are.
LEMMA SameSums ==
  ASSUME filed' = filed, asked' = asked, kind' = kind
  PROVE  /\ \A ps, leg : SumOf(asked, ps, leg)' = SumOf(asked, ps, leg)
         /\ Totals' = Totals /\ Summed' = Summed
  BY DEF SumOf, FiledBy, Totals, Summed

\* What a step of the reading leaves to be shown of TotalInv.
LEMMA StillTotalled ==
  ASSUME TotalInv, kind' = kind, filed' = filed, asked' = asked, body' = body,
         Reading', seen_total' # {} => kind = "census",
         \A t \in seen_total' : t = Totals,
         kind = "census" => \A row \in body \ left' : row.code = World => seen_total' # {},
         kind = "census" /\ pc' = "finished" /\ seen_total' # {} =>
           \E o \in yielded' : o.series = Aggregate,
         \A o \in yielded' : o.series = Aggregate =>
           /\ o.value = SumOf(asked, Summed, "value")
           /\ o.quantity = SumOf(asked, Summed, "quantity")
  PROVE  TotalInv'
<1>1. /\ SumOf(asked, Summed, "value")' = SumOf(asked, Summed, "value")
      /\ SumOf(asked, Summed, "quantity")' = SumOf(asked, Summed, "quantity")
      /\ Totals' = Totals
  <2>1. /\ \A ps, leg : SumOf(asked, ps, leg)' = SumOf(asked, ps, leg)
        /\ Totals' = Totals /\ Summed' = Summed
    BY SameSums
  <2> QED BY <2>1 DEF SumOf, FiledBy
<1>2. IsFiniteSet(filed)' /\ (\A f \in filed : f.party \in Filers[kind])'
  BY DEF TotalInv
<1> QED BY <1>1, <1>2 DEF TotalInv

LEMMA InitTotals == Init => TotalInv
<1> SUFFICES ASSUME Init PROVE TotalInv
  OBVIOUS
<1>1. /\ filed = {} /\ body = {} /\ left = {} /\ seen_total = {} /\ yielded = {}
      /\ pc = "idle" /\ why = "not refused"
  BY DEF Init
<1>2. IsFiniteSet(filed)
  BY ZenonT(40), <1>1, FS_EmptySet
<1> QED BY <1>1, <1>2 DEF TotalInv

LEMMA FileTotals ==
  ASSUME IInv, TotalInv, NEW f \in Filing, File(f)
  PROVE  TotalInv'
<1>1. pc = "idle" /\ why = "not refused"
  BY DEF File, IInv, AnswerInv
<1>2. ~Opened /\ ~Reading /\ yielded = {}
  BY <1>1 DEF Opened, Reading, IInv, AnswerInv
<1>3. body = {} /\ seen_total = {}
  BY <1>2 DEF TotalInv
<1>4. /\ filed' = filed \cup {f} /\ f.party \in Filers[kind] /\ kind' = kind
      /\ body' = {} /\ left' = left /\ seen_total' = {} /\ yielded' = {}
  BY <1>2, <1>3 DEF File
<1>5. IsFiniteSet(filed)'
  BY <1>4, FS_AddElement DEF TotalInv
<1>6. (\A g \in filed : g.party \in Filers[kind])'
  BY <1>4 DEF TotalInv
<1> QED BY <1>4, <1>5, <1>6 DEF TotalInv

LEMMA AskTotals ==
  ASSUME IInv, TotalInv,
         \/ \E a \in Month : FetchFails(a) \/ \E m \in Month : Fetch(a, m)
         \/ Open
  PROVE  TotalInv'
<1>1. /\ pc \in {"idle", "opened"} /\ why = "not refused"
      /\ kind' = kind /\ filed' = filed /\ seen_total' = seen_total /\ yielded' = yielded
  BY DEF FetchFails, Fetch, Open, IInv, AnswerInv
<1>2. yielded = {} /\ seen_total = {}
  BY <1>1 DEF Reading, IInv, AnswerInv, TotalInv
<1>3. IsFiniteSet(filed)' /\ (\A f \in filed : f.party \in Filers[kind])'
  BY <1>1 DEF TotalInv
<1>4. body' # {} => Opened' \/ Reading'
  <2>1. CASE \E a \in Month : FetchFails(a)
    <3>1. pc = "idle"
      BY <2>1 DEF FetchFails
    <3>2. body = {}
      BY <1>1, <3>1 DEF TotalInv, Opened, Reading
    <3> QED BY <2>1, <3>2 DEF FetchFails
  <2>2. CASE \E a, m \in Month : Fetch(a, m)
    BY <2>2 DEF Fetch, GoTo, Opened
  <2>3. CASE Open
    BY <2>3 DEF Open, Refuse, GoTo, Opened, Reading
  <2> QED BY <2>1, <2>2, <2>3
<1>5. Reading' => body' \ left' = {}
  <2>1. CASE \E a \in Month : FetchFails(a)
    BY <2>1 DEF FetchFails, Refuse, Reading
  <2>2. CASE \E a, m \in Month : Fetch(a, m)
    BY <2>2 DEF Fetch
  <2>3. CASE Open
    <3>1. pc = "opened" /\ left' = left /\ body' = body
      BY <2>3 DEF Open
    <3>2. left = body
      BY <3>1 DEF IInv, AnswerInv
    <3> QED BY <3>1, <3>2
  <2> QED BY <2>1, <2>2, <2>3
<1> QED BY <1>1, <1>2, <1>3, <1>4, <1>5 DEF TotalInv

LEMMA ReadCensusTotals ==
  ASSUME IInv, TotalInv, NEW row \in left, ReadCensus(row)
  PROVE  TotalInv'
<1>1. /\ kind = "census" /\ pc = "rows" /\ kind' = kind /\ filed' = filed /\ asked' = asked
      /\ body' = body /\ left' = left \ {row} /\ pc' = "rows"
      /\ seen_total' = IF row.code = World THEN {CensusFigures(row)} ELSE seen_total
  BY DEF ReadCensus
<1>2. Reading /\ Reading' /\ filed \subseteq Filing
  BY <1>1 DEF Reading, IInv, AnswerInv
<1>3. row \in CensusRows(asked)
  BY ZenonT(40), <1>1, <1>2 DEF IInv, AnswerInv, PendingInv, Rows
<1>4. row.code = World => CensusFigures(row) = Totals
  <2>1. IsFiniteSet(filed)
    BY DEF TotalInv
  <2> QED BY <1>2, <1>3, <2>1, WorldRow DEF Totals
<1>5. \A t \in seen_total' : t = Totals
  BY <1>1, <1>4 DEF TotalInv
<1>6. \A r \in body \ left' : r.code = World => seen_total' # {}
  BY <1>1, <1>2 DEF TotalInv
<1>7. ASSUME NEW o \in yielded', o.series = Aggregate PROVE o \in yielded
  <2>1. CASE row.code \in Tracked["census"]
    <3>1. row.code \in Party
      BY <2>1, SourcesAssumption DEF Kind
    <3>2. row.code # Aggregate
      BY <3>1, SourcesAssumption
    <3>3. CensusObservation(row).series = row.code
      BY DEF CensusObservation, Observed
    <3> QED BY <1>7, <2>1, <3>2, <3>3 DEF ReadCensus
  <2>2. CASE row.code \notin Tracked["census"]
    BY <1>7, <2>2 DEF ReadCensus
  <2> QED BY <2>1, <2>2
<1>8. \A o \in yielded' : o.series = Aggregate =>
        /\ o.value = SumOf(asked, Summed, "value")
        /\ o.quantity = SumOf(asked, Summed, "quantity")
  BY <1>7 DEF TotalInv
<1> QED BY <1>1, <1>2, <1>5, <1>6, <1>8, StillTotalled

LEMMA EndCensusTotals ==
  ASSUME IInv, TotalInv, EndCensus
  PROVE  TotalInv'
<1>1. /\ kind = "census" /\ pc = "rows" /\ kind' = kind /\ filed' = filed /\ asked' = asked
      /\ body' = body /\ left' = left /\ seen_total' = seen_total
  BY DEF EndCensus
<1>2. Reading /\ Reading'
  BY <1>1 DEF EndCensus, GoTo, Refuse, Reading
<1> DEFINE total(t) == Observed(Aggregate, t.value, t.quantity, TRUE)
<1>3. ASSUME NEW t \in seen_total
      PROVE  /\ total(t).series = Aggregate
             /\ total(t).value = SumOf(asked, Summed, "value")
             /\ total(t).quantity = SumOf(asked, Summed, "quantity")
  <2>1. t = Totals /\ Summed = Party
    BY <1>1 DEF TotalInv, Summed
  <2> QED BY <2>1 DEF Observed, Totals
<1>4. CASE emitted
  <2>1. yielded' = yielded \cup {total(t) : t \in seen_total}
    BY <1>4 DEF EndCensus
  <2> HIDE DEF total
  <2>2. seen_total' # {} => \E o \in yielded' : o.series = Aggregate
    BY <1>1, <1>3, <2>1
  <2>3. \A o \in yielded' : o.series = Aggregate =>
          /\ o.value = SumOf(asked, Summed, "value")
          /\ o.quantity = SumOf(asked, Summed, "quantity")
    BY <1>3, <2>1 DEF TotalInv
  <2> QED BY <1>1, <1>2, <2>2, <2>3, StillTotalled DEF TotalInv
<1>5. CASE ~emitted
  <2>1. yielded' = yielded /\ pc' = "refused"
    BY <1>5 DEF EndCensus, Refuse
  <2> QED BY <1>1, <1>2, <2>1, StillTotalled DEF TotalInv
<1> QED BY <1>4, <1>5

\* The steps that yield nothing, or only companies.
LEMMA OtherTotals ==
  ASSUME IInv, TotalInv,
         \/ \E row \in left : ReadComext(row) \/ ReadTwse(row)
         \/ EndPivot \/ EndComext \/ EndTwse \/ Malformed
  PROVE  TotalInv'
<1>1. /\ kind' = kind /\ filed' = filed /\ asked' = asked /\ body' = body
      /\ seen_total' = seen_total /\ pc \in {"rows", "partners"}
      /\ kind # "census" \/ left' = left
  BY DEF ReadComext, ReadTwse, EndPivot, EndComext, EndTwse, Malformed
<1>2. Reading /\ Reading'
  <2>1. Reading
    BY <1>1 DEF Reading
  <2>2. CASE \E row \in left : ReadComext(row) \/ ReadTwse(row)
    BY <2>2 DEF ReadComext, ReadTwse, Reading
  <2>3. CASE EndPivot \/ EndComext \/ EndTwse \/ Malformed
    BY <2>3 DEF EndPivot, EndComext, EndTwse, Malformed, Refuse, GoTo, Reading
  <2> QED BY <2>1, <2>2, <2>3
<1>3. seen_total' # {} => kind = "census"
  BY <1>1 DEF TotalInv
<1>4. \A t \in seen_total' : t = Totals
  BY <1>1 DEF TotalInv
<1>5. kind = "census" => \A row \in body \ left' : row.code = World => seen_total' # {}
  BY <1>1, <1>2 DEF TotalInv
<1>6. ~(kind = "census" /\ pc' = "finished")
  <2>1. CASE \E row \in left : ReadComext(row) \/ ReadTwse(row)
    BY <2>1 DEF ReadComext, ReadTwse
  <2>2. CASE EndPivot \/ EndTwse \/ Malformed
    BY <2>2 DEF EndPivot, EndTwse, Malformed, Refuse, GoTo
  <2>3. CASE EndComext
    BY <2>3 DEF EndComext, IInv, PendingInv
  <2> QED BY <2>1, <2>2, <2>3
<1>7. ASSUME NEW o \in yielded', o.series = Aggregate PROVE o \in yielded
  <2>1. ASSUME NEW row \in left, ReadTwse(row) PROVE o \in yielded
    <3>1. CASE row.code \in Tracked["twse"] /\ row.revenue # Blank
      <4>1. row.code \in Party
        BY <3>1, SourcesAssumption DEF Kind
      <4>2. row.code # Aggregate
        BY <4>1, SourcesAssumption
      <4>3. TwseObservation(row).series = row.code
        BY DEF TwseObservation, Observed
      <4> QED BY <1>7, <2>1, <3>1, <4>2, <4>3 DEF ReadTwse
    <3>2. CASE ~(row.code \in Tracked["twse"] /\ row.revenue # Blank)
      BY <1>7, <2>1, <3>2 DEF ReadTwse
    <3> QED BY <3>1, <3>2
  <2>2. ASSUME NEW row \in left, ReadComext(row) PROVE o \in yielded
    BY <1>7, <2>2 DEF ReadComext
  <2>3. CASE EndPivot \/ EndComext \/ EndTwse \/ Malformed
    BY <1>7, <2>3 DEF EndPivot, EndComext, EndTwse, Malformed
  <2> QED BY <2>1, <2>2, <2>3
<1>8. \A o \in yielded' : o.series = Aggregate =>
        /\ o.value = SumOf(asked, Summed, "value")
        /\ o.quantity = SumOf(asked, Summed, "quantity")
  BY <1>7 DEF TotalInv
<1> QED BY <1>1, <1>2, <1>3, <1>4, <1>5, <1>6, <1>8, StillTotalled

LEMMA YieldPartnerTotals ==
  ASSUME IInv, TotalInv, NEW code, YieldPartner(code)
  PROVE  TotalInv'
<1>0. pc = "partners"
  BY DEF YieldPartner
<1>1. /\ kind = "comext" /\ left = {} /\ kind' = kind /\ filed' = filed /\ asked' = asked
      /\ body' = body /\ left' = left /\ seen_total' = seen_total /\ pc' = "partners"
  BY <1>0 DEF YieldPartner, IInv, PendingInv
<1>2. Reading /\ Reading'
  BY <1>0, <1>1 DEF Reading
<1>3. seen_total = {}
  BY <1>1 DEF TotalInv
<1>4. ASSUME NEW o \in yielded', o.series = Aggregate
      PROVE  /\ o.value = SumOf(asked, Summed, "value")
             /\ o.quantity = SumOf(asked, Summed, "quantity")
  <2>1. CASE o \in yielded
    BY <1>4, <2>1 DEF TotalInv
  <2>2. CASE o \notin yielded
    <3>1. PICK s \in series_key(code) : o = ComextObservation(code, s)
      BY <2>2 DEF YieldPartner
    <3>2. s = Aggregate
      BY <1>4, <3>1 DEF ComextObservation, Observed
    <3>3. code = Extra
      <4>1. CASE code \in AGGREGATES
        BY <3>1, <4>1 DEF series_key
      <4>2. CASE code \notin AGGREGATES
        <5>1. s = code /\ code \in Tracked["comext"]
          BY <3>1, <4>2 DEF series_key
        <5>2. code \in Party
          BY <5>1, SourcesAssumption DEF Kind
        <5> QED BY <3>2, <5>1, <5>2, SourcesAssumption
      <4> QED BY <4>1, <4>2
    <3>4. PICK c \in by_partner : c.code = Extra
      BY <3>3 DEF YieldPartner
    <3>5. /\ Got(Extra, "value") = SumOf(asked, Party \ Member, "value")
          /\ Kilograms(Got(Extra, "quantity")) = SumOf(asked, Party \ Member, "quantity")
      BY <1>0, <1>1, <3>4, GotTotal DEF IInv, TotalInv
    <3>6. Summed = Party \ Member
      BY <1>1 DEF Summed
    <3> QED BY <3>1, <3>3, <3>5, <3>6 DEF ComextObservation, Observed
  <2> QED BY <2>1, <2>2
<1> QED BY <1>1, <1>2, <1>3, <1>4, StillTotalled

LEMMA NextTotals == IInv /\ TotalInv /\ [Next]_vars => TotalInv'
<1> SUFFICES ASSUME IInv, TotalInv, [Next]_vars PROVE TotalInv'
  OBVIOUS
<1>1. ASSUME NEW f \in Filing, File(f) PROVE TotalInv'
  BY <1>1, FileTotals
<1>2. CASE (\E a \in Month : FetchFails(a) \/ \E m \in Month : Fetch(a, m)) \/ Open
  BY <1>2, AskTotals
<1>3. ASSUME NEW row \in left, ReadCensus(row) PROVE TotalInv'
  BY <1>3, ReadCensusTotals
<1>4. CASE EndCensus
  BY <1>4, EndCensusTotals
<1>5. CASE \/ \E row \in left : ReadComext(row) \/ ReadTwse(row)
           \/ EndPivot \/ EndComext \/ EndTwse \/ Malformed
  BY <1>5, OtherTotals
<1>6. ASSUME NEW code \in Code, YieldPartner(code) PROVE TotalInv'
  BY <1>6, YieldPartnerTotals
<1>7. CASE UNCHANGED vars
  <2>1. /\ kind' = kind /\ filed' = filed /\ asked' = asked /\ body' = body /\ left' = left
        /\ seen_total' = seen_total /\ yielded' = yielded /\ pc' = pc /\ why' = why
    BY <1>7 DEF vars
  <2>2. /\ SumOf(asked, Summed, "value")' = SumOf(asked, Summed, "value")
        /\ SumOf(asked, Summed, "quantity")' = SumOf(asked, Summed, "quantity")
        /\ Totals' = Totals
    BY <2>1 DEF Totals, Summed, SumOf, FiledBy
  <2>3. Opened' = Opened /\ Reading' = Reading
    BY <2>1 DEF Opened, Reading
  <2>4. /\ IsFiniteSet(filed)' /\ (\A f \in filed : f.party \in Filers[kind])'
        /\ (body # {} => Opened \/ Reading)'
        /\ (seen_total # {} => kind = "census" /\ Reading)'
        /\ (\A t \in seen_total : t = Totals)'
    BY <2>1, <2>2, <2>3 DEF TotalInv
  <2>5. /\ (kind = "census" /\ Reading => \A row \in body \ left :
              row.code = World => seen_total # {})'
        /\ (kind = "census" /\ pc = "finished" /\ seen_total # {}
              => \E o \in yielded : o.series = Aggregate)'
    BY <2>1, <2>3 DEF TotalInv
  <2>6. (\A o \in yielded : o.series = Aggregate =>
           /\ o.value = SumOf(asked, Summed, "value")
           /\ o.quantity = SumOf(asked, Summed, "quantity"))'
    BY <2>1, <2>2 DEF TotalInv
  <2> QED BY <2>4, <2>5, <2>6 DEF TotalInv
<1> HIDE DEF Code
<1> QED BY <1>1, <1>2, <1>3, <1>4, <1>5, <1>6, <1>7 DEF Next

LEMMA TotalsHold == Spec => []TotalInv
<1>1. Init => TotalInv
  BY InitTotals
<1>2. IInv /\ TotalInv /\ [Next]_vars => TotalInv'
  BY NextTotals
<1> QED BY <1>1, <1>2, Inductive, PTL DEF Spec

LEMMA ReconcilesFollows == IInv /\ TotalInv => Reconciles
<1> SUFFICES ASSUME IInv, TotalInv, kind # "twse", FiledBy(asked, Summed) # {}
             PROVE  /\ ~Rejected
                    /\ pc = "finished" => \E o \in yielded : o.series = Aggregate
  BY DEF Reconciles, TotalInv
<1>1. /\ filed \subseteq Filing /\ IsFiniteSet(filed) /\ asked \in Month
      /\ kind = "census" \/ kind = "comext"
  BY DEF IInv, AnswerInv, TotalInv, Kind
<1>2. \E row \in Rows(asked) :
        \/ kind = "census" /\ row.code = World
        \/ kind = "comext" /\ row.code = Extra /\ row.obs # Blank
  <2>1. CASE kind = "census"
    <3>1. Rows(asked) = CensusRows(asked) /\ Summed = Party
      BY <2>1 DEF Rows, Summed
    <3>2. \E row \in CensusRows(asked) : row.code = World
      BY <1>1, <3>1, WorldRow
    <3> QED BY <2>1, <3>1, <3>2
  <2>2. CASE kind = "comext"
    <3>1. Rows(asked) = ComextRows(asked) /\ Summed = Party \ Member
      BY <2>2 DEF Rows, Summed
    <3> DEFINE row == [code |-> Extra, leg |-> "value",
                       obs |-> SumOf(asked, Party \ Member, "value") \div Unit("value")]
    <3>2. "value" \in Leg
      BY DEF Leg
    <3>3. row \in ComextRows(asked) /\ row.obs # Blank
      BY <1>1, <3>1, <3>2, ExtraRow
    <3>4. row.code = Extra
      OBVIOUS
    <3> HIDE DEF row
    <3> QED BY <2>2, <3>1, <3>3, <3>4
  <2> QED BY <1>1, <2>1, <2>2
<1>3. PICK row \in Rows(asked) :
        \/ kind = "census" /\ row.code = World
        \/ kind = "comext" /\ row.code = Extra /\ row.obs # Blank
  BY <1>2
<1>4. ASSUME Reading, left = {}, why # "malformed"
      PROVE  /\ kind = "census" => seen_total # {}
             /\ kind = "comext" /\ by_partner = {} =>
                  emitted /\ \E o \in yielded : o.series = Aggregate
  <2>1. row \in body \ left
    BY <1>3, <1>4 DEF IInv, AnswerInv
  <2>2. CASE kind = "census"
    BY <1>3, <1>4, <2>1, <2>2 DEF TotalInv
  <2>3. CASE kind = "comext"
    <3>1. series_key(Extra) = {Aggregate}
      BY DEF series_key, AGGREGATES
    <3>2. ComextDone
      BY <1>4, <2>3 DEF IInv, DoneInv
    <3> QED BY <1>3, <2>1, <2>3, <3>1, <3>2 DEF ComextDone
  <2> QED BY <1>1, <2>2, <2>3
<1>5. pc = "finished" => \E o \in yielded : o.series = Aggregate
  <2> SUFFICES ASSUME pc = "finished" PROVE \E o \in yielded : o.series = Aggregate
    OBVIOUS
  <2>1. /\ Reading /\ left = {} /\ why # "malformed"
        /\ kind = "comext" => by_partner = {}
    BY DEF IInv, AnswerInv, PendingInv, Reading
  <2> QED BY <1>1, <1>4, <2>1 DEF TotalInv
<1>6. why # "empty"
  <2> SUFFICES ASSUME why = "empty" PROVE FALSE
    OBVIOUS
  <2>1. PICK m \in Month : Serves(m, asked) /\ body = Rows(m)
    BY DEF IInv, AnswerInv, Opened
  <2>2. m = asked /\ body = {}
    <3>1. m = asked
      BY <1>1, <2>1 DEF Serves
    <3>2. body = {}
      BY DEF IInv, AnswerInv
    <3> QED BY <3>1, <3>2
  <2> QED BY <1>3, <2>1, <2>2
<1>7. why # "other month"
  BY DEF IInv, AnswerInv
<1>8. why # "unusable"
  <2> SUFFICES ASSUME why = "unusable" PROVE FALSE
    OBVIOUS
  <2>1. Reading /\ left = {} /\ ~emitted /\ (kind = "comext" => by_partner = {})
    BY DEF IInv, PendingInv, DoneInv, Reading
  <2>2. CASE kind = "comext"
    BY <1>4, <2>1, <2>2
  <2>3. CASE kind = "census"
    <3>1. PICK f \in filed : f.month = asked
      BY DEF FiledBy
    <3>2. f.party \in Filers["census"]
      BY <2>3 DEF TotalInv
    <3>3. PICK r \in CensusRows(asked) : r.code = f.party
      BY <1>1, <3>1, <3>2, FilingRow
    <3>4. r \in body \ left /\ is_country_code(r.code)
      BY <2>1, <2>3, <3>2, <3>3, SourcesAssumption DEF IInv, AnswerInv, Rows
    <3>5. CensusDone
      BY <2>1, <2>3 DEF IInv, DoneInv
    <3> QED BY <2>1, <3>4, <3>5 DEF CensusDone
  <2> QED BY <1>1, <2>2, <2>3
<1> QED BY <1>5, <1>6, <1>7, <1>8 DEF Rejected

\* The total of an answer is the sum of all that was filed for the month asked,
\* tracked or not (for the Union, of its imports from outside alone); and when
\* anything was filed the answer is usable and its total is recorded.
THEOREM TotalsReconcile == Spec => []Reconciles
  BY ReconcilesFollows, Inductive, TotalsHold, PTL

LEMMA PricesFollow == IInv /\ TotalInv => UnitValues
<1> SUFFICES ASSUME IInv, TotalInv, NEW o \in yielded
             PROVE  /\ kind = "twse" \/ (kind = "census" /\ o.series = Aggregate) =>
                         o.unit_value = None
                    /\ kind = "comext" /\ o.series = Aggregate =>
                         IsPrice(o.unit_value, SumOf(asked, Summed, "value"),
                                 SumOf(asked, Summed, "quantity"))
                    /\ kind # "twse" /\ o.series # Aggregate =>
                         \A f \in FiledBy(asked, {o.series}) :
                           IF f.hidden # {} THEN o.unit_value = None
                           ELSE IsPrice(o.unit_value, f.value, f.quantity)
  BY DEF UnitValues
<1>1. o.unit_value = IF kind = "twse" \/ (kind = "census" /\ o.series = Aggregate)
                       THEN None ELSE with_unit_value(o.value, o.quantity)
  BY DEF IInv, UnitInv
<1>2. ASSUME NEW v \in Int, NEW q \in Int
      PROVE  IsPrice(with_unit_value(v, q), v, q)
  <2>1. v # None /\ q # None /\ <<v, q>> # None
    BY SourcesAssumption
  <2>2. with_unit_value(v, q) = IF q = 0 THEN None ELSE <<v, q>>
    BY <2>1 DEF with_unit_value
  <2> QED BY <2>1, <2>2 DEF IsPrice
<1>3. ASSUME kind = "comext", o.series = Aggregate
      PROVE  IsPrice(o.unit_value, SumOf(asked, Summed, "value"), SumOf(asked, Summed, "quantity"))
  <2>1. o.value = SumOf(asked, Summed, "value") /\ o.quantity = SumOf(asked, Summed, "quantity")
    BY <1>3 DEF TotalInv
  <2>2. SumOf(asked, Summed, "value") \in Int /\ SumOf(asked, Summed, "quantity") \in Int
    BY TotalExact DEF IInv, AnswerInv, TotalInv, Leg
  <2>3. o.unit_value = with_unit_value(o.value, o.quantity)
    BY <1>1, <1>3
  <2> HIDE DEF SumOf, Summed
  <2> QED BY <1>2, <2>1, <2>2, <2>3
<1>4. ASSUME kind # "twse", o.series # Aggregate, NEW f \in FiledBy(asked, {o.series})
      PROVE  IF f.hidden # {} THEN o.unit_value = None
             ELSE IsPrice(o.unit_value, f.value, f.quantity)
  <2>1. PICK g \in filed :
           /\ g.party = o.series /\ g.month = asked
           /\ o.value = Known(g, "value") /\ o.quantity = Known(g, "quantity")
    BY <1>4 DEF IInv, AsFiled
  <2>2. f = g /\ g \in Filing
    BY ZenonT(40), <1>4, <2>1 DEF IInv, AnswerInv, FiledBy
  <2>3. /\ f["value"] = f.value /\ f["quantity"] = f.quantity
        /\ f.value \in Nat /\ f.quantity \in Nat /\ f.hidden \subseteq {"value", "quantity"}
    BY <2>2, TextRead DEF Filing, Leg
  <2>4. o.unit_value = with_unit_value(Known(f, "value"), Known(f, "quantity"))
    BY <1>1, <1>4, <2>1, <2>2
  <2>5. CASE "value" \in f.hidden \/ "quantity" \in f.hidden
    BY <2>4, <2>5 DEF with_unit_value, Known
  <2>6. CASE "value" \notin f.hidden /\ "quantity" \notin f.hidden
    <3>1. f.hidden = {}
      BY <2>3, <2>6
    <3>2. o.unit_value = with_unit_value(f.value, f.quantity)
      BY <2>3, <2>4, <2>6 DEF Known
    <3>3. f.value \in Int /\ f.quantity \in Int
      BY <2>3
    <3> QED BY <1>2, <3>1, <3>2, <3>3
  <2> QED BY <2>5, <2>6
<1>5. kind = "twse" \/ (kind = "census" /\ o.series = Aggregate) => o.unit_value = None
  BY <1>1
<1> HIDE DEF Code, Kind
<1> QED BY <1>3, <1>4, <1>5

\* A unit value is the price of the imports that its observation is about: of one
\* party's two figures, or of the two sums of the Comext total; never of a
\* quantity of zero, and a company's revenue and the Census total have none.
THEOREM Prices == Spec => []UnitValues
  BY PricesFollow, Inductive, TotalsHold, PTL

-----------------------------------------------------------------------------
(***************************************************************************)
(* Type correctness.                                                       *)
(***************************************************************************)
\* An observation has the five fields of its table, for a series of the source.
Shaped(o) ==
  /\ o.series \in series_specs(kind)
  /\ o = [series |-> o.series, month |-> asked, value |-> o.value,
          quantity |-> o.quantity, unit_value |-> o.unit_value]

ShapeInv ==
  /\ keyed \in BOOLEAN /\ emitted \in BOOLEAN /\ period \in Month /\ why \in Why
  /\ \A o \in yielded : Shaped(o)

LEMMA ObservedShaped ==
  ASSUME period = asked, NEW s \in series_specs(kind), NEW v, NEW q, NEW b
  PROVE  Shaped(Observed(s, v, q, b))
  BY DEF Observed, Shaped

\* Every observation a step yields is new, and made by Observed for a series of
\* the source, or was there.
LEMMA YieldedShaped ==
  ASSUME IInv, [Next]_vars, NEW o \in yielded', o \notin yielded
  PROVE  Shaped(o) /\ asked' = asked /\ kind' = kind
<1>1. CASE \/ \E f \in Filing : File(f)
           \/ \E a \in Month : FetchFails(a) \/ \E m \in Month : Fetch(a, m)
           \/ Open \/ EndPivot \/ EndComext \/ EndTwse \/ Malformed \/ UNCHANGED vars
           \/ \E row \in left : ReadComext(row)
  BY <1>1 DEF File, FetchFails, Fetch, Open, EndPivot, EndComext, EndTwse, Malformed,
              ReadComext, vars
<1>2. ASSUME NEW row \in left, ReadCensus(row)
      PROVE  Shaped(o) /\ asked' = asked /\ kind' = kind
  <2>1. period = asked /\ kind = "census"
    BY <1>2 DEF ReadCensus, IInv, AnswerInv, Reading
  <2>2. row.code \in Tracked["census"] /\ o = CensusObservation(row)
    BY <1>2 DEF ReadCensus
  <2>3. row.code \in series_specs(kind)
    BY <2>1, <2>2 DEF series_specs
  <2> QED BY <1>2, <2>1, <2>2, <2>3, ObservedShaped DEF CensusObservation, ReadCensus
<1>3. ASSUME NEW row \in left, ReadTwse(row)
      PROVE  Shaped(o) /\ asked' = asked /\ kind' = kind
  <2>1. period = asked /\ kind = "twse"
    BY <1>3 DEF ReadTwse, IInv, AnswerInv, Reading
  <2>2. row.code \in Tracked["twse"] /\ o = TwseObservation(row)
    BY <1>3 DEF ReadTwse
  <2>3. row.code \in series_specs(kind)
    BY <2>1, <2>2 DEF series_specs
  <2>4. Shaped(o)
    <3> DEFINE revenue == row.revenue * 1000
    <3>1. o = Observed(row.code, revenue, None, TRUE)
      BY <2>2 DEF TwseObservation
    <3> HIDE DEF revenue
    <3> QED BY <2>1, <2>3, <3>1, ObservedShaped
  <2>5. asked' = asked /\ kind' = kind
    BY <1>3 DEF ReadTwse
  <2> QED BY <2>4, <2>5
<1>4. CASE EndCensus
  <2>1. period = asked /\ kind = "census"
    BY <1>4 DEF EndCensus, IInv, AnswerInv, Reading
  <2>2. PICK t \in seen_total : o = Observed(Aggregate, t.value, t.quantity, TRUE)
    <3> DEFINE total(t) == Observed(Aggregate, t.value, t.quantity, TRUE)
    <3>1. CASE emitted
      <4>1. yielded' = yielded \cup {total(t) : t \in seen_total}
        BY <1>4, <3>1 DEF EndCensus
      <4> HIDE DEF total
      <4>2. \E t \in seen_total : o = total(t)
        BY <4>1
      <4> QED BY <4>2 DEF total
    <3>2. CASE ~emitted
      BY <1>4, <3>2 DEF EndCensus
    <3> QED BY <3>1, <3>2
  <2>3. Aggregate \in series_specs(kind)
    BY <2>1 DEF series_specs
  <2> QED BY <1>4, <2>1, <2>2, <2>3, ObservedShaped DEF EndCensus
<1>5. ASSUME NEW code, YieldPartner(code)
      PROVE  Shaped(o) /\ asked' = asked /\ kind' = kind
  <2>0. pc = "partners"
    BY <1>5 DEF YieldPartner
  <2>1. period = asked /\ kind = "comext"
    BY <2>0 DEF IInv, AnswerInv, PendingInv, Reading
  <2>2. PICK s \in series_key(code) : o = ComextObservation(code, s)
    BY <1>5 DEF YieldPartner
  <2>3. s \in series_specs(kind)
    BY <2>1, <2>2 DEF series_specs, series_key
  <2> QED BY <1>5, <2>1, <2>2, <2>3, ObservedShaped DEF ComextObservation, YieldPartner
<1> HIDE DEF Code
<1> QED BY <1>1, <1>2, <1>3, <1>4, <1>5 DEF Next

LEMMA ShapesHold == Spec => []ShapeInv
<1>1. Init => ShapeInv
  BY ZenonT(40) DEF Init, ShapeInv, Why
<1>2. IInv /\ ShapeInv /\ [Next]_vars => ShapeInv'
  <2> SUFFICES ASSUME IInv, ShapeInv, [Next]_vars PROVE ShapeInv'
    OBVIOUS
  <2>1. keyed' = keyed /\ emitted' \in BOOLEAN
    BY ZenonT(40)
    DEF Next, vars, ShapeInv, File, FetchFails, Fetch, Open, ReadCensus, ReadComext, ReadTwse,
        YieldPartner, EndCensus, EndPivot, EndComext, EndTwse, Malformed
  <2>2. period' \in Month
    <3>1. CASE Open
      <4>1. period' = period \/ period' = asked
        BY <3>1 DEF Open
      <4>2. period \in Month
        BY DEF ShapeInv
      <4>3. asked \in Month
        BY DEF IInv, AnswerInv
      <4> QED BY <4>1, <4>2, <4>3
    <3>2. CASE \E a \in Month : FetchFails(a) \/ \E m \in Month : Fetch(a, m)
      BY <3>2 DEF FetchFails, Fetch, ShapeInv
    <3>3. CASE ~Open /\ ~\E a \in Month : FetchFails(a) \/ \E m \in Month : Fetch(a, m)
      BY <3>3 DEF Next, vars, ShapeInv, File, ReadCensus, ReadComext, ReadTwse,
                  YieldPartner, EndCensus, EndPivot, EndComext, EndTwse, Malformed
    <3> QED BY <3>1, <3>2, <3>3
  <2>3. yielded = {} \/ (asked' = asked /\ kind' = kind)
    <3>1. CASE \E a \in Month : FetchFails(a) \/ \E m \in Month : Fetch(a, m)
      BY <3>1 DEF FetchFails, Fetch, IInv, AnswerInv
    <3>2. CASE ~\E a \in Month : FetchFails(a) \/ \E m \in Month : Fetch(a, m)
      BY <3>2 DEF Next, vars, File, Open, ReadCensus, ReadComext, ReadTwse,
                  YieldPartner, EndCensus, EndPivot, EndComext, EndTwse, Malformed
    <3> QED BY <3>1, <3>2
  <2>4. ASSUME NEW o \in yielded' PROVE Shaped(o)'
    <3>1. Shaped(o) /\ asked' = asked /\ kind' = kind
      <4>1. CASE o \in yielded
        BY <2>3, <4>1 DEF ShapeInv
      <4>2. CASE o \notin yielded
        BY <4>2, YieldedShaped
      <4> QED BY <4>1, <4>2
    <3> QED BY <3>1 DEF Shaped, series_specs
  <2>5. why' \in Why
    <3>1. why' = why \/ why' \in {"fetch", "unreadable", "empty", "other month",
                                       "malformed", "unusable"}
      BY ZenonT(40)
      DEF Next, vars, File, FetchFails, Fetch, Open, ReadCensus, ReadComext, ReadTwse,
             YieldPartner, EndCensus, EndPivot, EndComext, EndTwse, Malformed, GoTo, Refuse
    <3>2. why \in Why
      BY DEF ShapeInv
    <3>3. \A reason \in {"fetch", "unreadable", "empty", "other month", "malformed", "unusable"} :
            reason \in Why
      BY DEF Why
    <3> QED BY <3>1, <3>2, <3>3
  <2> QED BY <2>1, <2>2, <2>4, <2>5 DEF ShapeInv
<1> QED BY <1>1, <1>2, Inductive, PTL DEF Spec

\* The codes of an answer are codes, and its numbers are numbers.
LEMMA RowsTyped ==
  ASSUME filed \subseteq Filing, IsFiniteSet(filed), kind \in Kind, NEW m \in Month
  PROVE  /\ \A row \in Rows(m) : row.code \in Code
         /\ kind = "comext" => \A row \in Rows(m) : row.obs # Blank =>
              row \in [code : Code, leg : Leg, obs : Int]
<1>1. ASSUME kind = "census", NEW row \in Rows(m) PROVE row.code \in Code
  BY <1>1 DEF Rows, CensusRows, Code, FiledBy, Filing
<1>2. ASSUME kind = "twse", NEW row \in Rows(m) PROVE row.code \in Code
  BY <1>2 DEF Rows, TwseRows, Code, FiledBy, Filing
<1>3. ASSUME kind = "comext", NEW row \in Rows(m)
      PROVE  row.code \in Code /\ (row.obs # Blank => row \in [code : Code, leg : Leg, obs : Int])
  <2>1. row \in ComextRows(m)
    BY <1>3 DEF Rows
  <2>2. CASE row.code \in Party
    <3>1. PICK f \in filed : /\ f.party = row.code /\ row.leg \in Leg
                             /\ row = [code |-> f.party, leg |-> row.leg,
                                       obs |-> Text(f, row.leg, Unit(row.leg))]
      BY <2>1, <2>2, ComextRow
    <3>2. f[row.leg] \in Amount
      BY <3>1 DEF Filing, Leg
    <3>3. (f[row.leg] \div Unit(row.leg)) \in Int
      BY <3>1, <3>2, UnitExact
    <3>4. row.obs = Text(f, row.leg, Unit(row.leg))
      BY <3>1
    <3>5. row.obs # Blank => row.obs \in Int
      BY <3>3, <3>4 DEF Text
    <3>6. row = [code |-> row.code, leg |-> row.leg, obs |-> row.obs]
      BY <3>1
    <3>7. row.code \in Code
      BY <2>2 DEF Code
    <3> QED BY <3>1, <3>5, <3>6, <3>7
  <2>3. CASE row.code \notin Party
    <3>1. row \in TotalRows(Extra, m, Party \ Member) \cup TotalRows(Intra, m, Member)
      BY <2>1, <2>3 DEF ComextRows, FiledBy, Filing
    <3>2. ASSUME NEW code \in {Extra, Intra}, NEW ps, row \in TotalRows(code, m, ps)
          PROVE  row \in [code : Code, leg : Leg, obs : Int]
      <4>1. PICK leg \in Leg : row = [code |-> code, leg |-> leg,
                                      obs |-> SumOf(m, ps, leg) \div Unit(leg)]
        BY <3>2 DEF TotalRows
      <4>2. (SumOf(m, ps, leg) \div Unit(leg)) \in Int
        BY TotalExact
      <4>3. code \in Code
        BY DEF Code
      <4> QED BY <4>1, <4>2, <4>3
    <3>3. row \in [code : Code, leg : Leg, obs : Int]
      BY <3>1, <3>2
    <3> QED BY <3>3
  <2> QED BY <2>2, <2>3
<1> QED BY <1>1, <1>2, <1>3 DEF Kind

LEMMA TypeFollows == IInv /\ TotalInv /\ ShapeInv => TypeOK
<1> SUFFICES ASSUME IInv, TotalInv, ShapeInv PROVE TypeOK
  OBVIOUS
<1>1. filed \subseteq Filing /\ IsFiniteSet(filed) /\ kind \in Kind /\ asked \in Month
  BY DEF IInv, AnswerInv, TotalInv
<1>2. \A row \in body : row.code \in Code
  <2>1. CASE body = {}
    BY <2>1
  <2>2. CASE body # {}
    <3>1. \E m \in Month : body = Rows(m)
      BY ZenonT(40), <1>1, <2>2 DEF TotalInv, IInv, AnswerInv
    <3> QED BY <1>1, <3>1, RowsTyped
  <2> QED BY <2>1, <2>2
<1>3. \A t \in seen_total : t \in [value : Figure, quantity : Figure]
  <2>1. SumOf(asked, Party, "value") \in Figure /\ SumOf(asked, Party, "quantity") \in Figure
    BY <1>1, TotalExact DEF Figure, Leg
  <2> QED BY <2>1 DEF TotalInv, Totals
<1>4. by_partner \subseteq [code : Code, leg : Leg, obs : Int]
  <2>1. CASE by_partner = {}
    BY <2>1
  <2>2. CASE by_partner # {}
    <3>1. kind = "comext"
      BY <2>2 DEF IInv, PendingInv
    <3>2. Reading
      BY <2>2 DEF IInv, AnswerInv, Reading, PC, ShapeInv, Why
    <3>3. \A c \in by_partner : c \in Rows(asked) /\ c.obs # Blank
      BY ZenonT(40), <3>1, <3>2 DEF IInv, AnswerInv, PivotInv
    <3> QED BY <1>1, <3>1, <3>3, RowsTyped
  <2> QED BY <2>1, <2>2
<1>5. ASSUME NEW o \in yielded PROVE o \in Observation
  <2>1. /\ o.series \in series_specs(kind)
        /\ o = [series |-> o.series, month |-> asked, value |-> o.value,
                quantity |-> o.quantity, unit_value |-> o.unit_value]
    BY DEF ShapeInv, Shaped
  <2>2. o.series \in Party \cup {Aggregate}
    BY <1>1, <2>1, SourcesAssumption DEF series_specs
  <2>3. o.value \in Figure /\ o.quantity \in Figure
    <3>1. CASE o.series = Aggregate
      <4>1. o.value = SumOf(asked, Summed, "value") /\ o.quantity = SumOf(asked, Summed, "quantity")
        BY <3>1 DEF TotalInv
      <4> QED BY <1>1, <4>1, TotalExact DEF Figure, Leg
    <3>2. CASE o.series # Aggregate
      <4>1. PICK f \in filed :
              /\ o.value = Known(f, "value")
              /\ o.quantity = IF kind = "twse" THEN None ELSE Known(f, "quantity")
        BY <3>2 DEF IInv, AsFiled
      <4>2. f["value"] \in Int /\ f["quantity"] \in Int
        BY <1>1, TextRead
      <4> QED BY <4>1, <4>2 DEF Known, Figure
    <3> QED BY <3>1, <3>2
  <2>4. o.unit_value \in UnitValue
    <3>1. with_unit_value(o.value, o.quantity) \in UnitValue
      BY <2>3 DEF with_unit_value, Figure, UnitValue
    <3> QED BY <3>1 DEF IInv, UnitInv, UnitValue
  <2> QED BY <1>1, <2>1, <2>2, <2>3, <2>4 DEF Observation
<1>6. /\ left \subseteq body /\ pc \in PC /\ (pc = "refused" <=> why # "not refused")
  BY DEF IInv, AnswerInv, PendingInv
<1>7. why \in Why
  BY DEF ShapeInv
<1>8. keyed \in BOOLEAN /\ emitted \in BOOLEAN /\ period \in Month
  BY DEF ShapeInv
<1>9. \A o \in yielded : o.series \in series_specs(kind)
  BY DEF ShapeInv, Shaped
<1> QED BY <1>1, <1>2, <1>3, <1>4, <1>5, <1>6, <1>7, <1>8, <1>9 DEF TypeOK

\* Every month, code, figure and observation is of its type, and every
\* observation is for a series the fetcher declares.
THEOREM TypeCorrect == Spec => []TypeOK
  BY TypeFollows, Inductive, TotalsHold, ShapesHold, PTL

=============================================================================
