--------------------------- MODULE Ingest_proofs ----------------------------
(***************************************************************************)
(* The point-in-time promise of the ingestion jobs, for any number of      *)
(* processes, series, periods and days.  The inductive invariant IInv of   *)
(* module Ingest is proved action by action; the rest follows from it.     *)
(***************************************************************************)
EXTENDS Ingest, TLAPS, FiniteSetTheorems, SequenceTheorems

\* A payload holds finitely many figures.
LEMMA FiguresFinite == ASSUME NEW S \in SUBSET Figure PROVE IsFiniteSet(S)
<1> DEFINE f == [q \in Series \X Value |-> [series |-> q[1], value |-> q[2]]]
<1>1. IsFiniteSet(Series \X Value)
  BY IngestAssumption, FS_Product
<1>2. f \in Surjection(Series \X Value, Figure)
  <2>1. \A g \in Figure : \E q \in Series \X Value : f[q] = g
    <3> TAKE g \in Figure
    <3>1. <<g.series, g.value>> \in Series \X Value
      BY DEF Figure
    <3>2. f[<<g.series, g.value>>] = g
      BY <3>1 DEF Figure
    <3> QED BY <3>1, <3>2
  <2>2. f \in [Series \X Value -> Figure]
    BY DEF Figure
  <2> HIDE DEF f
  <2> QED BY <2>1, <2>2 DEF Surjection
<1>3. IsFiniteSet(Figure)
  <2> HIDE DEF f
  <2> QED BY <1>1, <1>2, FS_Surjection
<1> QED BY <1>3, FS_Subset

\* The orders of a finite set: each element is there exactly once.
LEMMA OrdersCover ==
  ASSUME NEW S, IsFiniteSet(S), NEW q \in SetToSeqs(S)
  PROVE  /\ q \in Seq(S) /\ Len(q) = Cardinality(S)
         /\ \A i, j \in 1..Len(q) : q[i] = q[j] => i = j
         /\ \A x \in S : \E i \in 1..Len(q) : q[i] = x
<1> DEFINE n == Cardinality(S)
           T == {q[i] : i \in 1..n}
<1>1. n \in Nat
  BY FS_CardinalityType
<1>2. /\ q \in [1..n -> S]
      /\ \A i, j \in 1..n : i # j => q[i] # q[j]
  BY DEF SetToSeqs
<1>3. q \in Seq(S) /\ Len(q) = n
  BY <1>1, <1>2
<1>4. T \subseteq S /\ q \in Bijection(1..n, T)
  <2> HIDE DEF n
  <2> QED BY <1>2 DEF Bijection, Injection, Surjection, IsInjective
<1>5. IsFiniteSet(T) /\ Cardinality(T) = n
  <2> HIDE DEF n, T
  <2>1. ExistsBijection(1..n, T)
    BY <1>4 DEF ExistsBijection
  <2> QED BY <2>1, <1>1, FS_CountingElements, FS_NatBijection
<1>6. T = S
  BY <1>4, <1>5, FS_Subset
<1> QED BY <1>1, <1>2, <1>3, <1>6
\* A queue that is not empty and its tail.
LEMMA QueueTail ==
  ASSUME NEW S, NEW s \in Seq(S), s # <<>>
  PROVE  /\ Len(s) \in Nat \ {0} /\ Head(s) \in S /\ Head(s) = s[1]
         /\ Tail(s) \in Seq(S) /\ Len(Tail(s)) = Len(s) - 1
         /\ Len(s) = 1 <=> Tail(s) = <<>>
         /\ \A i \in 1..Len(Tail(s)) : Tail(s)[i] = s[i + 1]
<1>1. Len(s) \in Nat \ {0}
  BY EmptySeq
<1>2. /\ Head(s) \in S /\ Tail(s) \in Seq(S) /\ Len(Tail(s)) = Len(s) - 1
      /\ \A i \in 1..Len(Tail(s)) : Tail(s)[i] = s[i + 1]
  BY HeadTailProperties
<1>3. Tail(s) = <<>> <=> Len(Tail(s)) = 0
  BY <1>2, EmptySeq
<1>4. Head(s) = s[1]
  OBVIOUS
<1> QED BY <1>1, <1>2, <1>3, <1>4

-----------------------------------------------------------------------------
(***************************************************************************)
(* Types, and a process is idle exactly when nothing is left to do.        *)
(***************************************************************************)

LEMMA MonthRangeType ==
  ASSUME NEW a \in Period, NEW b \in Period, a <= b
  PROVE  MonthRange(a, b) \in Seq(Period) \ {<<>>}
<1>1. b - a + 1 \in Nat /\ \A i \in 1..(b - a + 1) : a + i - 1 \in Period
  BY IngestAssumption DEF Period
<1>2. MonthRange(a, b) \in Seq(Period)
  BY <1>1 DEF MonthRange
<1>3. 1 \in DOMAIN MonthRange(a, b)
  BY <1>1 DEF MonthRange, Period
<1> QED BY <1>2, <1>3

LEMMA InitTypes == Init => TypeOK /\ BusyInv
  BY IngestAssumption DEF Init, TypeOK, BusyInv, Day, PC

\* The end of a period keeps the process's own variables in their types.
LEMMA EndPeriodTypes ==
  ASSUME TypeOK, BusyInv, NEW r \in Runner, pc[r] # "idle", EndPeriod(r)
  PROVE  /\ raw' \in [Runner -> SUBSET Raw]
         /\ dirty' \in [Runner -> SUBSET Row]
         /\ todo' \in [Runner -> Seq(Figure)]
         /\ left' \in [Runner -> Seq(Period)]
         /\ pc' \in [Runner -> PC]
         /\ stamp' \in [Runner -> Day] /\ built' \in [Runner -> Day]
         /\ Head(left[r]) \in Period
         /\ BusyInv'
<1> USE DEF TypeOK, BusyInv, EndPeriod
<1>1. left[r] \in Seq(Period) /\ left[r] # <<>>
  OBVIOUS
<1>2. Head(left[r]) \in Period /\ Tail(left[r]) \in Seq(Period)
      /\ (Len(left[r]) = 1 <=> Tail(left[r]) = <<>>)
  BY <1>1, QueueTail
<1>3. 0 \in Day
  BY IngestAssumption DEF Day
<1> QED BY <1>1, <1>2, <1>3 DEF PC

LEMMA FailTypes ==
  ASSUME TypeOK, BusyInv, NEW r \in Runner, pc[r] # "idle", Fail(r)
  PROVE  TypeOK' /\ BusyInv'
<1>1. EndPeriod(r)
  BY DEF Fail
<1>2. failed' \in [Runner -> SUBSET Period]
  BY <1>1, EndPeriodTypes DEF Fail, TypeOK
<1>3. UNCHANGED <<source, tables, done, jobs, mode, asked, known>>
  BY DEF Fail, EndPeriod
<1> QED BY <1>1, <1>2, <1>3, EndPeriodTypes DEF TypeOK, source, tables

LEMMA PlacedType ==
  ASSUME TypeOK, BusyInv, NEW r \in Runner, pc[r] = "insert", todo[r] # <<>>
  PROVE  NextRow(r) \in Row /\ Placed(r) \subseteq Row
<1>1. Head(todo[r]) \in Figure /\ Head(left[r]) \in Period
  BY QueueTail DEF TypeOK, BusyInv
<1>2. NextRow(r) \in Row
  BY <1>1 DEF TypeOK, NextRow, Row, Figure
<1>3. \A o \in obs : [o EXCEPT !.retrieved = built[r]] \in Row
  BY DEF TypeOK, Row
<1> QED BY <1>2, <1>3 DEF Placed
LEMMA TypeStep ==
  ASSUME TypeOK, BusyInv, \A r \in Runner : pc[r] = "insert" => todo[r] # <<>>,
         [Next]_vars
  PROVE  TypeOK' /\ BusyInv'
<1> USE DEF TypeOK, BusyInv
<1>1. CASE UNCHANGED vars
  BY <1>1 DEF vars, source, tables, job, txn, report
<1>2. ASSUME NEW s \in Series, NEW p \in Period, NEW v \in Value, Publish(s, p, v)
      PROVE  TypeOK' /\ BusyInv'
  <2>1. figures' \subseteq Published /\ shown' \subseteq Shown /\ edits' \in 0..MaxEdits
    BY <1>2, IngestAssumption DEF Publish, Published, Shown
  <2> QED BY <1>2, <2>1 DEF Publish, tables, job, txn, report
<1>3. CASE Midnight
  <2>1. today' \in Day /\ shown' \subseteq Shown
    BY <1>3, IngestAssumption DEF Midnight, Published, Shown, Day
  <2> QED BY <1>3, <2>1 DEF Midnight, tables, job, txn, report
<1>4. CASE Register
  BY <1>4 DEF Register, source, job, txn, report
<1>5. ASSUME NEW r \in Runner, NEW m \in {"run", "backfill"},
             NEW a \in Period, NEW b \in Period, a <= b,
             Start(r, m, MonthRange(a, b))
      PROVE  TypeOK' /\ BusyInv'
  <2> DEFINE ps == MonthRange(a, b)
  <2>1. ps \in Seq(Period) /\ ps # <<>> /\ ToSet(ps) \subseteq Period
    BY <1>5, MonthRangeType, RangeOfSeq DEF ToSet
  <2>2. jobs' \in 0..MaxJobs /\ pc[r] = "idle" /\ Start(r, m, ps)
    BY <1>5, IngestAssumption DEF Start
  <2> HIDE DEF ps
  <2>3. /\ asked' \in [Runner -> SUBSET Period] /\ left' \in [Runner -> Seq(Period)]
        /\ pc' \in [Runner -> PC] /\ BusyInv'
    <3>1. CASE m = "backfill" /\ registered = {}
      BY <2>1, <2>2, <3>1 DEF Start
    <3>2. CASE ~(m = "backfill" /\ registered = {})
      <4>1. /\ asked' = [asked EXCEPT ![r] = ToSet(ps)]
            /\ left' = [left EXCEPT ![r] = ps]
            /\ pc' = [pc EXCEPT ![r] = "request"]
        BY <2>2, <3>2 DEF Start
      <4> QED BY <2>1, <4>1 DEF PC
    <3> QED BY <3>1, <3>2
  <2> QED BY <2>2, <2>3 DEF Start, source, tables, txn
<1>6. ASSUME NEW r \in Runner, Request(r)
      PROVE  TypeOK' /\ BusyInv'
  BY <1>6 DEF Request, PC, source, tables, job, report
<1>7. ASSUME NEW r \in Runner, NEW q \in Period, NEW g \in BOOLEAN, Receive(r, q, g)
      PROVE  TypeOK' /\ BusyInv'
  <2> DEFINE w == [period |-> Head(left[r]), served |-> q, fetched |-> stamp[r],
                   figures |-> ServedFor(q), garbled |-> g]
  <2>1. Head(left[r]) \in Period
    BY <1>7, QueueTail DEF Receive
  <2>2. w \in Raw
    BY <2>1 DEF Raw, ServedFor
  <2>3. raw' = [raw EXCEPT ![r] = raw[r] \cup {w}]
    BY <1>7 DEF Receive
  <2> HIDE DEF w
  <2> QED BY <1>7, <2>2, <2>3 DEF Receive, PC, source, tables, job, report
<1>8. ASSUME NEW r \in Runner, NEW w \in raw[r], NEW order \in SetToSeqs(w.figures),
             Parse(r, w, order)
      PROVE  TypeOK' /\ BusyInv'
  <2>1. w.figures \subseteq Figure
    BY DEF Raw
  <2>2. order \in Seq(Figure)
    BY <2>1, FiguresFinite, OrdersCover, SeqMonotonic
  <2> QED BY <1>8, <2>2 DEF Parse, PC, source, tables, job, report
<1>9. ASSUME NEW r \in Runner, Insert(r)
      PROVE  TypeOK' /\ BusyInv'
  <2>1. todo[r] # <<>> /\ Placed(r) \subseteq Row /\ Tail(todo[r]) \in Seq(Figure)
    BY <1>9, PlacedType, QueueTail DEF Insert
  <2> QED BY <1>9, <2>1 DEF Insert, PC, source, tables, job, report
<1>10. ASSUME NEW r \in Runner, pc[r] # "idle", Fail(r)
       PROVE  TypeOK' /\ BusyInv'
  BY <1>10, FailTypes
<1>11. ASSUME NEW r \in Runner, Commit(r) \/ CommitUnacknowledged(r)
       PROVE  TypeOK' /\ BusyInv'
  <2>1. EndPeriod(r) /\ pc[r] # "idle" /\ Apply(r)
    BY <1>11 DEF Commit, CommitUnacknowledged
  <2>2. done' \in [Runner -> SUBSET Period] /\ failed' \in [Runner -> SUBSET Period]
    <3>1. Head(left[r]) \in Period
      BY <2>1, EndPeriodTypes
    <3>2. CASE Commit(r)
      BY <3>1, <3>2 DEF Commit
    <3>3. CASE CommitUnacknowledged(r)
      BY <3>1, <3>3 DEF CommitUnacknowledged
    <3> QED BY <1>11, <3>2, <3>3
  <2>3. UNCHANGED <<source, registered, jobs, mode, asked, known>>
    BY <1>11, <2>1 DEF Commit, CommitUnacknowledged, Apply, EndPeriod
  <2>4. obs' \subseteq Row /\ raws' \subseteq Raw
    BY <2>1 DEF Apply
  <2> QED BY <2>1, <2>2, <2>3, <2>4, EndPeriodTypes DEF source
<1>12. ASSUME NEW r \in Runner, Crash(r)
       PROVE  TypeOK' /\ BusyInv'
  <2>1. 0 \in Day
    BY IngestAssumption DEF Day
  <2> QED BY <1>12, <2>1 DEF Crash, PC, source, tables
<1> QED
  BY <1>1, <1>2, <1>3, <1>4, <1>5, <1>6, <1>7, <1>8, <1>9, <1>10, <1>11, <1>12
  DEF Next, Step, FetchFails, ParseFails, DeadlockAbort, ConnectionLost
\* The types are kept by every step from a state of the invariant.
THEOREM TypeCorrectStep ==
  IInv /\ [Next]_vars => TypeOK' /\ BusyInv'
  BY TypeStep DEF IInv, InsertInv

-----------------------------------------------------------------------------
(***************************************************************************)
(* The inductive invariant, one lemma for each kind of step.               *)
(***************************************************************************)

LEMMA InitIInv == Init => IInv
<1> SUFFICES ASSUME Init PROVE IInv
  OBVIOUS
<1>1. TypeOK /\ BusyInv
  BY InitTypes
<1>2. ClockInv /\ PayloadInv
  BY <1>1 DEF Init, ClockInv, PayloadInv, TypeOK, Day
<1>3. \A r \in Runner : InsertInv(r) /\ DirtyInv(r)
  BY DEF Init, InsertInv, DirtyInv
<1>4. OneRowPerVintage /\ Backed /\ WholeBatch
  BY DEF Init, OneRowPerVintage, Backed, WholeBatch
<1> QED BY <1>1, <1>2, <1>3, <1>4 DEF IInv

\* The source, the calendar and the registry do not disturb a transaction.
LEMMA WorldStep ==
  ASSUME IInv, TypeOK', BusyInv',
         \/ \E s \in Series, p \in Period, v \in Value : Publish(s, p, v)
         \/ Midnight
         \/ Register
         \/ UNCHANGED vars
  PROVE  IInv'
<1>1. UNCHANGED <<obs, raws, pc, left, stamp, raw, dirty, todo>>
  BY DEF Publish, Midnight, Register, vars, source, tables, job, txn
<1>2. today \in Nat /\ today' \in Nat /\ today' >= today
  <2>1. today \in Nat
    BY IngestAssumption DEF IInv, TypeOK, Day
  <2>2. today' = today \/ today' = today + 1
    BY DEF Publish, Midnight, Register, vars, source
  <2> QED BY <2>1, <2>2
<1>3. ClockInv'
  <2>1. /\ \A r \in Runner : stamp[r] \in Nat
        /\ \A o \in obs : o.vintage \in Nat
    BY DEF IInv, TypeOK, Day, Row
  <2> QED BY <1>1, <1>2, <2>1 DEF IInv, ClockInv
<1>4. \A f, g \in figures' : CellOf(f, g.series, g.period) => f = g
  <2>1. CASE UNCHANGED figures
    BY <2>1 DEF IInv, PayloadInv
  <2>2. ASSUME NEW s \in Series, NEW p \in Period, NEW v \in Value, Publish(s, p, v)
        PROVE  \A f, g \in figures' : CellOf(f, g.series, g.period) => f = g
    BY <2>2 DEF Publish, IInv, PayloadInv, CellOf
  <2> QED BY <2>1, <2>2 DEF Midnight, Register, vars, source
<1>5. PayloadInv'
  BY <1>1, <1>4 DEF IInv, PayloadInv
<1>6. (\A r \in Runner : InsertInv(r) /\ DirtyInv(r))'
  BY <1>1 DEF IInv, InsertInv, DirtyInv, SameVintage
<1>7. (OneRowPerVintage /\ Backed /\ WholeBatch)'
  BY <1>1 DEF IInv, OneRowPerVintage, Backed, WholeBatch, SameVintage
<1> QED BY <1>3, <1>5, <1>6, <1>7 DEF IInv

\* A step that leaves process r without an open transaction, and the tables
\* and the other processes as they were: a start, a request, a rollback.
LEMMA ResetStep ==
  ASSUME IInv, TypeOK', BusyInv', NEW r \in Runner,
         UNCHANGED <<figures, today, obs, raws>>,
         raw'[r] = {}, dirty'[r] = {}, todo'[r] = <<>>,
         pc'[r] \in {"idle", "request", "await"},
         stamp'[r] <= today,
         \A h \in Runner \ {r} :
           /\ raw'[h] = raw[h] /\ dirty'[h] = dirty[h] /\ todo'[h] = todo[h]
           /\ pc'[h] = pc[h] /\ left'[h] = left[h] /\ stamp'[h] = stamp[h]
  PROVE  IInv'
<1>1. ClockInv'
  BY DEF IInv, ClockInv
<1>2. PayloadInv'
  <2>1. \A h \in Runner \ {r} :
       /\ raw'[h] = {} <=> pc'[h] \in {"idle", "request", "await"}
       /\ \A w, x \in raw'[h] : w = x
       /\ \A w \in raw'[h] :
            /\ w.period = Head(left'[h]) /\ w.fetched = stamp'[h]
            /\ \A f, g \in w.figures : f.series = g.series => f = g
            /\ pc'[h] # "parse" => ~w.garbled /\ w.served = w.period
    BY DEF IInv, PayloadInv
  <2> QED BY <2>1 DEF IInv, PayloadInv
<1>3. ASSUME NEW h \in Runner PROVE InsertInv(h)' /\ DirtyInv(h)'
  <2>1. CASE h = r
    BY <2>1 DEF InsertInv, DirtyInv
  <2>2. CASE h # r
    <3>1. InsertInv(h)'
      BY <2>2 DEF IInv, InsertInv
    <3>2. DirtyInv(h)'
      BY <2>2 DEF IInv, DirtyInv, SameVintage
    <3> QED BY <3>1, <3>2
  <2> QED BY <2>1, <2>2
<1>4. (OneRowPerVintage /\ Backed /\ WholeBatch)'
  BY DEF IInv, OneRowPerVintage, Backed, WholeBatch, SameVintage
<1> QED BY <1>1, <1>2, <1>3, <1>4 DEF IInv

LEMMA ReceiveStep ==
  ASSUME IInv, TypeOK', BusyInv', NEW r \in Runner, NEW q \in Period,
         NEW g \in BOOLEAN, Receive(r, q, g)
  PROVE  IInv'
<1> DEFINE w == [period |-> Head(left[r]), served |-> q, fetched |-> stamp[r],
                 figures |-> ServedFor(q), garbled |-> g]
<1>1. UNCHANGED <<figures, today, obs, raws, left, stamp, dirty, todo>>
  BY DEF Receive, source, tables, job
<1>2. /\ raw[r] = {} /\ pc[r] = "await"
      /\ raw' = [raw EXCEPT ![r] = {w}] /\ pc' = [pc EXCEPT ![r] = "parse"]
  BY DEF Receive, IInv, PayloadInv
<1>3. \A f, e \in w.figures : f.series = e.series => f = e
  BY DEF IInv, PayloadInv, ServedFor, CellOf, Figure
<1>4. ClockInv'
  BY <1>1 DEF IInv, ClockInv
<1>5. PayloadInv'
  <2>1. w.period = Head(left[r]) /\ w.fetched = stamp[r]
    OBVIOUS
  <2> HIDE DEF w
  <2> QED BY <1>1, <1>2, <1>3, <2>1 DEF IInv, PayloadInv, TypeOK
<1>6. ASSUME NEW h \in Runner PROVE InsertInv(h)' /\ DirtyInv(h)'
  <2> HIDE DEF w
  <2>1. CASE h = r
    <3>1. dirty[r] = {} /\ todo[r] = <<>>
      BY <1>2 DEF IInv, InsertInv
    <3> QED BY <1>1, <1>2, <2>1, <3>1 DEF InsertInv, DirtyInv, IInv, TypeOK
  <2>2. CASE h # r
    <3>1. raw'[h] = raw[h] /\ pc'[h] = pc[h]
      BY <1>2, <2>2 DEF IInv, TypeOK
    <3>2. InsertInv(h)'
      BY <1>1, <2>2, <3>1 DEF IInv, InsertInv
    <3>3. DirtyInv(h)'
      BY <1>1, <2>2, <3>1 DEF IInv, DirtyInv, SameVintage
    <3> QED BY <3>2, <3>3
  <2> QED BY <2>1, <2>2
<1>7. (OneRowPerVintage /\ Backed /\ WholeBatch)'
  BY <1>1 DEF IInv, OneRowPerVintage, Backed, WholeBatch, SameVintage
<1> QED BY <1>4, <1>5, <1>6, <1>7 DEF IInv
LEMMA ParseStep ==
  ASSUME IInv, TypeOK', BusyInv', NEW r \in Runner, NEW w \in raw[r],
         NEW order \in SetToSeqs(w.figures), Parse(r, w, order)
  PROVE  IInv'
<1>1. UNCHANGED <<figures, today, obs, raws, left, stamp, raw, dirty>>
  BY DEF Parse, source, tables, job
<1>2. /\ pc[r] = "parse" /\ dirty[r] = {} /\ ~w.garbled /\ w.served = w.period
      /\ todo'[r] = order
      /\ pc'[r] = IF w.figures = {} THEN "commit" ELSE "insert"
      /\ \A h \in Runner \ {r} : pc'[h] = pc[h] /\ todo'[h] = todo[h]
  <2>1. /\ pc[r] = "parse" /\ ~Refused(w)
        /\ todo' = [todo EXCEPT ![r] = order]
        /\ pc' = [pc EXCEPT ![r] = IF w.figures = {} THEN "commit" ELSE "insert"]
    BY DEF Parse
  <2>2. ~w.garbled /\ w.served = w.period
    BY <2>1 DEF Refused
  <2>3. dirty[r] = {}
    BY <2>1 DEF IInv, InsertInv
  <2>4. pc \in [Runner -> PC] /\ DOMAIN todo = Runner
    BY DEF IInv, TypeOK
  <2> QED BY <2>1, <2>2, <2>3, <2>4
<1>3. \A x \in raw[r] : x = w
  BY DEF IInv, PayloadInv
<1>4. /\ order \in Seq(w.figures) /\ Len(order) = Cardinality(w.figures)
      /\ \A i, j \in 1..Len(order) : order[i] = order[j] => i = j
      /\ \A x \in w.figures : \E i \in 1..Len(order) : order[i] = x
  <2>1. w.figures \subseteq Figure
    BY DEF IInv, TypeOK, Raw
  <2> QED BY <2>1, FiguresFinite, OrdersCover
<1>5. \A i \in 1..Len(order) : order[i] \in w.figures
  BY <1>4, ElementOfSeq
<1>6. w.figures = {} <=> order = <<>>
  BY <1>4, <1>5, EmptySeq
<1>7. ClockInv'
  BY <1>1 DEF IInv, ClockInv
<1>8. PayloadInv'
  BY <1>1, <1>2, <1>3 DEF IInv, PayloadInv
<1>9. ASSUME NEW h \in Runner PROVE InsertInv(h)' /\ DirtyInv(h)'
  <2>1. CASE h = r
    <3>1. \A i, j \in 1..Len(order) : order[i].series = order[j].series => i = j
      BY <1>4, <1>5 DEF IInv, PayloadInv
    <3>2. InsertInv(r)'
      BY <1>1, <1>2, <1>3, <1>4, <1>5, <1>6, <3>1 DEF InsertInv
    <3>3. DirtyInv(r)'
      BY <1>1, <1>2 DEF DirtyInv
    <3> QED BY <2>1, <3>2, <3>3
  <2>2. CASE h # r
    <3>1. InsertInv(h)'
      BY <1>1, <1>2, <2>2 DEF IInv, InsertInv
    <3>2. DirtyInv(h)'
      BY <1>1, <1>2, <2>2 DEF IInv, DirtyInv, SameVintage
    <3> QED BY <3>1, <3>2
  <2> QED BY <2>1, <2>2
<1>10. (OneRowPerVintage /\ Backed /\ WholeBatch)'
  BY <1>1 DEF IInv, OneRowPerVintage, Backed, WholeBatch, SameVintage
<1> QED BY <1>7, <1>8, <1>9, <1>10 DEF IInv

\* The row an INSERT places: it is one row, for the key of the next figure,
\* and it repeats the committed row of that key if there is one.
LEMMA PlacedFacts ==
  ASSUME IInv, NEW r \in Runner, Insert(r)
  PROVE  /\ Placed(r) # {}
         /\ \A d, e \in Placed(r) : d = e
         /\ \A d \in Placed(r) :
              /\ d.series = Head(todo[r]).series
              /\ d.period = Head(left[r]) /\ d.vintage = stamp[r]
              /\ \/ d.value = Head(todo[r]).value
                 \/ \E o \in obs : SameVintage(o, d) /\ o.value = d.value
              /\ \A o \in obs : SameVintage(o, d) => o.value = d.value
              /\ \A h \in Runner \ {r} : \A e \in dirty[h] : ~SameVintage(d, e)
<1> DEFINE n == NextRow(r)
           old == {o \in obs : SameVintage(o, n)}
<1>1. /\ n.series = Head(todo[r]).series /\ n.period = Head(left[r])
      /\ n.vintage = stamp[r] /\ n.value = Head(todo[r]).value
  BY DEF NextRow
<1>2. \A h \in Runner \ {r} : \A e \in dirty[h] : ~SameVintage(e, n)
  BY DEF Insert, WaitsFor
<1>3. \A o, e \in old : o = e
  BY DEF IInv, OneRowPerVintage, SameVintage
<1>4. Placed(r) = IF old = {} THEN {n} ELSE {[o EXCEPT !.retrieved = built[r]] : o \in old}
  BY DEF Placed
<1> HIDE DEF n
<1>5. CASE old = {}
  <2>1. Placed(r) = {n} /\ \A o \in obs : ~SameVintage(o, n)
    BY <1>4, <1>5
  <2> QED BY <1>1, <1>2, <2>1 DEF SameVintage
<1>6. CASE old # {}
  <2>1. PICK o \in obs : SameVintage(o, n) /\ old = {o}
    BY <1>3, <1>6
  <2> DEFINE d == [o EXCEPT !.retrieved = built[r]]
  <2>2. Placed(r) = {d}
    BY <1>4, <2>1
  <2>3. /\ d.series = o.series /\ d.period = o.period
        /\ d.vintage = o.vintage /\ d.value = o.value
    BY DEF IInv, TypeOK, Row
  <2> HIDE DEF d
  <2>4. SameVintage(o, d)
    BY <2>3 DEF SameVintage
  <2>5. \A e \in obs : SameVintage(e, d) => e.value = d.value
    BY <2>3, <2>4 DEF IInv, OneRowPerVintage, SameVintage
  <2> QED BY <1>1, <1>2, <2>1, <2>2, <2>3, <2>4, <2>5 DEF SameVintage
<1> QED BY <1>5, <1>6
LEMMA InsertStep ==
  ASSUME IInv, TypeOK', BusyInv', NEW r \in Runner, Insert(r)
  PROVE  IInv'
<1>1. /\ UNCHANGED <<figures, today, obs, raws, left, stamp, raw>>
      /\ pc[r] = "insert"
  BY DEF Insert, source, tables, job
<1>2. /\ dirty'[r] = dirty[r] \cup Placed(r)
      /\ todo'[r] = Tail(todo[r])
      /\ pc'[r] = IF Len(todo[r]) = 1 THEN "commit" ELSE "insert"
      /\ \A h \in Runner \ {r} :
           pc'[h] = pc[h] /\ todo'[h] = todo[h] /\ dirty'[h] = dirty[h]
  <2>1. pc \in [Runner -> PC] /\ DOMAIN todo = Runner /\ DOMAIN dirty = Runner
    BY DEF IInv, TypeOK
  <2> QED BY <2>1 DEF Insert
<1>3. todo[r] \in Seq(Figure) /\ todo[r] # <<>>
  BY <1>1 DEF IInv, InsertInv, TypeOK
<1>4. /\ Len(todo[r]) \in Nat \ {0} /\ Head(todo[r]) = todo[r][1]
      /\ Len(todo'[r]) = Len(todo[r]) - 1
      /\ Len(todo[r]) = 1 <=> todo'[r] = <<>>
      /\ \A i \in 1..Len(todo'[r]) : todo'[r][i] = todo[r][i + 1]
  BY <1>2, <1>3, QueueTail
<1>5. ClockInv'
  BY <1>1 DEF IInv, ClockInv
<1>6. PayloadInv'
  BY <1>1, <1>2 DEF IInv, PayloadInv
<1>7. InsertInv(r)'
  <2>1. pc'[r] = "insert" <=> todo'[r] # <<>>
    BY <1>2, <1>4
  <2>2. pc'[r] \in {"insert", "commit"}
    BY <1>2
  <2>3. \A i, j \in 1..Len(todo'[r]) :
          todo'[r][i].series = todo'[r][j].series => i = j
    <3> SUFFICES ASSUME NEW i \in 1..Len(todo'[r]), NEW j \in 1..Len(todo'[r]),
                        todo'[r][i].series = todo'[r][j].series
                 PROVE  i = j
      OBVIOUS
    <3>1. i + 1 \in 1..Len(todo[r]) /\ j + 1 \in 1..Len(todo[r])
      BY <1>4
    <3>2. todo[r][i + 1].series = todo[r][j + 1].series
      BY <1>4
    <3>3. i + 1 = j + 1
      BY <3>1, <3>2 DEF IInv, InsertInv
    <3> QED BY <3>3
  <2>4. ASSUME NEW i \in 1..Len(todo'[r])
        PROVE  /\ \A w \in raw[r] : todo'[r][i] \in w.figures
               /\ \A d \in dirty'[r] : d.series # todo'[r][i].series
    <3>1. i + 1 \in 1..Len(todo[r]) /\ 1 \in 1..Len(todo[r]) /\ i + 1 # 1
      BY <1>4
    <3>2. todo'[r][i] = todo[r][i + 1]
      BY <1>4
    <3>3. todo[r][i + 1].series # todo[r][1].series
      BY <3>1 DEF IInv, InsertInv
    <3>4. \A d \in Placed(r) : d.series = todo[r][1].series
      BY <1>4, PlacedFacts
    <3>5. /\ \A w \in raw[r] : todo[r][i + 1] \in w.figures
          /\ \A d \in dirty[r] : d.series # todo[r][i + 1].series
      BY <3>1 DEF IInv, InsertInv
    <3> QED BY <1>2, <3>2, <3>3, <3>4, <3>5
  <2>5. ASSUME NEW w \in raw[r], NEW f \in w.figures
        PROVE  \/ \E d \in dirty'[r] : d.series = f.series
               \/ \E i \in 1..Len(todo'[r]) : todo'[r][i] = f
    <3>1. CASE \E d \in dirty[r] : d.series = f.series
      BY <1>2, <3>1
    <3>2. ASSUME NEW i \in 1..Len(todo[r]), todo[r][i] = f
          PROVE  \/ \E d \in dirty'[r] : d.series = f.series
                 \/ \E j \in 1..Len(todo'[r]) : todo'[r][j] = f
      <4>1. CASE i = 1
        <5>1. PICK d \in Placed(r) : d.series = todo[r][1].series
          BY <1>4, PlacedFacts
        <5> QED BY <1>2, <3>2, <4>1, <5>1
      <4>2. CASE i # 1
        <5>1. i - 1 \in 1..Len(todo'[r]) /\ (i - 1) + 1 = i
          BY <1>4, <4>2
        <5>2. todo'[r][i - 1] = f
          BY <1>4, <3>2, <5>1
        <5> QED BY <5>1, <5>2
      <4> QED BY <4>1, <4>2
    <3> QED BY <1>1, <3>1, <3>2 DEF IInv, InsertInv
  <2> QED BY <1>1, <2>1, <2>2, <2>3, <2>4, <2>5 DEF InsertInv
<1>8. DirtyInv(r)'
  <2>1. ASSUME NEW d \in Placed(r)
        PROVE  /\ d.period = Head(left[r]) /\ d.vintage = stamp[r]
               /\ \/ \E w \in raw[r] : [series |-> d.series, value |-> d.value] \in w.figures
                  \/ \E o \in obs : SameVintage(o, d) /\ o.value = d.value
               /\ \A o \in obs : SameVintage(o, d) => o.value = d.value
               /\ \A e \in dirty[r] : ~SameVintage(d, e) /\ ~SameVintage(e, d)
               /\ \A h \in Runner \ {r} : \A e \in dirty[h] : ~SameVintage(d, e)
    <3>1. PICK w \in raw[r] : todo[r][1] \in w.figures
      BY <1>1, <1>4 DEF IInv, PayloadInv, InsertInv
    <3>2. todo[r][1] \in Figure
      BY <1>3, <1>4, ElementOfSeq
    <3>3. d.value = todo[r][1].value =>
            [series |-> d.series, value |-> d.value] = todo[r][1]
      BY <1>4, <3>2, PlacedFacts DEF Figure
    <3>4. \A e \in dirty[r] : e.series # d.series
      BY <1>4, PlacedFacts DEF IInv, InsertInv
    <3>5. /\ d.period = Head(left[r]) /\ d.vintage = stamp[r]
          /\ \/ d.value = todo[r][1].value
             \/ \E o \in obs : SameVintage(o, d) /\ o.value = d.value
          /\ \A o \in obs : SameVintage(o, d) => o.value = d.value
          /\ \A h \in Runner \ {r} : \A e \in dirty[h] : ~SameVintage(d, e)
      BY <1>4, PlacedFacts
    <3> QED BY <3>1, <3>3, <3>4, <3>5 DEF SameVintage
  <2>2. \A d, e \in Placed(r) : d = e
    BY PlacedFacts
  <2>3. \A h \in Runner \ {r} : dirty'[h] = dirty[h]
    BY <1>2
  <2>4. ASSUME NEW d \in dirty[r]
        PROVE  /\ d.period = Head(left[r]) /\ d.vintage = stamp[r]
               /\ \/ \E w \in raw[r] : [series |-> d.series, value |-> d.value] \in w.figures
                  \/ \E o \in obs : SameVintage(o, d) /\ o.value = d.value
               /\ \A o \in obs : SameVintage(o, d) => o.value = d.value
               /\ \A e \in dirty[r] : SameVintage(d, e) => d = e
               /\ \A h \in Runner \ {r} : \A e \in dirty[h] : ~SameVintage(d, e)
    BY DEF IInv, DirtyInv
  <2>5. ASSUME NEW d \in dirty'[r], NEW e \in dirty'[r], SameVintage(d, e)
        PROVE  d = e
    BY <1>2, <2>1, <2>2, <2>4, <2>5
  <2>6. UNCHANGED <<obs, left, stamp, raw>>
    BY <1>1
  <2> QED BY <1>2, <2>1, <2>3, <2>4, <2>5, <2>6 DEF DirtyInv, SameVintage
<1>9. ASSUME NEW h \in Runner \ {r} PROVE InsertInv(h)' /\ DirtyInv(h)'
  <2>1. InsertInv(h)'
    BY <1>1, <1>2 DEF IInv, InsertInv
  <2>2. \A e \in dirty[h], d \in Placed(r) : ~SameVintage(e, d)
    BY PlacedFacts DEF SameVintage
  <2>3. DirtyInv(h)'
    BY <1>1, <1>2, <2>2 DEF IInv, DirtyInv, SameVintage
  <2> QED BY <2>1, <2>3
<1>10. (OneRowPerVintage /\ Backed /\ WholeBatch)'
  BY <1>1 DEF IInv, OneRowPerVintage, Backed, WholeBatch, SameVintage
<1> QED BY <1>5, <1>6, <1>7, <1>8, <1>9, <1>10 DEF IInv
\* A commit: the rows of r and its payload join the tables.  The rows it
\* replaces are the ones it repeats, so no committed figure changes.
LEMMA ApplyKeeps ==
  ASSUME IInv, NEW r \in Runner, Apply(r)
  PROVE  \A o \in obs : \E e \in obs' : SameVintage(e, o) /\ e.value = o.value
<1> SUFFICES ASSUME NEW o \in obs
             PROVE  \E e \in obs' : SameVintage(e, o) /\ e.value = o.value
  OBVIOUS
<1>1. CASE \A d \in dirty[r] : ~SameVintage(o, d)
  BY <1>1 DEF Apply, SameVintage
<1>2. ASSUME NEW d \in dirty[r], SameVintage(o, d)
      PROVE  \E e \in obs' : SameVintage(e, o) /\ e.value = o.value
  <2>1. DirtyInv(r) /\ d \in obs'
    BY <1>2 DEF Apply, IInv
  <2>2. o.value = d.value /\ SameVintage(d, o)
    BY <1>2, <2>1 DEF DirtyInv, SameVintage
  <2> QED BY <2>1, <2>2
<1> QED BY <1>1, <1>2

LEMMA CommitStep ==
  ASSUME IInv, TypeOK', BusyInv', NEW r \in Runner,
         Commit(r) \/ CommitUnacknowledged(r)
  PROVE  IInv'
<1>1. /\ pc[r] = "commit" /\ Apply(r) /\ EndPeriod(r)
      /\ UNCHANGED <<figures, today>>
  BY DEF Commit, CommitUnacknowledged, source
<1>2. /\ obs' = {o \in obs : \A d \in dirty[r] : ~SameVintage(o, d)} \cup dirty[r]
      /\ raws' = raws \cup raw[r]
  BY <1>1 DEF Apply
<1>3. /\ raw'[r] = {} /\ dirty'[r] = {} /\ todo'[r] = <<>> /\ stamp'[r] = 0
      /\ pc'[r] \in {"idle", "request"}
      /\ \A h \in Runner \ {r} :
           /\ raw'[h] = raw[h] /\ dirty'[h] = dirty[h] /\ todo'[h] = todo[h]
           /\ pc'[h] = pc[h] /\ left'[h] = left[h] /\ stamp'[h] = stamp[h]
  BY <1>1 DEF EndPeriod, IInv, TypeOK
<1>4. \A o \in obs : \E e \in obs' : SameVintage(e, o) /\ e.value = o.value
  BY <1>1, ApplyKeeps
<1>5. ClockInv'
  <2>1. \A d \in dirty[r] : d.vintage <= today
    BY DEF IInv, DirtyInv, ClockInv
  <2>2. \A o \in obs' : o.vintage <= today
    BY <1>2, <2>1 DEF IInv, ClockInv
  <2>3. today \in Nat
    BY IngestAssumption DEF IInv, TypeOK, Day
  <2> QED BY <1>1, <1>3, <2>2, <2>3 DEF IInv, ClockInv
<1>6. PayloadInv'
  <2>1. \A h \in Runner \ {r} :
       /\ raw'[h] = {} <=> pc'[h] \in {"idle", "request", "await"}
       /\ \A w, x \in raw'[h] : w = x
       /\ \A w \in raw'[h] :
            /\ w.period = Head(left'[h]) /\ w.fetched = stamp'[h]
            /\ \A f, g \in w.figures : f.series = g.series => f = g
            /\ pc'[h] # "parse" => ~w.garbled /\ w.served = w.period
    BY <1>3 DEF IInv, PayloadInv
  <2> QED BY <1>1, <1>3, <2>1 DEF IInv, PayloadInv
<1>7. InsertInv(r)' /\ DirtyInv(r)'
  BY <1>3 DEF InsertInv, DirtyInv
<1>8. ASSUME NEW h \in Runner \ {r} PROVE InsertInv(h)' /\ DirtyInv(h)'
  <2>1. InsertInv(h)'
    BY <1>3 DEF IInv, InsertInv
  <2>2. ASSUME NEW d \in dirty[h]
        PROVE  /\ \/ \E w \in raw[h] : [series |-> d.series, value |-> d.value] \in w.figures
                  \/ \E o \in obs' : SameVintage(o, d) /\ o.value = d.value
               /\ \A o \in obs' : SameVintage(o, d) => o.value = d.value
    <3>1. DirtyInv(h)
      BY DEF IInv
    <3>2. \A e \in dirty[r] : ~SameVintage(e, d)
      BY <3>1 DEF DirtyInv, SameVintage
    <3>3. \A o \in obs' : SameVintage(o, d) => o.value = d.value
      BY <1>2, <3>1, <3>2 DEF DirtyInv
    <3>4. ASSUME NEW o \in obs, SameVintage(o, d), o.value = d.value
          PROVE  \E e \in obs' : SameVintage(e, d) /\ e.value = d.value
      <4>1. PICK e \in obs' : SameVintage(e, o) /\ e.value = o.value
        BY <1>4
      <4>2. SameVintage(e, d)
        BY <3>4, <4>1 DEF SameVintage
      <4> QED BY <3>4, <4>1, <4>2
    <3> QED BY <3>1, <3>3, <3>4 DEF DirtyInv
  <2>3. ASSUME NEW d \in dirty[h]
        PROVE  /\ d.period = Head(left[h]) /\ d.vintage = stamp[h]
               /\ \A e \in dirty[h] : SameVintage(d, e) => d = e
               /\ \A k \in Runner \ {h} : \A e \in dirty'[k] : ~SameVintage(d, e)
    BY <1>3 DEF IInv, DirtyInv
  <2>4. DirtyInv(h)'
    BY <1>3, <2>2, <2>3 DEF DirtyInv, SameVintage
  <2> QED BY <2>1, <2>4
<1>9. OneRowPerVintage'
  <2>1. \A d, e \in dirty[r] : SameVintage(d, e) => d = e
    BY DEF IInv, DirtyInv
  <2> QED BY <1>2, <2>1 DEF IInv, OneRowPerVintage, SameVintage
<1>10. Backed'
  <2>1. ASSUME NEW o \in obs
        PROVE  \E w \in raws : /\ w.period = o.period /\ w.fetched = o.vintage
                               /\ [series |-> o.series, value |-> o.value] \in w.figures
    BY DEF IInv, Backed
  <2>2. ASSUME NEW d \in dirty[r]
        PROVE  \E w \in raws' : /\ w.period = d.period /\ w.fetched = d.vintage
                                /\ [series |-> d.series, value |-> d.value] \in w.figures
    <3>1. CASE \E w \in raw[r] : [series |-> d.series, value |-> d.value] \in w.figures
      <4>1. PICK w \in raw[r] : [series |-> d.series, value |-> d.value] \in w.figures
        BY <3>1
      <4>2. w.period = d.period /\ w.fetched = d.vintage
        <5>1. DirtyInv(r) /\ w.period = Head(left[r]) /\ w.fetched = stamp[r]
          BY DEF IInv, PayloadInv
        <5> QED BY <5>1 DEF DirtyInv
      <4> QED BY <1>2, <4>1, <4>2
    <3>2. ASSUME NEW o \in obs, SameVintage(o, d), o.value = d.value
          PROVE  \E w \in raws' : /\ w.period = d.period /\ w.fetched = d.vintage
                                  /\ [series |-> d.series, value |-> d.value] \in w.figures
      BY <1>2, <2>1, <3>2 DEF SameVintage
    <3> QED BY <3>1, <3>2 DEF IInv, DirtyInv
  <2> QED BY <1>2, <2>1, <2>2 DEF Backed
<1>11. WholeBatch'
  <2>1. ASSUME NEW w \in raws
        PROVE  /\ ~w.garbled /\ w.served = w.period
               /\ \A f \in w.figures : \E o \in obs' :
                    o.series = f.series /\ o.period = w.period /\ o.vintage = w.fetched
    BY <1>4 DEF IInv, WholeBatch, SameVintage
  <2>2. ASSUME NEW w \in raw[r]
        PROVE  /\ ~w.garbled /\ w.served = w.period
               /\ \A f \in w.figures : \E o \in obs' :
                    o.series = f.series /\ o.period = w.period /\ o.vintage = w.fetched
    <3>1. ~w.garbled /\ w.served = w.period
      BY <1>1 DEF IInv, PayloadInv
    <3>2. ASSUME NEW f \in w.figures PROVE \E d \in dirty[r] : d.series = f.series
      <4>1. todo[r] = <<>>
        BY <1>1 DEF IInv, InsertInv
      <4>2. 1..Len(todo[r]) = {}
        BY <4>1
      <4> QED BY <1>1, <4>2 DEF IInv, InsertInv
    <3>3. \A d \in dirty[r] : d.period = w.period /\ d.vintage = w.fetched
      <4>1. DirtyInv(r) /\ w.period = Head(left[r]) /\ w.fetched = stamp[r]
        BY DEF IInv, PayloadInv
      <4> QED BY <4>1 DEF DirtyInv
    <3> QED BY <1>2, <3>1, <3>2, <3>3
  <2> QED BY <1>2, <2>1, <2>2 DEF WholeBatch
<1> QED BY <1>5, <1>6, <1>7, <1>8, <1>9, <1>10, <1>11 DEF IInv
\* Starts, requests, rollbacks and crashes leave no open transaction behind.
LEMMA QuietStep ==
  ASSUME IInv, TypeOK', BusyInv', NEW r \in Runner,
         \/ \E m \in {"run", "backfill"}, a, b \in Period : Start(r, m, MonthRange(a, b))
         \/ Request(r)
         \/ Fail(r)
         \/ Crash(r)
  PROVE  IInv'
<1>1. /\ pc \in [Runner -> PC] /\ DOMAIN todo = Runner /\ DOMAIN dirty = Runner
      /\ DOMAIN raw = Runner /\ DOMAIN stamp = Runner /\ DOMAIN left = Runner
      /\ today \in Nat
  BY IngestAssumption DEF IInv, TypeOK, Day
<1>2. CASE \E m \in {"run", "backfill"}, a, b \in Period : Start(r, m, MonthRange(a, b))
  <2>1. PICK m \in {"run", "backfill"}, a \in Period, b \in Period :
          Start(r, m, MonthRange(a, b))
    BY <1>2
  <2>2. /\ UNCHANGED <<figures, today, obs, raws, raw, dirty, todo, stamp>>
        /\ pc[r] = "idle"
    BY <2>1 DEF Start, source, tables, txn
  <2>3. raw[r] = {} /\ dirty[r] = {} /\ todo[r] = <<>> /\ stamp[r] <= today
    BY <2>2 DEF IInv, PayloadInv, InsertInv, ClockInv
  <2>4. pc'[r] \in {"idle", "request"}
        /\ \A h \in Runner \ {r} : pc'[h] = pc[h] /\ left'[h] = left[h]
    BY <1>1, <2>1, <2>2 DEF Start
  <2> QED BY <2>2, <2>3, <2>4, ResetStep
<1>3. CASE Request(r)
  <2>1. /\ UNCHANGED <<figures, today, obs, raws, raw, dirty, todo, left>>
        /\ pc[r] = "request" /\ stamp' = [stamp EXCEPT ![r] = today]
        /\ pc' = [pc EXCEPT ![r] = "await"]
    BY <1>3 DEF Request, source, tables, job
  <2>2. raw[r] = {} /\ dirty[r] = {} /\ todo[r] = <<>>
    BY <2>1 DEF IInv, PayloadInv, InsertInv
  <2> QED BY <1>1, <2>1, <2>2, ResetStep
<1>4. CASE Fail(r)
  <2>1. /\ UNCHANGED <<figures, today, obs, raws>>
        /\ raw'[r] = {} /\ dirty'[r] = {} /\ todo'[r] = <<>> /\ stamp'[r] = 0
        /\ pc'[r] \in {"idle", "request"}
        /\ \A h \in Runner \ {r} :
             /\ raw'[h] = raw[h] /\ dirty'[h] = dirty[h] /\ todo'[h] = todo[h]
             /\ pc'[h] = pc[h] /\ left'[h] = left[h] /\ stamp'[h] = stamp[h]
    BY <1>1, <1>4 DEF Fail, EndPeriod, source, tables
  <2> QED BY <1>1, <2>1, ResetStep
<1>5. CASE Crash(r)
  <2>1. /\ UNCHANGED <<figures, today, obs, raws>>
        /\ raw'[r] = {} /\ dirty'[r] = {} /\ todo'[r] = <<>> /\ stamp'[r] = 0
        /\ pc'[r] = "idle"
        /\ \A h \in Runner \ {r} :
             /\ raw'[h] = raw[h] /\ dirty'[h] = dirty[h] /\ todo'[h] = todo[h]
             /\ pc'[h] = pc[h] /\ left'[h] = left[h] /\ stamp'[h] = stamp[h]
    BY <1>1, <1>5 DEF Crash, source, tables
  <2> QED BY <1>1, <2>1, ResetStep
<1> QED BY <1>2, <1>3, <1>4, <1>5

LEMMA NextIInv == IInv /\ [Next]_vars => IInv'
<1> SUFFICES ASSUME IInv, [Next]_vars PROVE IInv'
  OBVIOUS
<1>1. TypeOK' /\ BusyInv'
  BY TypeCorrectStep
<1>2. CASE \/ \E s \in Series, p \in Period, v \in Value : Publish(s, p, v)
           \/ Midnight
           \/ Register
           \/ UNCHANGED vars
  BY <1>1, <1>2, WorldStep
<1>3. ASSUME NEW r \in Runner, NEW q \in Period, NEW g \in BOOLEAN, Receive(r, q, g)
      PROVE  IInv'
  BY <1>1, <1>3, ReceiveStep
<1>4. ASSUME NEW r \in Runner, NEW w \in raw[r], NEW order \in SetToSeqs(w.figures),
             Parse(r, w, order)
      PROVE  IInv'
  BY <1>1, <1>4, ParseStep
<1>5. ASSUME NEW r \in Runner, Insert(r) PROVE IInv'
  BY <1>1, <1>5, InsertStep
<1>6. ASSUME NEW r \in Runner, Commit(r) \/ CommitUnacknowledged(r) PROVE IInv'
  BY <1>1, <1>6, CommitStep
<1>7. ASSUME NEW r \in Runner,
             \/ \E m \in {"run", "backfill"}, a, b \in Period : Start(r, m, MonthRange(a, b))
             \/ Request(r) \/ Fail(r) \/ Crash(r)
      PROVE  IInv'
  BY <1>1, <1>7, QuietStep
<1> QED
  BY <1>2, <1>3, <1>4, <1>5, <1>6, <1>7
  DEF Next, Step, FetchFails, ParseFails, DeadlockAbort, ConnectionLost

\* Every reachable state satisfies the inductive invariant.
THEOREM Invariant == Spec => []IInv
  BY InitIInv, NextIInv, PTL DEF Spec

\* Every variable keeps its type, whatever the interleaving of the jobs.
THEOREM TypeCorrect == Spec => []TypeOK
<1>1. IInv => TypeOK
  BY DEF IInv
<1> QED BY <1>1, Invariant, PTL

\* However many jobs write the same month at once, there is one row for each
\* series, period and vintage (the conflict clause of upsert).
THEOREM UniqueVintages == Spec => []OneRowPerVintage
<1>1. IInv => OneRowPerVintage
  BY DEF IInv
<1> QED BY <1>1, Invariant, PTL

\* Every figure in the database is backed by a stored payload of its vintage
\* that holds it (store_raw and upsert in one transaction).
THEOREM Evidence == Spec => []Backed
<1>1. IInv => Backed
  BY DEF IInv
<1> QED BY <1>1, Invariant, PTL

\* No partial batch is ever visible: a stored payload parsed, was for the
\* month asked, and all its series have a row of its vintage.
THEOREM NoPartialBatch == Spec => []WholeBatch
<1>1. IInv => WholeBatch
  BY DEF IInv
<1> QED BY <1>1, Invariant, PTL

-----------------------------------------------------------------------------
(***************************************************************************)
(* The jobs implement the point-in-time store of module Vintages.          *)
(***************************************************************************)

\* The entry that a row of observations stands for.
EntryOf(o) ==
  [series |-> o.series, period |-> o.period, vintage |-> o.vintage,
   value |-> o.value]

LEMMA EntriesAre == Entries = {EntryOf(o) : o \in obs}
  BY DEF Entries, EntryOf

\* The first state is an empty store.
LEMMA InitImplements == Init => V!Init
  BY DEF Init, V!Init, Entries

\* A commit adds entries of its month and day and changes none.
LEMMA CommitImplements ==
  ASSUME IInv, IInv', NEW r \in Runner, Commit(r) \/ CommitUnacknowledged(r)
  PROVE  [V!Next]_V!vars
<1>1. /\ pc[r] = "commit" /\ Apply(r) /\ UNCHANGED today
  BY DEF Commit, CommitUnacknowledged, source
<1>2. /\ obs' = {o \in obs : \A d \in dirty[r] : ~SameVintage(o, d)} \cup dirty[r]
      /\ DirtyInv(r)
  BY <1>1 DEF Apply, IInv
<1>3. Entries' = {EntryOf(o) : o \in obs'}
  BY DEF Entries, EntryOf
<1>4. Entries \subseteq Entries'
  <2> SUFFICES ASSUME NEW o \in obs PROVE EntryOf(o) \in Entries'
    BY EntriesAre
  <2>1. PICK e \in obs' : SameVintage(e, o) /\ e.value = o.value
    BY <1>1, ApplyKeeps
  <2>2. EntryOf(e) = EntryOf(o)
    BY <2>1 DEF EntryOf, SameVintage
  <2> QED BY <1>3, <2>2
<1>5. Entries' \subseteq V!Entry
  <2>1. \A o \in obs' : EntryOf(o) \in V!Entry
    BY IngestAssumption DEF IInv, TypeOK, Row, Day, V!Entry, EntryOf
  <2> QED BY <1>3, <2>1
<1>6. CASE dirty[r] = {}
  <2>1. obs' = obs
    BY <1>2, <1>6
  <2> QED BY <1>1, <2>1 DEF V!vars, Entries
<1>7. ASSUME NEW c \in dirty[r] PROVE V!Record
  <2>1. c \in Row /\ c.period \in Period /\ c.vintage \in 0..today
    <3>1. c \in Row
      BY DEF IInv, TypeOK
    <3>2. c.vintage = stamp[r] /\ stamp[r] <= today /\ stamp[r] \in Nat /\ today \in Nat
      <4>1. c.vintage = stamp[r]
        BY <1>2 DEF DirtyInv
      <4>2. stamp[r] <= today /\ stamp[r] \in Nat /\ today \in Nat
        BY IngestAssumption DEF IInv, ClockInv, TypeOK, Day
      <4> QED BY <4>1, <4>2
    <3> QED BY <3>1, <3>2 DEF Row
  <2>2. \A d \in dirty[r] : d.period = c.period /\ d.vintage = c.vintage
    <3>1. \A d \in dirty[r] : d.period = Head(left[r]) /\ d.vintage = stamp[r]
      BY <1>2 DEF DirtyInv
    <3> QED BY <3>1
  <2>3. \A e \in Entries' \ Entries : e.period = c.period /\ e.vintage = c.vintage
    <3> SUFFICES ASSUME NEW o \in obs', EntryOf(o) \notin Entries
                 PROVE  o.period = c.period /\ o.vintage = c.vintage
      BY <1>3 DEF EntryOf
    <3>1. o \in dirty[r]
      BY <1>2, EntriesAre
    <3> QED BY <2>2, <3>1
  <2>4. V!Distinct(Entries')
    <3>1. \A o, e \in obs' : V!SameVintage(EntryOf(o), EntryOf(e)) => o = e
      BY DEF IInv, OneRowPerVintage, SameVintage, V!SameVintage, EntryOf
    <3> QED BY <1>3, <3>1 DEF V!Distinct
  <2> QED BY <1>1, <1>4, <1>5, <2>1, <2>3, <2>4 DEF V!Record
<1> QED BY <1>6, <1>7 DEF V!Next

\* Every step of the jobs is a step of the store or leaves it as it is.
LEMMA StepImplements == IInv /\ IInv' /\ [Next]_vars => [V!Next]_V!vars
<1> SUFFICES ASSUME IInv, IInv', [Next]_vars PROVE [V!Next]_V!vars
  OBVIOUS
<1>1. CASE Midnight
  BY <1>1 DEF Midnight, tables, V!Next, V!NextDay, Entries
<1>2. ASSUME NEW r \in Runner, Commit(r) \/ CommitUnacknowledged(r)
      PROVE  [V!Next]_V!vars
  BY <1>2, CommitImplements
<1>3. CASE UNCHANGED <<obs, today>>
  BY <1>3 DEF V!vars, Entries
<1> QED
  BY ZenonT(40), <1>1, <1>2, <1>3
  DEF Next, Step, Publish, Register, Start, Request, Receive, Parse, Insert, Crash,
      FetchFails, ParseFails, DeadlockAbort, ConnectionLost, Fail, vars, source, tables

\* The ingestion jobs implement the point-in-time store: a recorded figure is
\* never changed, replaced or removed, whatever the jobs and their failures.
THEOREM Implements == Spec => PointInTime
<1>1. Init => V!Init
  BY InitImplements
<1>2. IInv /\ IInv' /\ [Next]_vars => [V!Next]_V!vars
  BY StepImplements
<1> QED BY <1>1, <1>2, Invariant, PTL DEF Spec, PointInTime, V!Spec
-----------------------------------------------------------------------------
(***************************************************************************)
(* What is recorded was seen at the source.                                *)
(***************************************************************************)

\* The source served figure f of month p on day v or later.
ServedSince(f, p, v) ==
  \E x \in shown : CellOf(x, f.series, p) /\ x.value = f.value /\ v <= x.day

\* What the source serves now it has served today; what a transaction received
\* was served since its request was sent; and so was what is recorded.
SeenInv ==
  /\ \A f \in figures : ServedSince(f, f.period, today)
  /\ \A r \in Runner : \A w \in raw[r] : \A f \in w.figures :
       ServedSince(f, w.served, w.fetched)
  /\ SeenAtTheSource

\* Nothing that was shown is forgotten.
LEMMA ShownGrows ==
  ASSUME [Next]_vars
  PROVE  shown \subseteq shown'
  BY ZenonT(40) DEF Next, Step, Publish, Midnight, Register, Start, Request, Receive, Parse,
         Insert, Crash, FetchFails, ParseFails, DeadlockAbort, ConnectionLost, Commit,
         CommitUnacknowledged, Fail, vars, source

LEMMA ServedStays ==
  ASSUME shown \subseteq shown', NEW f, NEW p, NEW v, ServedSince(f, p, v)
  PROVE  ServedSince(f, p, v)'
  BY DEF ServedSince, CellOf

\* A publication and a midnight show what the source serves from then on.
LEMMA ShowsToday ==
  ASSUME IInv, SeenInv, [Next]_vars
  PROVE  \A f \in figures' : ServedSince(f, f.period, today)'
<1> USE DEF ServedSince, CellOf
<1>1. ASSUME NEW s \in Series, NEW p \in Period, NEW v \in Value, Publish(s, p, v)
      PROVE  \A f \in figures' : ServedSince(f, f.period, today)'
  <2> DEFINE new == [series |-> s, period |-> p, value |-> v]
             seen == [series |-> s, period |-> p, value |-> v, day |-> today]
  <2>1. /\ figures' \subseteq figures \cup {new} /\ shown' = shown \cup {seen}
        /\ today' = today
    BY <1>1 DEF Publish
  <2>2. /\ CellOf(seen, new.series, new.period) /\ seen.value = new.value
        /\ today <= seen.day
    BY IngestAssumption DEF IInv, TypeOK, Day
  <2>3. ServedSince(new, new.period, today)'
    BY <2>1, <2>2
  <2>4. \A f \in figures : ServedSince(f, f.period, today)'
    BY <2>1 DEF SeenInv
  <2> QED BY <2>1, <2>3, <2>4
<1>2. CASE Midnight
  <2> SUFFICES ASSUME NEW f \in figures PROVE ServedSince(f, f.period, today)'
    BY <1>2 DEF Midnight
  <2> DEFINE seen == [series |-> f.series, period |-> f.period, value |-> f.value,
                      day |-> today + 1]
  <2>1. seen \in shown' /\ today' = today + 1 /\ today' <= seen.day
    BY <1>2, IngestAssumption DEF Midnight, IInv, TypeOK, Day
  <2> QED BY <2>1
<1>3. CASE UNCHANGED source
  BY <1>3 DEF source, SeenInv
<1> QED
  BY <1>1, <1>2, <1>3
  DEF Next, Step, Register, Start, Request, Receive, Parse, Insert, Crash, FetchFails,
      ParseFails, DeadlockAbort, ConnectionLost, Commit, CommitUnacknowledged, Fail, vars

\* Only an answer brings figures into a transaction.
LEMMA ReceivedWasShown ==
  ASSUME IInv, SeenInv, [Next]_vars, NEW r \in Runner, NEW w \in raw'[r],
         NEW f \in w.figures
  PROVE  ServedSince(f, w.served, w.fetched)'
<1>1. CASE w \in raw[r]
  BY <1>1, ShownGrows, ServedStays DEF SeenInv
<1>2. CASE \E q \in Period, g \in BOOLEAN : Receive(r, q, g)
  <2>1. PICK q \in Period, g \in BOOLEAN : Receive(r, q, g)
    BY <1>2
  <2>2. /\ raw'[r] \subseteq raw[r] \cup
             {[period |-> Head(left[r]), served |-> q, fetched |-> stamp[r],
               figures |-> ServedFor(q), garbled |-> g]}
        /\ UNCHANGED <<today, figures>>
    BY <2>1 DEF Receive, source, IInv, TypeOK
  <2>3. CASE w \notin raw[r]
    <3>1. w.served = q /\ w.fetched = stamp[r] /\ w.figures = ServedFor(q)
      BY <2>2, <2>3
    <3>2. [series |-> f.series, period |-> q, value |-> f.value] \in figures'
      BY <2>2, <3>1 DEF ServedFor
    <3>3. stamp[r] <= today /\ stamp[r] \in Nat /\ today \in Nat
      BY IngestAssumption DEF IInv, ClockInv, TypeOK, Day
    <3>4. PICK x \in shown' : CellOf(x, f.series, q) /\ x.value = f.value /\ today' <= x.day
      BY <3>2, ShowsToday DEF ServedSince
    <3>5. x.day \in Nat
      BY TypeCorrectStep, IngestAssumption DEF TypeOK, Shown, Day
    <3> QED BY <2>2, <3>1, <3>3, <3>4, <3>5 DEF ServedSince
  <2> QED BY <1>1, <2>3
<1>3. CASE ~\E q \in Period, g \in BOOLEAN : Receive(r, q, g)
  <2> USE DEF IInv, TypeOK
  <2>1. CASE UNCHANGED raw
    BY <1>1, <2>1
  <2>2. ASSUME NEW h \in Runner, NEW q \in Period, NEW g \in BOOLEAN, Receive(h, q, g)
        PROVE  raw'[r] \subseteq raw[r]
    <3>1. h # r
      BY <1>3, <2>2
    <3> QED BY <2>2, <3>1 DEF Receive
  <2>3. ASSUME NEW h \in Runner, EndPeriod(h) \/ Crash(h)
        PROVE  raw'[r] \subseteq raw[r]
    BY <2>3 DEF EndPeriod, Crash
  <2>4. raw'[r] \subseteq raw[r]
    BY <2>1, <2>2, <2>3
    DEF Next, Step, Publish, Midnight, Register, Start, Request, Parse, Insert,
        FetchFails, ParseFails, DeadlockAbort, ConnectionLost, Commit,
        CommitUnacknowledged, Fail, vars, txn
  <2> QED BY <1>1, <2>4
<1> QED BY <1>2, <1>3

\* A commit records figures of its payload, or repeats what is recorded.
LEMMA CommitWasShown ==
  ASSUME IInv, SeenInv, shown \subseteq shown', NEW r \in Runner, Apply(r), pc[r] = "commit",
         NEW o \in obs'
  PROVE  \E x \in shown' : /\ CellOf(x, o.series, o.period)
                           /\ x.value = o.value /\ o.vintage <= x.day
<1>1. \A e \in obs : \E x \in shown' : /\ CellOf(x, e.series, e.period)
                                        /\ x.value = e.value /\ e.vintage <= x.day
  BY DEF SeenInv, SeenAtTheSource
<1>2. CASE o \in obs
  BY <1>1, <1>2
<1>3. ASSUME NEW w \in raw[r], o \in dirty[r],
             [series |-> o.series, value |-> o.value] \in w.figures
      PROVE  \E x \in shown' : /\ CellOf(x, o.series, o.period)
                               /\ x.value = o.value /\ o.vintage <= x.day
  <2> DEFINE f == [series |-> o.series, value |-> o.value]
  <2>1. ServedSince(f, w.served, w.fetched)
    BY <1>3 DEF SeenInv
  <2>2. w.served = o.period /\ w.fetched = o.vintage
    BY <1>3 DEF IInv, PayloadInv, DirtyInv
  <2> QED BY <2>1, <2>2 DEF ServedSince
<1>4. ASSUME NEW e \in obs, SameVintage(e, o), e.value = o.value
      PROVE  \E x \in shown' : /\ CellOf(x, o.series, o.period)
                               /\ x.value = o.value /\ o.vintage <= x.day
  BY <1>1, <1>4 DEF SameVintage
<1>5. CASE o \in dirty[r]
  BY <1>3, <1>4, <1>5 DEF IInv, DirtyInv
<1> QED BY <1>2, <1>5 DEF Apply

LEMMA SeenStep == IInv /\ SeenInv /\ [Next]_vars => SeenInv'
<1> SUFFICES ASSUME IInv, SeenInv, [Next]_vars PROVE SeenInv'
  OBVIOUS
<1>1. \A f \in figures' : ServedSince(f, f.period, today)'
  BY ShowsToday
<1>2. \A r \in Runner : \A w \in raw'[r] : \A f \in w.figures :
        ServedSince(f, w.served, w.fetched)'
  BY ReceivedWasShown
<1>3. SeenAtTheSource'
  <2>1. shown \subseteq shown'
    BY ShownGrows
  <2>2. ASSUME NEW r \in Runner, Commit(r) \/ CommitUnacknowledged(r)
        PROVE  SeenAtTheSource'
    BY <2>1, <2>2, CommitWasShown DEF Commit, CommitUnacknowledged, SeenAtTheSource
  <2>3. CASE UNCHANGED obs
    BY <2>1, <2>3 DEF SeenInv, SeenAtTheSource
  <2> QED
    BY ZenonT(40), <2>2, <2>3
    DEF Next, Step, Publish, Midnight, Register, Start, Request, Receive, Parse, Insert,
        Crash, FetchFails, ParseFails, DeadlockAbort, ConnectionLost, Fail, vars, tables
<1> QED BY <1>1, <1>2, <1>3 DEF SeenInv

\* No guesses: every figure in the database is one that the source served for
\* that month, on the day of its vintage or later, in spite of revisions in the
\* source, of answers about another month and of failures (base.py, fetchers).
THEOREM NoGuess == Spec => []SeenAtTheSource
<1>1. Init => SeenInv
  BY DEF Init, SeenInv, SeenAtTheSource
<1>2. SeenInv => SeenAtTheSource
  BY DEF SeenInv
<1> QED BY <1>1, <1>2, SeenStep, Invariant, PTL DEF Spec

-----------------------------------------------------------------------------
(***************************************************************************)
(* Every period that was asked for is accounted for.                       *)
(***************************************************************************)

\* A queue holds its first element and those of its tail.
LEMMA QueueSet ==
  ASSUME NEW S, NEW s \in Seq(S), s # <<>>
  PROVE  ToSet(s) = {Head(s)} \cup ToSet(Tail(s))
<1>1. /\ Len(s) \in Nat \ {0} /\ Head(s) = s[1]
      /\ Tail(s) \in Seq(S) /\ Len(Tail(s)) = Len(s) - 1
      /\ \A i \in 1..Len(Tail(s)) : Tail(s)[i] = s[i + 1]
  BY QueueTail
<1>2. \A i \in 1..Len(s) : i = 1 \/ (i - 1 \in 1..Len(Tail(s)) /\ (i - 1) + 1 = i)
  BY <1>1
<1>3. \A i \in 1..Len(Tail(s)) : i + 1 \in 1..Len(s)
  BY <1>1
<1>4. /\ ToSet(s) = {s[i] : i \in 1..Len(s)}
      /\ ToSet(Tail(s)) = {Tail(s)[i] : i \in 1..Len(Tail(s))}
  BY <1>1, LenProperties DEF ToSet
<1>5. ToSet(s) \subseteq {Head(s)} \cup ToSet(Tail(s))
  <2> SUFFICES ASSUME NEW i \in 1..Len(s), i # 1 PROVE s[i] \in ToSet(Tail(s))
    BY <1>1, <1>4
  <2>1. Tail(s)[i - 1] = s[i]
    BY <1>1, <1>2
  <2> QED BY <1>2, <1>4, <2>1
<1>6. {Head(s)} \cup ToSet(Tail(s)) \subseteq ToSet(s)
  BY <1>1, <1>3, <1>4
<1> QED BY <1>5, <1>6

\* The end of a period moves it from what is left to what is reported.
LEMMA EndAccounts ==
  ASSUME IInv, Accounted, NEW r \in Runner, pc[r] # "idle", EndPeriod(r),
         \/ done' = [done EXCEPT ![r] = done[r] \cup {Head(left[r])}] /\ failed' = failed
         \/ failed' = [failed EXCEPT ![r] = failed[r] \cup {Head(left[r])}] /\ done' = done
  PROVE  \A h \in Runner : asked'[h] = done'[h] \cup failed'[h] \cup ToSet(left'[h])
<1>1. left[r] \in Seq(Period) /\ left[r] # <<>>
  BY DEF IInv, BusyInv, TypeOK
<1>2. ToSet(left[r]) = {Head(left[r])} \cup ToSet(Tail(left[r]))
  BY <1>1, QueueSet
<1> QED BY <1>2 DEF EndPeriod, Accounted, IInv, TypeOK

LEMMA AccountStep == IInv /\ Accounted /\ [Next]_vars => Accounted'
<1> SUFFICES ASSUME IInv, Accounted, [Next]_vars PROVE Accounted'
  OBVIOUS
<1> USE DEF Accounted
<1>1. CASE UNCHANGED <<raws, asked, done, failed, left>>
  BY <1>1
<1>2. ASSUME NEW r \in Runner, NEW m \in {"run", "backfill"},
             NEW a \in Period, NEW b \in Period, Start(r, m, MonthRange(a, b))
      PROVE  Accounted'
  <2> DEFINE ps == MonthRange(a, b)
  <2>1. /\ pc[r] = "idle" /\ raws' = raws
        /\ done' = [done EXCEPT ![r] = {}] /\ failed' = [failed EXCEPT ![r] = {}]
        /\ \/ asked' = [asked EXCEPT ![r] = {}] /\ left' = left
           \/ asked' = [asked EXCEPT ![r] = ToSet(ps)] /\ left' = [left EXCEPT ![r] = ps]
    BY <1>2 DEF Start, tables
  <2>2. left[r] = <<>> /\ ToSet(<<>>) = {}
    BY <2>1 DEF IInv, BusyInv, ToSet
  <2> HIDE DEF ps
  <2> QED BY <2>1, <2>2 DEF IInv, TypeOK
<1>3. ASSUME NEW r \in Runner, pc[r] # "idle", Fail(r)
      PROVE  Accounted'
  <2>1. \A h \in Runner : asked'[h] = done'[h] \cup failed'[h] \cup ToSet(left'[h])
    BY <1>3, EndAccounts DEF Fail
  <2> QED BY <1>3, <2>1 DEF Fail, tables
<1>4. ASSUME NEW r \in Runner, Commit(r) \/ CommitUnacknowledged(r)
      PROVE  Accounted'
  <2>1. /\ pc[r] = "commit" /\ EndPeriod(r) /\ raws' = raws \cup raw[r]
        /\ \/ done' = [done EXCEPT ![r] = done[r] \cup {Head(left[r])}] /\ failed' = failed
           \/ failed' = [failed EXCEPT ![r] = failed[r] \cup {Head(left[r])}] /\ done' = done
    BY <1>4 DEF Commit, CommitUnacknowledged, Apply
  <2>2. \A h \in Runner : asked'[h] = done'[h] \cup failed'[h] \cup ToSet(left'[h])
    BY <2>1, EndAccounts
  <2>3. PICK w \in raw[r] : w.period = Head(left[r])
    BY <2>1 DEF IInv, PayloadInv
  <2>4. \A h \in Runner : \A p \in done'[h] : p \in done[h] \/ p = w.period
    <3>1. DOMAIN done = Runner
      BY DEF IInv, TypeOK
    <3> QED BY <2>1, <2>3, <3>1
  <2> QED BY <2>1, <2>2, <2>3, <2>4
<1>5. ASSUME NEW r \in Runner, Crash(r)
      PROVE  Accounted'
  <2>1. ToSet(<<>>) = {}
    BY DEF ToSet
  <2> QED BY <1>5, <2>1 DEF Crash, tables, IInv, TypeOK
<1> QED
  BY ZenonT(40), <1>1, <1>2, <1>3, <1>4, <1>5
  DEF Next, Step, Publish, Midnight, Register, Request, Receive, Parse, Insert,
      FetchFails, ParseFails, DeadlockAbort, ConnectionLost, vars, tables, job, report

\* A period that a job reports as ingested is in the tables, and a job that
\* was not killed reports every period of its range (backfill.py:60-79).
THEOREM NothingUnreported == Spec => []Accounted
<1>1. Init => Accounted
  BY DEF Init, Accounted, ToSet
<1> QED BY <1>1, AccountStep, Invariant, PTL DEF Spec

-----------------------------------------------------------------------------
(***************************************************************************)
(* A day that is over is final once the jobs that fetched by it have ended. *)
(***************************************************************************)

\* Entries of a later vintage have no part in what was known on day v.
LEMMA LaterEntriesUnread ==
  ASSUME NEW S, NEW T, S \subseteq T, NEW v \in Nat,
         \A e \in T : e.vintage \in Nat,
         \A e \in T \ S : ~(e.vintage <= v)
  PROVE  V!AsOf(T, v) = V!AsOf(S, v)
  BY DEF V!AsOf

LEMMA CommitSettled ==
  ASSUME IInv, IInv', NEW r \in Runner, Commit(r) \/ CommitUnacknowledged(r),
         NEW v \in Day, \A h \in Runner : ~InFlight(h, v)
  PROVE  V!AsOf(Entries', v) = V!AsOf(Entries, v)
<1>1. /\ pc[r] = "commit" /\ Apply(r)
      /\ obs' = {o \in obs : \A d \in dirty[r] : ~SameVintage(o, d)} \cup dirty[r]
  BY DEF Commit, CommitUnacknowledged, Apply
<1>2. Entries = {EntryOf(o) : o \in obs} /\ Entries' = {EntryOf(o) : o \in obs'}
  BY EntriesAre DEF Entries, EntryOf
<1>3. Entries \subseteq Entries'
  <2> SUFFICES ASSUME NEW o \in obs PROVE EntryOf(o) \in Entries'
    BY <1>2
  <2>1. PICK e \in obs' : SameVintage(e, o) /\ e.value = o.value
    BY <1>1, ApplyKeeps
  <2>2. EntryOf(e) = EntryOf(o)
    BY <2>1 DEF EntryOf, SameVintage
  <2> QED BY <1>2, <2>2
<1>4. \A e \in Entries' : e.vintage \in Nat
  <2>1. \A o \in obs' : o.vintage \in Nat
    BY IngestAssumption DEF IInv, TypeOK, Row, Day
  <2> QED BY <1>2, <2>1 DEF EntryOf
<1>5. \A e \in Entries' \ Entries : ~(e.vintage <= v)
  <2> SUFFICES ASSUME NEW o \in obs', EntryOf(o) \notin Entries
               PROVE  ~(o.vintage <= v)
    <3>1. \A o \in obs' : EntryOf(o).vintage = o.vintage
      BY DEF EntryOf
    <3> QED BY <1>2, <3>1
  <2>1. o \in dirty[r]
    BY <1>1, <1>2
  <2>2. o.vintage = stamp[r]
    BY <2>1 DEF IInv, DirtyInv
  <2> QED BY <1>1, <2>2 DEF InFlight
<1>6. v \in Nat
  BY IngestAssumption DEF Day
<1> QED BY <1>3, <1>4, <1>5, <1>6, LaterEntriesUnread

\* What readers are told about a day that is over is final once every job that
\* sent its request by that day has ended: no later commit, of whatever month,
\* is dated before its request (series.py:48-87, base.py:178).
THEOREM PastIsFinal == Spec => SettledStays
<1> DEFINE Settled ==
      \A v \in Day : (v < today /\ \A r \in Runner : ~InFlight(r, v))
                       => V!AsOf(Entries, v)' = V!AsOf(Entries, v)
<1>1. IInv /\ IInv' /\ [Next]_vars => [Settled]_vars
  <2> SUFFICES ASSUME IInv, IInv', Next,
                      NEW v \in Day, \A h \in Runner : ~InFlight(h, v)
               PROVE  V!AsOf(Entries, v)' = V!AsOf(Entries, v)
    BY DEF Settled
  <2>1. CASE UNCHANGED obs
    BY <2>1 DEF Entries, V!AsOf
  <2>2. ASSUME NEW r \in Runner, Commit(r) \/ CommitUnacknowledged(r)
        PROVE  V!AsOf(Entries, v)' = V!AsOf(Entries, v)
    <3>1. V!AsOf(Entries', v) = V!AsOf(Entries, v)
      BY <2>2, CommitSettled
    <3> QED BY <3>1 DEF V!AsOf
  <2> QED
    BY ZenonT(40), <2>1, <2>2
    DEF Next, Step, Publish, Midnight, Register, Start, Request, Receive, Parse, Insert,
        Crash, FetchFails, ParseFails, DeadlockAbort, ConnectionLost, Fail, tables
<1> QED BY <1>1, Invariant, PTL DEF Spec, SettledStays

=============================================================================
