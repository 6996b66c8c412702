------------------------------- MODULE Ingest -------------------------------
(***************************************************************************)
(* The ingestion jobs of one source: scheduler/run.py and                  *)
(* scheduler/backfill.py driving Fetcher.run (ingest/base.py) against the  *)
(* observations and raw_payloads tables, in separate processes, each month *)
(* in one transaction of db.session_scope.                                 *)
(*                                                                         *)
(* Postgres runs at READ COMMITTED: a transaction's rows are invisible to  *)
(* the others until it commits, and an INSERT that meets an uncommitted    *)
(* row with the same unique key waits for that row's transaction to end.   *)
(* A period is a number so that the newest one can be told; a day is a     *)
(* number, counted in UTC as fetched_at is.                                *)
(***************************************************************************)
EXTENDS Integers, Sequences, SequencesExt, FiniteSets, Relation

CONSTANTS
  Runner,     \* the processes that run jobs: cron services, an operator
  Series,     \* the series this source's fetcher declares
  LastPeriod, \* the months being collected are 1..LastPeriod
  Value,      \* the figures the source may publish
  Kind,       \* which fetcher: "census", "comext" or "twse"
  LastDay,    \* bound: the last day of the calendar
  MaxJobs,    \* bound: how many jobs are started
  MaxEdits    \* bound: how many figures the source publishes or revises

ASSUME IngestAssumption ==
  /\ IsFiniteSet(Series) /\ IsFiniteSet(Value)
  /\ LastPeriod \in Nat
  /\ Kind \in {"census", "comext", "twse"}
  /\ LastDay \in Nat /\ MaxJobs \in Nat /\ MaxEdits \in Nat

VARIABLES
  today,      \* the calendar day
  figures,    \* the figures the source serves now
  shown,      \* every figure the source has served, with the day
  edits,      \* how many figures have been published or revised
  registered, \* the series that have a row in the series table
  obs,        \* committed rows of observations
  raws,       \* committed rows of raw_payloads
  jobs,       \* how many jobs have been started
  pc,         \* where each process stands
  mode,       \* the entry point it runs: "run" or "backfill"
  asked,      \* the periods it was asked for
  left,       \* the periods it still has to do, the current one first
  known,      \* the series_ids it read when it started
  stamp,      \* fetched_at of the current request
  raw,        \* raw_payloads rows of its open transaction
  dirty,      \* observations rows of its open transaction
  todo,       \* the rows its INSERT has still to place
  built,      \* the retrieved_at its INSERT writes
  done,       \* periods it has reported as ingested
  failed      \* periods it has reported as failed

source == <<today, figures, shown, edits>>
tables == <<registered, obs, raws>>
job == <<jobs, mode, asked, left, known>>
txn == <<stamp, raw, dirty, todo, built>>
report == <<done, failed>>
vars == <<source, tables, job, txn, report, pc>>

Day == 0..LastDay
Period == 1..LastPeriod
Figure == [series : Series, value : Value]
Published == [series : Series, period : Period, value : Value]
Shown == [series : Series, period : Period, value : Value, day : Day]
Row == [series : Series, period : Period, vintage : Day, value : Value,
        retrieved : Day]
Raw == [period : Period, served : Period, fetched : Day,
        figures : SUBSET Figure, garbled : BOOLEAN]
PC == {"idle", "request", "await", "parse", "insert", "commit"}

TypeOK ==
  /\ today \in Day
  /\ figures \subseteq Published
  /\ shown \subseteq Shown
  /\ edits \in 0..MaxEdits
  /\ registered \subseteq Series
  /\ obs \subseteq Row
  /\ raws \subseteq Raw
  /\ jobs \in 0..MaxJobs
  /\ pc \in [Runner -> PC]
  /\ mode \in [Runner -> {"run", "backfill"}]
  /\ asked \in [Runner -> SUBSET Period]
  /\ left \in [Runner -> Seq(Period)]
  /\ known \in [Runner -> SUBSET Series]
  /\ stamp \in [Runner -> Day]
  /\ raw \in [Runner -> SUBSET Raw]
  /\ dirty \in [Runner -> SUBSET Row]
  /\ todo \in [Runner -> Seq(Figure)]
  /\ built \in [Runner -> Day]
  /\ done \in [Runner -> SUBSET Period]
  /\ failed \in [Runner -> SUBSET Period]

-----------------------------------------------------------------------------
\* uq_observations_vintage: series, period (start and end) and vintage.
SameVintage(a, b) ==
  a.series = b.series /\ a.period = b.period /\ a.vintage = b.vintage

CellOf(x, s, p) == x.series = s /\ x.period = p

\* The figures the source serves for period p.
ServedFor(p) ==
  {f \in Figure : [series |-> f.series, period |-> p, value |-> f.value] \in figures}

\* The month that the answer to a request for period p is about.  TWSE has one
\* endpoint, which serves the newest month; the others serve what is asked.
Serves(q, p) ==
  IF Kind = "twse"
    THEN /\ \E f \in figures : f.period = q
         /\ \A f \in figures : f.period <= q
    ELSE q = p

-----------------------------------------------------------------------------
(***************************************************************************)
(* The source and the calendar.                                            *)
(***************************************************************************)

\* The source publishes the figure of a month, or revises it in place.
Publish(s, p, v) ==
  /\ edits < MaxEdits
  /\ edits' = edits + 1
  /\ [series |-> s, period |-> p, value |-> v] \notin figures
  /\ figures' = {f \in figures : ~CellOf(f, s, p)}
                  \cup {[series |-> s, period |-> p, value |-> v]}
  /\ shown' = shown \cup {[series |-> s, period |-> p, value |-> v, day |-> today]}
  /\ UNCHANGED <<today, tables, job, txn, report, pc>>

\* Midnight: what the source serves is what it serves on the new day.
Midnight ==
  /\ today < LastDay
  /\ today' = today + 1
  /\ shown' = shown \cup {[series |-> f.series, period |-> f.period,
                           value |-> f.value, day |-> today + 1] : f \in figures}
  /\ UNCHANGED <<figures, edits, tables, job, txn, report, pc>>

\* `scheduler.run register` of this release: one transaction that leaves a
\* series row for every declared spec.
Register ==
  /\ registered # Series
  /\ registered' = Series
  /\ UNCHANGED <<source, obs, raws, job, txn, report, pc>>

-----------------------------------------------------------------------------
(***************************************************************************)
(* One job.  `run` ingests one period; `backfill` walks a range of them    *)
(* with the series_ids it read first, and gives up at once when there are  *)
(* none.                                                                   *)
(***************************************************************************)
\* month_range: every month from a to b.
MonthRange(a, b) == [i \in 1..(b - a + 1) |-> a + i - 1]

Start(r, m, ps) ==
  /\ pc[r] = "idle"
  /\ jobs < MaxJobs
  /\ m = "run" => Len(ps) = 1
  /\ jobs' = jobs + 1
  /\ mode' = [mode EXCEPT ![r] = m]
  /\ known' = [known EXCEPT ![r] = registered]
  /\ IF m = "backfill" /\ registered = {}
       THEN /\ asked' = [asked EXCEPT ![r] = {}]
            /\ UNCHANGED <<left, pc>>
       ELSE /\ asked' = [asked EXCEPT ![r] = ToSet(ps)]
            /\ left' = [left EXCEPT ![r] = ps]
            /\ pc' = [pc EXCEPT ![r] = "request"]
  /\ done' = [done EXCEPT ![r] = {}]
  /\ failed' = [failed EXCEPT ![r] = {}]
  /\ UNCHANGED <<source, tables, txn>>

\* The transaction of the current period is over: forget it and go on to the
\* next period, or stop.
EndPeriod(r) ==
  /\ raw' = [raw EXCEPT ![r] = {}]
  /\ dirty' = [dirty EXCEPT ![r] = {}]
  /\ todo' = [todo EXCEPT ![r] = <<>>]
  /\ left' = [left EXCEPT ![r] = Tail(left[r])]
  /\ pc' = [pc EXCEPT ![r] = IF Len(left[r]) = 1 THEN "idle" ELSE "request"]
  /\ stamp' = [stamp EXCEPT ![r] = 0]
  /\ built' = [built EXCEPT ![r] = 0]
  /\ UNCHANGED <<jobs, mode, asked, known>>

\* Variant: the first failure ends the walk.
Fail_stops(r) ==
  /\ failed' = [failed EXCEPT ![r] = failed[r] \cup {Head(left[r])}]
  /\ raw' = [raw EXCEPT ![r] = {}]
  /\ dirty' = [dirty EXCEPT ![r] = {}]
  /\ todo' = [todo EXCEPT ![r] = <<>>]
  /\ stamp' = [stamp EXCEPT ![r] = 0]
  /\ built' = [built EXCEPT ![r] = 0]
  /\ left' = [left EXCEPT ![r] = <<>>]
  /\ pc' = [pc EXCEPT ![r] = "idle"]
  /\ UNCHANGED <<source, tables, jobs, mode, asked, known, done>>

\* Any exception: session_scope rolls back; `run` exits with a non-zero
\* status, `backfill` lists the period and walks on.
Fail(r) ==
  /\ failed' = [failed EXCEPT ![r] = failed[r] \cup {Head(left[r])}]
  /\ EndPeriod(r)
  /\ UNCHANGED <<source, tables, done>>

\* fetched_at is taken before the request is sent.
Request(r) ==
  /\ pc[r] = "request"
  /\ stamp' = [stamp EXCEPT ![r] = today]
  /\ pc' = [pc EXCEPT ![r] = "await"]
  /\ UNCHANGED <<source, tables, job, raw, dirty, todo, built, report>>

\* A body of the right shape arrives and is flushed into the open transaction.
\* garbled: it has the shape fetch looks at, but its content does not parse.
Receive(r, q, garbled) ==
  /\ pc[r] = "await"
  /\ Serves(q, Head(left[r]))
  /\ raw' = [raw EXCEPT ![r] = raw[r] \cup
              {[period |-> Head(left[r]), served |-> q, fetched |-> stamp[r],
                figures |-> ServedFor(q), garbled |-> garbled]}]
  /\ pc' = [pc EXCEPT ![r] = "parse"]
  /\ UNCHANGED <<source, tables, job, stamp, dirty, todo, built, report>>

\* A timeout, a status other than 200, or a body of the wrong shape.
FetchFails(r) ==
  /\ pc[r] = "await"
  /\ Fail(r)

\* Variant: the month a snapshot endpoint serves is not looked at.
Refused_anyMonth(w) == w.garbled \/ (w.figures = {} /\ Kind # "census")

\* What makes normalise raise.
Refused(w) ==
  \/ w.garbled
  \/ w.served # w.period
  \/ w.figures = {} /\ Kind # "census"

\* Census counts every country row before it looks for tracked ones, so a
\* response without a tracked row passes if another country is in it.
RefuseCensus(w) == Kind = "census" /\ w.figures = {}

\* normalise yields the figures and upsert builds one INSERT of them, in the
\* order they came in the body.
Parse(r, w, order) ==
  /\ pc[r] = "parse"
  /\ w \in raw[r]
  /\ ~Refused(w)
  /\ \A f \in w.figures : f.series \in known[r]
  /\ order \in SetToSeqs(w.figures)
  /\ todo' = [todo EXCEPT ![r] = order]
  /\ built' = [built EXCEPT ![r] = today]
  /\ pc' = [pc EXCEPT ![r] = IF w.figures = {} THEN "commit" ELSE "insert"]
  /\ UNCHANGED <<source, tables, job, stamp, raw, dirty, report>>

\* normalise raises, or upsert finds a series it has no id for.
ParseFails(r, w) ==
  /\ pc[r] = "parse"
  /\ w \in raw[r]
  /\ \/ Refused(w)
     \/ RefuseCensus(w)
     \/ \E f \in w.figures : f.series \notin known[r]
  /\ Fail(r)

\* Variants: the vintage is the day before, or the day the body is parsed.
NextRow_yesterday(r) ==
  [series |-> Head(todo[r]).series, period |-> Head(left[r]),
   vintage |-> stamp[r] - 1, value |-> Head(todo[r]).value, retrieved |-> built[r]]

NextRow_parseDay(r) ==
  [series |-> Head(todo[r]).series, period |-> Head(left[r]),
   vintage |-> built[r], value |-> Head(todo[r]).value, retrieved |-> built[r]]

\* The row that r's INSERT places next, as a new row.
NextRow(r) ==
  [series |-> Head(todo[r]).series, period |-> Head(left[r]),
   vintage |-> stamp[r], value |-> Head(todo[r]).value, retrieved |-> built[r]]

\* r's INSERT waits for a row that h has written and not yet committed.
WaitsFor(r, h) ==
  /\ pc[r] = "insert"
  /\ h # r
  /\ \E d \in dirty[h] : SameVintage(d, NextRow(r))

\* Variants: there is no constraint, and the row is placed beside the one that is
\* there; the conflict clause sets the value too.
Placed_beside(r) == {NextRow(r)} \cup {o \in obs : SameVintage(o, NextRow(r))}

Placed_overwrites(r) == {NextRow(r)}

\* ON CONFLICT DO UPDATE SET retrieved_at: a row that is already there keeps
\* its figure.
Placed(r) ==
  LET old == {o \in obs : SameVintage(o, NextRow(r))}
  IN IF old = {} THEN {NextRow(r)}
                 ELSE {[o EXCEPT !.retrieved = built[r]] : o \in old}

\* Variant: the insert of a row that another transaction holds goes ahead.
Insert_noWait(r) ==
  /\ pc[r] = "insert"
  /\ dirty' = [dirty EXCEPT ![r] = dirty[r] \cup Placed(r)]
  /\ todo' = [todo EXCEPT ![r] = Tail(todo[r])]
  /\ pc' = [pc EXCEPT ![r] = IF Len(todo[r]) = 1 THEN "commit" ELSE "insert"]
  /\ UNCHANGED <<source, tables, job, stamp, raw, built, report>>

Insert(r) ==
  /\ pc[r] = "insert"
  /\ \A h \in Runner : ~WaitsFor(r, h)
  /\ dirty' = [dirty EXCEPT ![r] = dirty[r] \cup Placed(r)]
  /\ todo' = [todo EXCEPT ![r] = Tail(todo[r])]
  /\ pc' = [pc EXCEPT ![r] = IF Len(todo[r]) = 1 THEN "commit" ELSE "insert"]
  /\ UNCHANGED <<source, tables, job, stamp, raw, built, report>>

\* Variant: nobody looks for deadlocks.
Deadlocked_never(r) == FALSE

\* Postgres aborts a transaction that waits for itself through the others.
Deadlocked(r) ==
  LET waits == [e \in Runner \X Runner |-> WaitsFor(e[1], e[2])]
  IN TransitiveClosure(waits, Runner)[r, r]

DeadlockAbort(r) ==
  /\ pc[r] = "insert"
  /\ Deadlocked(r)
  /\ Fail(r)

\* Variant: the payload is left out of the transaction.
Apply_dropsRaw(r) ==
  /\ obs' = {o \in obs : \A d \in dirty[r] : ~SameVintage(o, d)} \cup dirty[r]
  /\ UNCHANGED <<registered, raws>>

\* What the commit of r's transaction does to the tables.
Apply(r) ==
  /\ obs' = {o \in obs : \A d \in dirty[r] : ~SameVintage(o, d)} \cup dirty[r]
  /\ raws' = raws \cup raw[r]
  /\ UNCHANGED registered

Commit(r) ==
  /\ pc[r] = "commit"
  /\ Apply(r)
  /\ done' = [done EXCEPT ![r] = done[r] \cup {Head(left[r])}]
  /\ EndPeriod(r)
  /\ UNCHANGED <<source, failed>>

\* The connection is lost after the server committed: the client sees an
\* exception and reports a failure.
CommitUnacknowledged(r) ==
  /\ pc[r] = "commit"
  /\ Apply(r)
  /\ failed' = [failed EXCEPT ![r] = failed[r] \cup {Head(left[r])}]
  /\ EndPeriod(r)
  /\ UNCHANGED <<source, done>>

\* The connection is lost before: the server rolls back.
ConnectionLost(r) ==
  /\ pc[r] \in {"insert", "commit"}
  /\ Fail(r)

\* The process is killed (a deploy, an out-of-memory): the server rolls back
\* and nobody reports anything.
Crash(r) ==
  /\ pc[r] # "idle"
  /\ raw' = [raw EXCEPT ![r] = {}]
  /\ dirty' = [dirty EXCEPT ![r] = {}]
  /\ todo' = [todo EXCEPT ![r] = <<>>]
  /\ stamp' = [stamp EXCEPT ![r] = 0]
  /\ built' = [built EXCEPT ![r] = 0]
  /\ left' = [left EXCEPT ![r] = <<>>]
  /\ asked' = [asked EXCEPT ![r] = {}]
  /\ done' = [done EXCEPT ![r] = {}]
  /\ failed' = [failed EXCEPT ![r] = {}]
  /\ pc' = [pc EXCEPT ![r] = "idle"]
  /\ UNCHANGED <<source, tables, jobs, mode, known>>

-----------------------------------------------------------------------------
Init ==
  /\ today = 0
  /\ figures = {}
  /\ shown = {}
  /\ edits = 0
  /\ registered \in SUBSET Series    \* what an earlier release registered
  /\ obs = {}
  /\ raws = {}
  /\ jobs = 0
  /\ pc = [r \in Runner |-> "idle"]
  /\ mode = [r \in Runner |-> "run"]
  /\ asked = [r \in Runner |-> {}]
  /\ left = [r \in Runner |-> <<>>]
  /\ known = [r \in Runner |-> {}]
  /\ stamp = [r \in Runner |-> 0]
  /\ raw = [r \in Runner |-> {}]
  /\ dirty = [r \in Runner |-> {}]
  /\ todo = [r \in Runner |-> <<>>]
  /\ built = [r \in Runner |-> 0]
  /\ done = [r \in Runner |-> {}]
  /\ failed = [r \in Runner |-> {}]

\* One step of a running job that its process or the server is bound to take.
Step(r) ==
  \/ Request(r)
  \/ \E q \in Period, g \in BOOLEAN : Receive(r, q, g)
  \/ FetchFails(r)
  \/ \E w \in raw[r] : \E order \in SetToSeqs(w.figures) : Parse(r, w, order)
  \/ \E w \in raw[r] : ParseFails(r, w)
  \/ Insert(r)
  \/ DeadlockAbort(r)
  \/ Commit(r)
  \/ CommitUnacknowledged(r)

Next ==
  \/ \E s \in Series, p \in Period, v \in Value : Publish(s, p, v)
  \/ Midnight
  \/ Register
  \/ \E r \in Runner, m \in {"run", "backfill"}, a, b \in Period :
       a <= b /\ Start(r, m, MonthRange(a, b))
  \/ \E r \in Runner : Step(r) \/ ConnectionLost(r) \/ Crash(r)

Spec == Init /\ [][Next]_vars

(***************************************************************************)
(* A running process keeps running: its requests time out (httpx timeout   *)
(* of 90 or 120 seconds), a statement that waits for a row gets it when    *)
(* the other transaction ends, and Postgres looks for deadlocks.  Nothing  *)
(* obliges anyone to start a job, the source to publish, or a connection   *)
(* to break.                                                               *)
(***************************************************************************)
FairSpec == Spec /\ \A r \in Runner : WF_vars(Step(r))

-----------------------------------------------------------------------------
(***************************************************************************)
(* Safety                                                                  *)
(***************************************************************************)

\* There is one row for each series, period and vintage, whichever jobs ran
\* over the same month at the same time: the insert of a row that another
\* transaction is about to commit waits for it (uq_observations_vintage).
OneRowPerVintage == \A a, b \in obs : SameVintage(a, b) => a = b

\* Every figure in the database can be traced to evidence: a raw payload that
\* was fetched on the day of its vintage, for its month, and holds it.
Backed ==
  \A o \in obs : \E w \in raws :
    /\ w.period = o.period
    /\ w.fetched = o.vintage
    /\ [series |-> o.series, value |-> o.value] \in w.figures

\* Never a partial batch: a payload in the archive parsed, was for the month
\* asked, and every series in it has a row of that vintage.
WholeBatch ==
  \A w \in raws :
    /\ ~w.garbled /\ w.served = w.period
    /\ \A f \in w.figures : \E o \in obs :
         o.series = f.series /\ o.period = w.period /\ o.vintage = w.fetched

\* No guesses: every figure is one the source really served for that month,
\* on the day of its vintage or later.
SeenAtTheSource ==
  \A o \in obs : \E x \in shown :
    CellOf(x, o.series, o.period) /\ x.value = o.value /\ o.vintage <= x.day

\* A period that a job reports as ingested is in the tables; a backfill that
\* was not killed reports every period of its range, as one or the other.
Accounted ==
  \A r \in Runner :
    /\ \A p \in done[r] : \E w \in raws : w.period = p
    /\ asked[r] = done[r] \cup failed[r] \cup ToSet(left[r])

(***************************************************************************)
(* Why these hold: what is true of an open transaction.                    *)
(***************************************************************************)

\* A process is idle exactly when it has no period left to do.
BusyInv == \A r \in Runner : pc[r] = "idle" <=> left[r] = <<>>

\* No day is in the future.
ClockInv ==
  /\ \A r \in Runner : stamp[r] <= today
  /\ \A o \in obs : o.vintage <= today

\* One figure for each month of a series: in the source's answer, and hence
\* in the payload that a transaction holds.
PayloadInv ==
  /\ \A f, g \in figures : CellOf(f, g.series, g.period) => f = g
  /\ \A r \in Runner :
       /\ raw[r] = {} <=> pc[r] \in {"idle", "request", "await"}
       /\ \A w, x \in raw[r] : w = x
       /\ \A w \in raw[r] :
            /\ w.period = Head(left[r]) /\ w.fetched = stamp[r]
            /\ \A f, g \in w.figures : f.series = g.series => f = g
            /\ pc[r] # "parse" => ~w.garbled /\ w.served = w.period

\* The INSERT of r: what is placed and what is still to place make up the
\* payload, each series once.
InsertInv(r) ==
  /\ pc[r] = "insert" <=> todo[r] # <<>>
  /\ dirty[r] # {} => pc[r] \in {"insert", "commit"}
  /\ \A i, j \in 1..Len(todo[r]) : todo[r][i].series = todo[r][j].series => i = j
  /\ \A i \in 1..Len(todo[r]) :
       /\ \A w \in raw[r] : todo[r][i] \in w.figures
       /\ \A d \in dirty[r] : d.series # todo[r][i].series
  /\ pc[r] \in {"insert", "commit"} =>
       \A w \in raw[r] : \A f \in w.figures :
          \/ \E d \in dirty[r] : d.series = f.series
          \/ \E i \in 1..Len(todo[r]) : todo[r][i] = f

\* The uncommitted rows of r belong to its period and day, come from its
\* payload or repeat a committed row, and no other transaction has them.
DirtyInv(r) ==
  /\ \A d \in dirty[r] :
       /\ d.period = Head(left[r]) /\ d.vintage = stamp[r]
       /\ \/ \E w \in raw[r] : [series |-> d.series, value |-> d.value] \in w.figures
          \/ \E o \in obs : SameVintage(o, d) /\ o.value = d.value
       /\ \A o \in obs : SameVintage(o, d) => o.value = d.value
       /\ \A e \in dirty[r] : SameVintage(d, e) => d = e
       /\ \A h \in Runner \ {r} : \A e \in dirty[h] : ~SameVintage(d, e)

\* The inductive invariant.
IInv ==
  /\ TypeOK
  /\ BusyInv
  /\ ClockInv
  /\ PayloadInv
  /\ \A r \in Runner : InsertInv(r) /\ DirtyInv(r)
  /\ OneRowPerVintage
  /\ Backed
  /\ WholeBatch

\* The committed figures as module Vintages sees them.
Entries ==
  {[series |-> o.series, period |-> o.period, vintage |-> o.vintage,
    value |-> o.value] : o \in obs}

V == INSTANCE Vintages WITH store <- Entries

\* The jobs implement the point-in-time store: rows are only added, and a
\* figure once recorded is never changed, replaced or removed.
PointInTime == V!Spec

\* The request that r's transaction will be dated by was sent by day v.
InFlight(r, v) == pc[r] \notin {"idle", "request"} /\ stamp[r] <= v

\* What readers are told about a day that is over can only change while a
\* job that fetched by that day has still to end; after that it is final.
SettledStays ==
  [][\A v \in Day :
       (v < today /\ \A r \in Runner : ~InFlight(r, v))
         => V!AsOf(Entries, v)' = V!AsOf(Entries, v)]_vars

(***************************************************************************)
(* Liveness                                                                *)
(***************************************************************************)

\* Every job ends, although jobs wait for one another's rows.
Finishes == \A r \in Runner : pc[r] # "idle" ~> pc[r] = "idle"

(***************************************************************************)
(* What the documents say and the code does not do.                        *)
(***************************************************************************)

\* ingest/base.py:7 "The raw payload is written *before* parsing, so a parser
\* crash still leaves the evidence needed to debug it."  A payload that was
\* received is on record after the step that reports the failure to parse it.
EvidenceKept ==
  [][\A r \in Runner :
       (pc[r] = "parse" /\ failed'[r] # failed[r]) => raw[r] \subseteq raws']_vars

\* ingest/base.py:149 "A genuine revision arrives with a later vintage_date
\* and lands as a new row".  A figure that was fetched and committed is on
\* record, under the vintage it was fetched on.
RevisionLands ==
  \A w \in raws : \A f \in w.figures : \E o \in obs :
    /\ o.series = f.series /\ o.period = w.period
    /\ o.vintage = w.fetched /\ o.value = f.value
=============================================================================
