# Verification of robotics-radar

TLA+ models of robotics-radar (a FastAPI service over Postgres that collects
official statistics about robot components, grades tripwires on them and
reports equity baskets), the TLC runs that check them on small instances, and
TLAPS proofs for every value of the constants.

Paths below are relative to `src/robotics_radar/` unless they start with `src/`.

## 1. The system

| Component | State | Operations | Hard behaviour | What makes it correct |
|---|---|---|---|---|
| Ingestion jobs: `ingest/base.py`, `ingest/registry.py`, `scheduler/run.py`, `scheduler/backfill.py`, `db.py` | tables `observations`, `raw_payloads`, `series`; each process's period list, `series_ids` map and open transaction | start, fetch, archive the payload, parse, upsert row by row, commit or roll back, go on to the next month | several processes at READ COMMITTED, inserts that wait for one another, deadlocks, crashes, a COMMIT whose answer is lost, midnight between fetch and commit | one row per vintage; every figure backed by a payload; no partial batch; every asked month accounted for; the past as read stays as read; every job ends |
| Observation store: `models/constraint.py`, the as-of query of `api/routes/series.py` | the vintages | record, read as at a day | revisions, late arrivals | append-only, point-in-time |
| Source fetchers: `ingest/sources/census_imports.py`, `comext_imports.py`, `twse_revenue.py` | while it parses: the world row, the pivot by partner, what has counted | fetch one month, refuse what is not it, parse row by row | TWSE serves only its newest month and rolls over; sums stand among countries; withheld figures; three units and a calendar of the Republic of China | every observation is what was filed for that month, once, in the unit of its series; nothing published is lost; totals reconcile |
| Boot of the web service: `src/railway.json`, `preflight.py`, `config.py`, `src/alembic/env.py`, `seeds/load.py`, `ingest/register.py` | the environment, attempts, restarts, schema version, reference rows, series rows, the advisory lock | preflight, migrate, seed, register, serve, restart | replicas of two releases at once, locks that cover only part of it, a database that lags or is lost, lost containers, three restarts | a missing setting and an unreachable database are told apart; nothing serves before it is ready; no double writes; the newest release ends up served |
| Basket membership: `seeds/load.py`, `models/equity.py` | spells (`added_at`, `removed_at`) | reconcile with `baskets.yaml` | old and new release alternate, several boots on a day | live members are the listed ones; history reads back |
| Derived series: `analysis/derivatives.py`, `GET /series/{id}/metrics` | none (reads the store) | growth, acceleration, z-score, trailing mean | gaps, nulls, zero priors, revisions | no look-ahead; score relative to the series itself |
| Tripwires: `tripwires/evaluate.py` | the `tripwires` table (reads the store) | grade | months that arrive in any order, gaps, thresholds met exactly | a verdict rests on its own months; runs count correctly |
| Basket returns: `baskets/compute.py` | none (closes are passed in) | align to the benchmark calendar, find the window, average, rank | calendars that differ, halts, late listings, zero prices, year ends | only fresh prices, windows nested, missing names put down to the right problem, no look-ahead |
| API readers, interpretation, logging, static files | - | - | - | see section 7 |

Interactions.  The cron service and an operator start ingestion jobs as
processes of their own; they meet only in Postgres.  The web service's
containers meet each other, and the jobs, only there too: through row locks, an
advisory lock and unique constraints.  The jobs need the series that a boot
registers and the boot's registration needs the nodes that its seed writes.
Readers (API, tripwires, charts) see committed rows only.

Hazards, each at its line, are in `PROJECT.json` with the properties that cover
them.

## 2. Modules

| Module | Models | Composes |
|---|---|---|
| `Vintages` | abstract specification of the store: entries are only added, under the day they were first seen; `AsOf` is the reader's query | - |
| `Ingest` | the jobs against the tables, in detail | `INSTANCE Vintages`: `PointInTime` is the refinement |
| `Sources` | fetch and normalise of the three fetchers, one row of the answer at a time, against what was filed with the source | gives `Ingest` what it assumes of an answer: one figure for each series, of the month asked |
| `Membership` | reconciliation of spells by one seed at a time, from the date it reads to its commit, with midnight at any point | rests on `Bootstrap`'s lock (`SeedNeverClashes`) for "one at a time" |
| `Bootstrap` | the start command of every replica, command by command, from its environment on | - |
| `Fractions` | exact arithmetic | - |
| `Derivatives` | the functions of `analysis/derivatives.py`, as operators on sets of points | `Fractions` |
| `Tripwire` | readings arrive; every tripwire is graded and every chart drawn in each state | `Derivatives`, `INSTANCE Vintages` for its Init, clock and key |
| `Baskets` | markets trade; every return is computed in each state | `Fractions` |
| `MC*` | constants for TLC | the module of that name |
| `*_proofs` | theorems | the module of that name |
| `Induction`, `Sums` | induction for the proofs; the folds of `Fractions` and `FiniteSetsExt` | used by the proofs of `Sources`, `Tripwire`, `Baskets` |

### Ingest

`pc[r]` is the place of process `r` in `Fetcher.run`: `request` (before
`fetched_at` is taken), `await` (the HTTP call), `parse` (payload flushed by
`store_raw`), `insert` (the multi-row INSERT, one row per `Insert` step so that
two statements can block each other in the middle), `commit`.  `left[r]` is
what a backfill has still to do; `scheduler/run.py` is the case of one month.
`obs` and `raws` are committed rows, `dirty[r]` and `raw[r]` those of the open
transaction.  `WaitsFor` is a row lock, `DeadlockAbort` Postgres choosing a
victim, `ConnectionLost` a failing statement, `CommitUnacknowledged` a COMMIT
that took effect and was reported as an error, `Crash` the end of the process.
`Kind` selects the fetcher, where they differ: Census passes a month without
a tracked row if the response has another country in it, and refuses it
otherwise; TWSE serves its newest month to whoever asks.

### Sources

Parties (importers by country of origin, listed companies) file figures, some
of them withheld, for two months around a new year (`File`).  `Fetch` forms
the answer that a source would give: a Census table with rows of groupings
among the rows of countries, Comext rows by partner and indicator with the
totals inside and outside of the Union, a TWSE snapshot of the newest month.
Then the fetcher opens it (`Open`: unreadable, empty, or another month), reads
one row per step in any order (`ReadCensus`, `ReadComext` into the pivot, `ReadTwse`) and
ends (`EndCensus`, `EndPivot` and `YieldPartner` for each partner,
`EndComext`, `EndTwse`).  `Malformed` is a row that raises.  What was filed is
kept in `filed`, so every observation can be compared with it. The code
filters (`is_country_code`, `is_real_partner`), the flag of a withheld
quantity, the scaling (Comext counts units of 100 kg, TWSE thousands of
dollars) and the date conversion are operators of the same names; a code
itself is a model value whose shape is given by sets.

### Bootstrap and Membership

`phase[r]` runs through the `&&` chain of `startCommand`.  The preflight takes
the first complete form of a database setting (`resolve_database_url`), ends
at once if there is none or it does not parse (`Misconfigured`), and otherwise
makes up to `MaxAttempts` attempts (`Unanswered`, `Answered`).  `down[r]` is
how many of the next ones the database will miss: it may lag on a first
deploy, and an `Outage` ends whatever talks to it.  Alembic reads the version,
then runs all pending migrations in one transaction whose DDL excludes others
(`Upgrade`, `CommitUpgrade`).  `AcquireLock` is `pg_advisory_xact_lock` and
covers the seed alone; `RegisterSelect`/`RegisterInsert` are one spec each and
take no lock, as `scheduler/run.py:57-61` does not.  For a row that exists,
`RegisterSelect` edits it (`Edit`), which takes its row lock until the commit.
`Restart` is `ON_FAILURE` with `restartPolicyMaxRetries`.

A seed reads what exists and the date (`SeedRead`) and commits in a later step
(`SeedWrite`), so midnight may fall in between.  `SeedWrite` also reconciles the
members of the release's baskets and fails when the key of a new spell (basket,
ticker, day) is taken (`MemberClash`).  `Bootstrap` keeps of a spell only who is
a member and which keys exist (`members`, `begun`), which is what a boot can fail
on.  `Membership` keeps the spells themselves: `Start` is the lock and the read of
the date (`seeds/load.py:74`), `Seed`, `SeedFails` and `SeedLost` are the three
ways the transaction ends, and any sequence of releases boots on any day.
`eod[d]` is what the spells should say of a day that is over: the members it
ended with, replaced at the commit of a seed that had read a date no later
than `d`.

### Tripwire, Derivatives, Baskets

These components compute and keep nothing, so what is modelled as actions is
what happens to their inputs: readings recorded in any order of months, under the
day they were fetched, which may be over when they are committed (`Record`),
and days of trading (`Trade`).  Every function of the code
is an operator, applied in every reachable state.  The code computes in floats;
the models use exact fractions `<<numerator, denominator>>`.  A z-score is
kept as its two parts, the offset from the mean and the spread, since it is
irrational in general and `(value - mean) / stdev` is determined by them.
What floats round is therefore not modelled.  In `Tripwire` a year has
`YearLength` months so that growth on the year, acceleration and a scored
growth rate fit in a small instance.  `MaxOdd` bounds how many readings are out
of the ordinary (`Odd`): late, revised, fetched the day before, null or zero.
A row of the tripwires table may lack its series, direction or threshold, and
may ask for any run length, as the columns allow.  The windows of 7 and 30 days
are `Week` and `Month`; returns are computed as of every day so far, whether the
benchmark traded on it or not.

## 3. Runs

One run for each question.

| Run | Question and bounds | Result |
|---|---|---|
| `ingest_census` | Two processes, one month of two series, two jobs, two figures published on one day: is every figure backed, does the inductive invariant hold, and does every job end? | holds |
| `ingest_walk` | Three jobs walk two months of the newest-month-only source over two days: do they leave one row for each vintage and implement `Vintages`, is every figure one the source served by then, every batch whole and every month accounted for, and is a day that is over final? | holds |
| `ingest_evidence` | Is a payload that fails to parse on record? | violated |
| `ingest_revision` | Is a figure that was fetched and committed on record? | violated |
| `membership` | Two baskets, two tickers, every release that can be written with them, four seeds, three days, midnight between the date and the commit of a seed: are members the listed ones, and does history read back? | holds |
| `membership_safe` | Can a boot fail on its own membership rows? | violated |
| `bootstrap` | A replica of the old and one of the new release, whose basket has one member more, on an empty database, over a midnight; five environments, a lag of one of two attempts, a process or the database lost once at any point, three restarts: is what serves ready, and is the newest release served in the end? | holds |
| `bootstrap_double` | Do overlapping boots write one row per series? | violated |
| `tripwire` | Six months, figures of 0, 1, 3 or none, one reading out of the ordinary, nine tripwires of every metric and both sides, among them one with a run length of zero and three without a threshold, a direction or a series: are charts and verdicts what their own months make them? | holds |
| `tripwire_gap` | Does a run of months contain only consecutive ones? | violated |
| `baskets` | Two constituents, one of which may close at zero, and a benchmark, each trading or not on four days that span a year's end; all windows as of all days | holds |
| `sources` | Two filings of nothing or of 1000, withheld or not, by the parties of each source in two months; every order of rows, every month asked: is what is recorded what was filed? | holds |

Why the bounds are enough.  Conflicts in `Ingest` and `Bootstrap` are between
pairs: a third process can only repeat what the second does to the first, and
the theorems of section 5 are for any number.  Two series are the least with
which two INSERTs can deadlock; in `ingest_walk` two days are the least with a
midnight inside a job and an earlier day to be settled; two edits give a first
figure and its revision (`ingest_walk`, with two values), or the two figures
over which INSERTs can deadlock (`ingest_census`, where one value is enough).
Membership needs three days for a spell that was opened and closed before a
third, and four seeds for add, drop, add, drop.  In `bootstrap` two days let a
seed read the date on one and commit on the other, and one member that only the
new release lists is the least with which a rolling deploy opens, closes and
opens a spell again.  Its lag is one attempt shorter than a preflight, as 71
seconds of waiting are meant to be; an outage in the middle of a preflight adds
to it, so that preflights of the right database fail too.  In `sources` two
filings put two countries into one total, a tracked beside an untracked one, or
one party into both months; the amounts are a zero and one that every unit
divides.  In `Tripwire` six months give a scored growth rate two predecessors
with `YearLength = 2` and `MinHistory = 2`, and room for a gap; one late
reading is what distinguishes arrival order from calendar order, and one zero
or null among them each of the code's guards of a division; `tripwire_gap`
allows two.  In `Baskets` with `MaxFill = 1` four days are the least for a
fill, a fresh close and a second fill, which tells a count that is reset from
one that is not.  The benchmark of the run never closes at zero, which
`BenchmarkReturn` allows and the proofs cover.

`CHECK_DEADLOCK FALSE` is set everywhere, because each system comes to rest:
jobs are bounded and calendars end, a booted service stays up.  That nothing
waits forever is what `Finishes` and `EventuallyServes` say.

`PROJECT.json` names, for every property of a passing run, a mutated
definition (the operators commented "Variant") that makes TLC find it violated.

### Fairness

`Ingest`: weak fairness of `Step(r)` for each process.  HTTP calls have
timeouts of 90 or 120 seconds, a statement that waits goes on when the other
transaction ends, and Postgres breaks deadlocks by itself.  Nothing is assumed
of the source, of who starts jobs, of midnight or of failures. `Bootstrap`:
weak fairness of `Boot(r)` for each replica: a command that can go on does, an
attempt of the preflight is answered or fails, for the driver gives up by
itself, and the platform restarts what exited with a failure until the retries
are used up.  No fairness of faults.

## 4. Findings

1. **A payload that fails to parse is not kept** (`ingest_evidence`).
   `ingest/base.py:7` promises that it is written before parsing "so a parser
   crash still leaves the evidence".  It is flushed, not committed, and
   `session_scope` rolls it back.
2. **A revision fetched on the day of the first vintage is lost**
   (`ingest_revision`).  The vintage is the day of the fetch, so the second
   figure meets the first one's key and the conflict clause keeps the old value.
3. **A ticker added, dropped and added again on one day stops the boot**
   (`membership_safe`).  Its second spell has the key of its first, and so has
   that of every further seed of the day.  A rolling deploy can meet it on its
   own: the new release seeds, the old one beside it seeds and drops the ticker,
   and a restart of the new one fails until the day or the restarts are over
   (`bootstrap` has it as "member clash").
4. **Overlapping boots write series twice** (`bootstrap_double`).  The
   registration in the start command does not take the lock that the README
   and `db.py:51` speak of, and the unique constraint sees two NULL partners
   as different.
5. **A gap does not end a run of months** (`tripwire_gap`).  The loop counts
   neighbours in the list, and a month without comparison is not in the list.

Observed, without a run of its own: a database URL that does not parse makes
`create_engine` raise outside of the preflight's `try`, so it ends in a
traceback, where `preflight.py:41` promises a ConfigError (`Misconfigured` has
it as "malformed").  A first lag that outlasts one preflight uses up a
restart; with a process lost besides, `EventuallyServes` fails.  With one old
and two new replicas and one lost process, a replica can lose three races and
be lost once, which is one failure more than its restarts cover, and
`EventuallyServes` fails.  With two replicas it holds, except for a replica
that fails on its members as in finding 3: the property leaves that case out.
A seed that reads its date before midnight and commits after it changes, once,
what the spells say of a day that is over (`seeds/load.py:74`, `db.py:34`);
`HistoryFaithful` says that this is the only way, and reaches no further back
than that date.  A basket that leaves `baskets.yaml` keeps its live members,
for the seed visits only the baskets that are listed.  Of `preflight.py`'s
twelve attempts the waits sum to 71 seconds, where the README and
`deploy/cron.md` say about 40.  The census job asks on the 10th for a month
whose figures appear about five weeks after its end (`deploy/cron.md:49,62`):
`Ingest` has this as a publication that comes after the job, which fails.  A
month of TWSE that failed and has rolled over cannot be collected again.
`ingest/base.py:87-89` describes the flag that keeps a unit value out as meant for
"an aggregate across origins whose product mix makes the ratio meaningless"; the
Census total sets it, the total of `comext_imports.py:217-225` does not, so it is
recorded with a unit value, which `UnitValues` states.  As of a day on which the
benchmark did not trade, every constituent of a basket counts as unpriced, and
a window of 7 days may start later than that of one day.

## 5. Proofs

`tlapm` checks every theorem below from nothing.  Assumptions are the
`...Assumption` of each module and no other.

Every property of a passing run is stated by a theorem, for every value of the
constants, except the two liveness properties.  The exact names are under
"theorems" in `PROJECT.json`.

| Module | Theorems | Rest on |
|---|---|---|
| `Ingest_proofs` | `TypeCorrect`, `UniqueVintages`, `Evidence`, `NoPartialBatch`, `Implements`, `NoGuess`, `NothingUnreported`, `PastIsFinal` | `IInv`, `SeenInv` |
| `Sources_proofs` | `TypeCorrect`, `SeriesOnce`, `FiguresAsFiled`, `NoValueLost`, `Prices`, `TotalsReconcile` | `IInv`, `TotalInv`, `ShapeInv` |
| `Membership_proofs` | `TypeCorrect`, `Reconciled`, `NoOverlap`, `HistoryReadsBack`, `SpellsKept` | `IInv` |
| `Bootstrap_proofs` | `TypeCorrect`, `Ready`, `SeedsSerial`, `NodesBeforeSeries`, `OriginUnique`, `FailuresApart` | `IInv` |
| `Tripwire_proofs` | `TypeCorrect`, `NoLookAhead`, `OneSide`, `RunsGoOn`, `VerdictSettled`, `Calibrated` | `TypeOK` |
| `Baskets_proofs` | `TypeCorrect`, `FreshPrices`, `StartsNested`, `NothingAhead`, `MissingAttributed`, `ReturnWithin` | `TypeOK` |
| `Induction`, `Sums` | lemmas only | - |

**`Ingest_proofs`.**  `Invariant`: `Spec => []IInv`.  Neither
`OneRowPerVintage` nor `Backed` is inductive: a commit merges the rows of
an open transaction, so what is true of those must be known.  `IInv` adds
`DirtyInv` (uncommitted rows are of the transaction's month and day, agree
with committed rows of the same key, and no two transactions hold the same
key), `InsertInv` (what was placed and what is still to be placed make up the
payload, each series once), `PayloadInv` (one figure for each series, no
garbled payload beyond parsing), `ClockInv` and `BusyInv`.  `TypeCorrect`,
`UniqueVintages`, `Evidence` and `NoPartialBatch` follow, and `Implements`:
the jobs refine `Vintages`, where a commit maps to `Record` or a stutter,
midnight to `NextDay` and everything else to a stutter.

Three more need `IInv` at every step.  `NoGuess`: what the source has shown
only grows, so a figure that it served on the day of the request or later stays
one; `SeenInv` says this of the source's figures, of the payload in each open
transaction and of the committed rows, which is the way a figure takes.
`NothingUnreported`: the months of a job are its report, its queue and the one
in work, and only a commit moves a month into "ingested", with its rows.
`PastIsFinal`: a commit dates its rows by its request, so one whose request
came after a day adds nothing that is read as of that day.

**`Sources_proofs`.**  `Inductive`: `Spec => []IInv`, for any parties, groups,
codes and amounts that `SourcesAssumption` allows.  `IInv` says of every place
in the code which answer is being read (`AnswerInv`), that a series which has
been yielded is neither among the rows left nor in the pivot (`PendingInv`),
that the pivot holds all numbers of a partner or none (`PivotInv`), and that a
row that was read has left its mark (`DoneInv`).  From it follow `SeriesOnce`,
`FiguresAsFiled` and `NoValueLost`.

`TotalsReconcile` needs `TotalInv` besides: the filings are finitely many and
by parties of the source, the world row of Census is kept from when it is read
until it is yielded and is the sum of all filings, and a total that was yielded
is the sum it stands for.  A sum of amounts is whole in the unit of
publication, because each of its terms is (`SumIsWhole`), so that what the
source divided and the fetcher multiplies is the sum again (`TotalExact`).
`Prices` (unit values) rests on both invariants, for a party's price and for
that of the Comext total.  `TypeCorrect` needs what a yielded observation is
made of (`ShapeInv`).

**`Membership_proofs`.**  `Invariant`, from which `TypeCorrect`, `Reconciled`,
`NoOverlap` and `HistoryReadsBack` follow, for any releases and any order of
boots.  `HistoryFaithful` needs `OneSeed` (the lock) and `Dated`: no date in the
table is later than that of a seed which is open.  So a seed, which writes no
date but the one it read, leaves what is read of every day before that date,
and what is read of the later ones is what it sets.  `SpellsKept` is the action
property.

**`Bootstrap_proofs`.**  `Invariant` adds to the properties what each phase
provides (`Migrated`, `Seeded`, `Registered`), that the lock makes what a seed
has read still true when it writes (`Serial`), and that an uncommitted row of a
series with partner is the only one (`OneInserter`).  `Ready`, `SeedsSerial`,
`NodesBeforeSeries` and `OriginUnique` follow, for any number of replicas,
releases and faults.  `FailuresApart` and `TypeCorrect` rest on `Reached`: a
preflight has attempts left and whoever is past it was given the right
database; `UrlIsAForm` is the lemma about the order of the forms.

**`Tripwire_proofs`.**  What a tripwire says is computed from the readings
anew, so the proofs are about the operators, in a state or in two that a step
connects.  `NoLookAhead`: whatever is recorded from a month on leaves every
chart before that month as it was, for any lengths of year, history and
smoothing, by one lemma per derived series.  `OneSide`: two runs that are not
empty have a point in common, and the newest point is in every run that is not
empty, so what trips is on its side of the threshold.  `RunsGoOn`: a reading
for the newest month leaves the metric before it as it was and adds at most a
point at its end. `VerdictSettled` is the converse: the metric after a month,
plus how far the metric reaches back, does not depend on that month, and a run
is made of the points after the last one that ends it (`SameGrade`).
`Calibrated`: mean, offset and spread of a history are folds; `LouderSums` says
how they follow three times the values plus one, and `ScoreArithmetic` that the
fractions then agree, numerator and denominator; that no denominator is zero
follows from the guards of the code alone.

**`Baskets_proofs`.**  The walk over the calendar is a recursive function.
`CarriedIs` shows that the function exists, `CarriedFrom` that each entry is
the newest close so far and how many sessions old it is, both by induction up
to the calendar's length, and `CarriedPrefix` that a walk over more sessions
agrees on the earlier ones.  `FreshPrices`, `NothingAhead` and
`MissingAttributed` follow from these; `StartsNested` from `StartPlace`, which
says for each window at which place of the calendar it starts, and from
`BetweenIs`, which counts the sessions between two places; `MissingAttributed`
also from `ReturnsCounted`: when as many constituents have a return as there
are, each has one; `ReturnWithin` from `MeanBetween` of `Sums`, once every
return is a fraction with a positive denominator.  The calendar increases
(`CalendarIncreasing`), as days are appended in their order.

**`Induction` and `Sums`.**  The library's induction theorems have an operator
for a parameter, which the provers at hand cannot instantiate.  `Induction` states
them with a set in the operator's place (`UpwardInduction`, `GreatestBelow`,
`FiniteInduction`) and proves them from the well-foundedness of `<`. `Sums` does
the same for the subsets of a finite set, and shows that the folds of the
community modules, which take elements in the order of `CHOOSE`, have values
and may take them in any order (`Folded`), so that sums split, follow a renaming
and are linear, and that a mean lies between its values.

Only model-checked: `Finishes` and `EventuallyServes`, since liveness under
fairness is out of the prover's reach.  The properties of the runs that expect a
violation are false, so there is nothing to prove of them.

## 6. Plan

Done: the store and the jobs, the sources row by row, membership, the boot
with its preflight, derived series and tripwires, basket returns; the proofs
above.  Left, in this order:

1. Proofs toward liveness that are safety: that every step of a job brings it
   nearer to its end, so that only scheduling is left to TLC; that a run of a
   tripwire is as long as the verdict counts.
2. API readers: a list of tripwires graded by several statements while a job
   commits; the stored basket return beside live members.

New properties go into the runs that exist wherever these reach the
behaviour.

## 7. Not modelled

- `api/interpretation.py`, `schemas/`, `logging.py`, the keys and levels in
  `config.py`, `src/dashboard.html`: texts, shapes and settings without state
  changes.
- `nodes`, `health`, filters and the overlap matrix of the API: single reads.
- `jmtba_orders.py`, `nbs_robot_output.py`, `equity_prices.py`: they raise
  before fetching.  The tables for prices, FX rates and stored returns have
  no writer, and nothing but the tests calls `compute_basket_return`.
- The DDL of each migration and the wording of log lines.  The text of an
  answer (JSON, CSV): `Sources` starts from its rows; a text or a header that
  cannot be read is refused by `Open`, a row by `Malformed`.  An answer of TWSE
  that mixes months, which the endpoint is not known to give, would be filed
  under its first record's month.
- Securities, nodes and baskets in `seeds/load.py` beyond their unique names:
  their attributes are overwritten by every boot.
