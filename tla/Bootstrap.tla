----------------------------- MODULE Bootstrap ------------------------------
(***************************************************************************)
(* The boot of the web service (railway.json, startCommand):               *)
(*   preflight && alembic upgrade head && seeds.load                       *)
(*             && scheduler.run register && uvicorn                        *)
(* run by several replicas at once against one database.  A command that   *)
(* fails ends the boot, and the container is restarted from the first one. *)
(* The preflight finds the database in the environment and waits for it;   *)
(* each command after it is one transaction.  The seed takes the bootstrap *)
(* lock and the registration of the series does not.  Left out: how long   *)
(* anything takes, the columns of a row, and a release that contradicts    *)
(* itself (a basket of unknown tickers).                                   *)
(***************************************************************************)
EXTENDS Integers, Sequences, FiniteSets

CONSTANTS
  Replica,     \* containers of the web service
  Reference,   \* the reference rows: nodes, securities, baskets, by unique name
  SeriesSpec,  \* series specs the fetchers declare
  NullPartner, \* the specs with no partner_geography
  NodeOf,      \* the node of each spec
  HeadOf,      \* the newest migration in each replica's release
  RowsOf,      \* the reference rows in each replica's release
  Member,      \* what baskets.yaml may list: a ticker in a basket
  BasketOf,    \* the basket of each
  MembersOf,   \* the members that each replica's release lists
  AttrsOf,     \* what else its specs say of a series, as a number
  SpecsOf,     \* the specs of each replica's release, in the order of FETCHERS
  EnvsOf,      \* the environments each replica may be given
  Schema0, Rows0, Series0,  \* the database as earlier releases left it
  LastDay,     \* bound: the last day of the calendar
  MaxAttempts, \* MAX_ATTEMPTS of the preflight
  MaxRetries,  \* restartPolicyMaxRetries
  MaxFaults,   \* bound: how many times a process or the database is lost
  MaxDown      \* bound: how many attempts of a preflight the database misses

(* The settings that lead to a database.  A setting left blank counts as    *)
(* unset; one that is set leads to the database, elsewhere, or nowhere.     *)
Part == {"PGHOST", "PGUSER", "PGDATABASE"}
Env == [{"DATABASE_URL", "DATABASE_PUBLIC_URL"} \cup Part ->
          {"unset", "right", "elsewhere", "malformed"}]

ASSUME BootstrapAssumption ==
  /\ NullPartner \subseteq SeriesSpec
  /\ NodeOf \in [SeriesSpec -> Reference]
  /\ HeadOf \in [Replica -> Nat]
  /\ RowsOf \in [Replica -> SUBSET Reference]
  /\ BasketOf \in [Member -> Reference]
  /\ MembersOf \in [Replica -> SUBSET Member]
  /\ \A r \in Replica : \A m \in MembersOf[r] : BasketOf[m] \in RowsOf[r]
  /\ AttrsOf \in [Replica -> Nat]
  /\ LastDay \in Nat
  /\ SpecsOf \in [Replica -> Seq(SeriesSpec)]
  /\ EnvsOf \in [Replica -> SUBSET Env]
  /\ \A r \in Replica : \A i, j \in 1..Len(SpecsOf[r]) :
       SpecsOf[r][i] = SpecsOf[r][j] => i = j
  /\ Schema0 \in Nat /\ Rows0 \subseteq Reference /\ Series0 \in [SeriesSpec -> Nat]
  /\ \A s \in SeriesSpec \ NullPartner : Series0[s] <= 1
  /\ MaxAttempts \in Nat \ {0} /\ MaxRetries \in Nat
  /\ MaxFaults \in Nat /\ MaxDown \in Nat

VARIABLES
  schema,   \* committed: the migration the database is at
  rows,     \* committed: the reference rows
  series,   \* committed: how many rows of series each spec has
  attrs,    \* committed: what else the series of each spec says
  members,  \* committed: who has an open spell in basket_members
  begun,    \* committed: member and first day of every spell, its unique key
  today,    \* date.today() of the containers
  env,      \* the environment of each container
  down,     \* how many of its next attempts the database will not answer
  attempt,  \* how many attempts of its preflight have failed
  phase,    \* what each container is doing
  retries,  \* how often it has been restarted
  cause,    \* why its last boot ended
  version,  \* the migration its alembic read
  existing, \* the reference rows its seed read
  date,     \* the date its seed read
  pos,      \* the spec its registration is at
  mine,     \* the specs it has inserted and not committed
  edited,   \* the specs whose row it has updated and not committed
  faults    \* how often a process or the database was lost

database == <<schema, rows, series, attrs, members, begun, today>>
reach == <<env, down, attempt>>
local == <<version, existing, date, pos, mine, edited>>
vars == <<schema, rows, series, attrs, members, begun, today, env, down, attempt, phase,
          retries, cause, version, existing, date, pos, mine, edited, faults>>

Day == 0..LastDay

Phase == {"preflight", "alembic", "upgrade", "ddl", "lock", "read", "write",
          "select", "insert", "serving", "exited", "given up"}

Cause == {"none", "not configured", "malformed", "unreachable", "fault",
          "migration race", "unknown revision", "seed clash",
          "member clash", "unknown node", "series clash"}

TypeOK ==
  /\ schema \in Nat
  /\ rows \subseteq Reference
  /\ series \in [SeriesSpec -> Nat]
  /\ attrs \in [SeriesSpec -> Nat]
  /\ members \subseteq Member
  /\ begun \subseteq Member \X Day
  /\ today \in Day
  /\ env \in [Replica -> Env]
  /\ down \in [Replica -> 0..MaxDown]
  /\ attempt \in [Replica -> 0..MaxAttempts]
  /\ phase \in [Replica -> Phase]
  /\ retries \in [Replica -> 0..MaxRetries]
  /\ cause \in [Replica -> Cause]
  /\ version \in [Replica -> Nat]
  /\ existing \in [Replica -> SUBSET Reference]
  /\ date \in [Replica -> Day]
  /\ pos \in [Replica -> Nat \ {0}]
  /\ \A r \in Replica : pos[r] <= Len(SpecsOf[r]) + 1
  /\ mine \in [Replica -> SUBSET SeriesSpec]
  /\ edited \in [Replica -> SUBSET SeriesSpec]
  /\ faults \in 0..MaxFaults

Init ==
  /\ schema = Schema0 /\ rows = Rows0 /\ series = Series0
  /\ attrs = [s \in SeriesSpec |-> 0]
  /\ members = {} /\ begun = {} /\ today = 0
  /\ env \in [Replica -> UNION {EnvsOf[r] : r \in Replica}]
  /\ \A r \in Replica : env[r] \in EnvsOf[r]
  /\ \E n \in 0..MaxDown : down = [r \in Replica |-> n]
  /\ attempt = [r \in Replica |-> 0]
  /\ phase = [r \in Replica |-> "preflight"]
  /\ retries = [r \in Replica |-> 0]
  /\ cause = [r \in Replica |-> "none"]
  /\ version = [r \in Replica |-> 0]
  /\ existing = [r \in Replica |-> {}]
  /\ date = [r \in Replica |-> 0]
  /\ pos = [r \in Replica |-> 1]
  /\ mine = [r \in Replica |-> {}]
  /\ edited = [r \in Replica |-> {}]
  /\ faults = 0

Go(r, p) == phase' = [phase EXCEPT ![r] = p]

\* The command fails: its transaction rolls back and the boot ends.
Exit(r, why) ==
  /\ Go(r, "exited")
  /\ cause' = [cause EXCEPT ![r] = why]
  /\ mine' = [mine EXCEPT ![r] = {}]
  /\ edited' = [edited EXCEPT ![r] = {}]

-----------------------------------------------------------------------------
\* The URL made of PGHOST, PGUSER and PGDATABASE: user and password are quoted,
\* so it is well-formed.
FromParts(e) == IF \A p \in Part : e[p] = "right" THEN "right" ELSE "elsewhere"

\* Variant: PGHOST is enough.
resolve_database_url_host(e) ==
  IF e["DATABASE_URL"] # "unset" THEN e["DATABASE_URL"]
  ELSE IF e["PGHOST"] # "unset" THEN FromParts(e)
  ELSE IF e["DATABASE_PUBLIC_URL"] # "unset" THEN e["DATABASE_PUBLIC_URL"]
  ELSE "none"

\* The first of the three forms that is complete.
resolve_database_url(e) ==
  IF e["DATABASE_URL"] # "unset" THEN e["DATABASE_URL"]
  ELSE IF \A p \in Part : e[p] # "unset" THEN FromParts(e)
  ELSE IF e["DATABASE_PUBLIC_URL"] # "unset" THEN e["DATABASE_PUBLIC_URL"]
  ELSE "none"

Url(r) == resolve_database_url(env[r])

\* No form is complete, or create_engine cannot parse the URL: the preflight
\* ends before its first attempt.
Misconfigured(r) ==
  /\ phase[r] = "preflight"
  /\ \/ Url(r) = "none" /\ Exit(r, "not configured")
     \/ Url(r) = "malformed" /\ Exit(r, "malformed")
  /\ UNCHANGED <<database, reach, version, existing, date, pos, retries, faults>>

\* SELECT 1 is not answered: after a pause the next attempt, if there is one.
Unanswered(r) ==
  /\ phase[r] = "preflight"
  /\ Url(r) \in {"right", "elsewhere"}
  /\ Url(r) = "right" => down[r] > 0
  /\ attempt' = [attempt EXCEPT ![r] = attempt[r] + 1]
  /\ down' = [down EXCEPT ![r] = IF down[r] > 0 THEN down[r] - 1 ELSE 0]
  /\ IF attempt[r] + 1 < MaxAttempts
     THEN UNCHANGED <<phase, cause, mine, edited>>
     ELSE Exit(r, "unreachable")
  /\ UNCHANGED <<database, env, version, existing, date, pos, retries, faults>>

\* SELECT 1 is answered.
Answered(r) ==
  /\ phase[r] = "preflight"
  /\ Url(r) = "right" /\ down[r] = 0
  /\ Go(r, "alembic")
  /\ UNCHANGED <<database, reach, local, retries, cause, faults>>

\* alembic reads the version.  A revision that is not in this release stops it.
ReadVersion(r) ==
  /\ phase[r] = "alembic"
  /\ version' = [version EXCEPT ![r] = schema]
  /\ UNCHANGED <<database, reach, existing, date, pos, retries, faults>>
  /\ \/ schema > HeadOf[r] /\ Exit(r, "unknown revision")
     \/ schema = HeadOf[r] /\ Go(r, "lock") /\ UNCHANGED <<cause, mine, edited>>
     \/ schema < HeadOf[r] /\ Go(r, "upgrade") /\ UNCHANGED <<cause, mine, edited>>

\* Variant: the DDL of two replicas goes on side by side.
Upgrade_noWait(r) ==
  /\ phase[r] = "upgrade"
  /\ UNCHANGED <<database, reach, version, existing, date, pos, retries, faults>>
  /\ \/ schema = version[r] /\ Go(r, "ddl") /\ UNCHANGED <<cause, mine, edited>>
     \/ schema # version[r] /\ Exit(r, "migration race")

\* Its DDL waits for another's, and fails on what that one has committed.
Upgrade(r) ==
  /\ phase[r] = "upgrade"
  /\ \A q \in Replica : phase[q] # "ddl"
  /\ UNCHANGED <<database, reach, version, existing, date, pos, retries, faults>>
  /\ \/ schema = version[r] /\ Go(r, "ddl") /\ UNCHANGED <<cause, mine, edited>>
     \/ schema # version[r] /\ Exit(r, "migration race")

\* Variant: the series are registered before the seed.
CommitUpgrade_noSeed(r) ==
  /\ phase[r] = "ddl"
  /\ schema' = HeadOf[r]
  /\ Go(r, "select")
  /\ UNCHANGED <<rows, series, attrs, members, begun, today, reach, local, retries, cause,
                 faults>>

\* All pending migrations are one transaction.
CommitUpgrade(r) ==
  /\ phase[r] = "ddl"
  /\ schema' = HeadOf[r]
  /\ Go(r, "lock")
  /\ UNCHANGED <<rows, series, attrs, members, begun, today, reach, local, retries, cause,
                 faults>>

-----------------------------------------------------------------------------
LockHeld == \E q \in Replica : phase[q] \in {"read", "write"}

\* Variant: pg_try_advisory_xact_lock, its answer not looked at.
AcquireLock_try(r) ==
  /\ phase[r] = "lock"
  /\ Go(r, "read")
  /\ UNCHANGED <<database, reach, local, retries, cause, faults>>

\* pg_advisory_xact_lock: held until the seed commits or rolls back.
AcquireLock(r) ==
  /\ phase[r] = "lock"
  /\ ~LockHeld
  /\ Go(r, "read")
  /\ UNCHANGED <<database, reach, local, retries, cause, faults>>

\* The seed reads what exists, SELECTs after the lock was granted, and the date.
SeedRead(r) ==
  /\ phase[r] = "read"
  /\ existing' = [existing EXCEPT ![r] = rows]
  /\ date' = [date EXCEPT ![r] = today]
  /\ Go(r, "write")
  /\ UNCHANGED <<database, reach, version, pos, mine, edited, retries, cause, faults>>

\* The members to open a spell for, and those whose spell it closes: of the
\* baskets in the release, the ones not listed (module Membership).
Joining(r) == MembersOf[r] \ members
Leaving(r) == {m \in members \ MembersOf[r] : BasketOf[m] \in RowsOf[r]}

\* uq_basket_member_spell: a spell of the member began on the seed's date.
MemberClash(r) == \E m \in Joining(r) : <<m, date[r]>> \in begun

\* It inserts the rows it did not find, reconciles the members of its baskets
\* and commits, or meets a row, or the key of a spell, that is there.
SeedWrite(r) ==
  LET new == RowsOf[r] \ existing[r] IN
  /\ phase[r] = "write"
  /\ UNCHANGED <<schema, series, attrs, today, reach, version, existing, date, retries, faults>>
  /\ \/ /\ new \cap rows = {} /\ ~MemberClash(r)
        /\ rows' = rows \cup new
        /\ members' = (members \ Leaving(r)) \cup Joining(r)
        /\ begun' = begun \cup {<<m, date[r]>> : m \in Joining(r)}
        /\ Go(r, "select")
        /\ pos' = [pos EXCEPT ![r] = 1]
        /\ UNCHANGED <<cause, mine, edited>>
     \/ /\ \/ new \cap rows # {} /\ Exit(r, "seed clash")
           \/ new \cap rows = {} /\ MemberClash(r) /\ Exit(r, "member clash")
        /\ UNCHANGED <<rows, members, begun, pos>>

-----------------------------------------------------------------------------
ThisSpec(r) == SpecsOf[r][pos[r]]

\* Variant: the query forgets the name of the series.
Found_noName(r) ==
  \E s \in SeriesSpec : series[s] > 0 /\ (s \in NullPartner <=> ThisSpec(r) \in NullPartner)

\* Is there a row for the spec: committed, as its own are not repeated.
Found(r) == series[ThisSpec(r)] > 0

\* What a row says is set to what the release says of it.  If that changes it,
\* the UPDATE waits for another's that is not committed.
Edit(r, s) ==
  \/ attrs[s] = AttrsOf[r] /\ UNCHANGED edited
  \/ /\ attrs[s] # AttrsOf[r]
     /\ \A q \in Replica \ {r} : s \notin edited[q]
     /\ edited' = [edited EXCEPT ![r] = edited[r] \cup {s}]

\* register_spec looks up the node and the row of the next spec, and edits the
\* row if there is one.
RegisterSelect(r) ==
  /\ phase[r] = "select" /\ pos[r] <= Len(SpecsOf[r])
  /\ UNCHANGED <<database, reach, version, existing, date, retries, faults>>
  /\ \/ /\ NodeOf[ThisSpec(r)] \notin rows
        /\ Exit(r, "unknown node")
        /\ UNCHANGED pos
     \/ /\ NodeOf[ThisSpec(r)] \in rows
        /\ Found(r)
        /\ Edit(r, ThisSpec(r))
        /\ pos' = [pos EXCEPT ![r] = pos[r] + 1]
        /\ UNCHANGED <<phase, cause, mine>>
     \/ /\ NodeOf[ThisSpec(r)] \in rows
        /\ ~Found(r)
        /\ Go(r, "insert")
        /\ UNCHANGED <<pos, cause, mine, edited>>

\* Variant: the INSERT does not wait for a row that is not committed.
RegisterInsert_noWait(r) ==
  LET s == ThisSpec(r) IN
  /\ phase[r] = "insert"
  /\ UNCHANGED <<database, reach, version, existing, date, retries, faults>>
  /\ \/ /\ s \in NullPartner \/ series[s] = 0
        /\ mine' = [mine EXCEPT ![r] = mine[r] \cup {s}]
        /\ pos' = [pos EXCEPT ![r] = pos[r] + 1]
        /\ Go(r, "select")
        /\ UNCHANGED <<cause, edited>>
     \/ /\ s \notin NullPartner /\ series[s] > 0
        /\ Exit(r, "series clash")
        /\ UNCHANGED pos

\* uq_series_ident: an INSERT waits for another's uncommitted row and fails on
\* a committed one.  To the constraint two NULLs differ, so a spec without a
\* partner neither waits nor fails.
RegisterInsert(r) ==
  LET s == ThisSpec(r) IN
  /\ phase[r] = "insert"
  /\ s \in NullPartner \/ \A q \in Replica : s \notin mine[q]
  /\ UNCHANGED <<database, reach, version, existing, date, retries, faults>>
  /\ \/ /\ s \in NullPartner \/ series[s] = 0
        /\ mine' = [mine EXCEPT ![r] = mine[r] \cup {s}]
        /\ pos' = [pos EXCEPT ![r] = pos[r] + 1]
        /\ Go(r, "select")
        /\ UNCHANGED <<cause, edited>>
     \/ /\ s \notin NullPartner /\ series[s] > 0
        /\ Exit(r, "series clash")
        /\ UNCHANGED pos

\* The registration commits and uvicorn starts.
Serve(r) ==
  /\ phase[r] = "select" /\ pos[r] > Len(SpecsOf[r])
  /\ series' = [s \in SeriesSpec |-> series[s] + (IF s \in mine[r] THEN 1 ELSE 0)]
  /\ attrs' = [s \in SeriesSpec |-> IF s \in mine[r] \cup edited[r] THEN AttrsOf[r] ELSE attrs[s]]
  /\ mine' = [mine EXCEPT ![r] = {}]
  /\ edited' = [edited EXCEPT ![r] = {}]
  /\ Go(r, "serving")
  /\ UNCHANGED <<schema, rows, members, begun, today, reach, version, existing, date, pos,
                 retries, cause, faults>>

-----------------------------------------------------------------------------
\* A process is lost: killed, or its connection dropped.
Fault(r) ==
  /\ faults < MaxFaults
  /\ phase[r] \notin {"exited", "given up"}
  /\ faults' = faults + 1
  /\ Exit(r, "fault")
  /\ UNCHANGED <<database, reach, version, existing, date, pos, retries>>

\* The replicas that are at a command which talks to the database.
Talking == {r \in Replica : phase[r] \notin {"preflight", "serving", "exited", "given up"}}

\* The database is lost for n attempts of a preflight: whoever talks to it
\* fails.  uvicorn serves on, its pool connects again (pool_pre_ping).
Outage(n) ==
  /\ faults < MaxFaults
  /\ faults' = faults + 1
  /\ down' = [r \in Replica |-> n]
  /\ phase' = [r \in Replica |-> IF r \in Talking THEN "exited" ELSE phase[r]]
  /\ cause' = [r \in Replica |-> IF r \in Talking THEN "fault" ELSE cause[r]]
  /\ mine' = [r \in Replica |-> IF r \in Talking THEN {} ELSE mine[r]]
  /\ edited' = [r \in Replica |-> IF r \in Talking THEN {} ELSE edited[r]]
  /\ UNCHANGED <<database, env, attempt, version, existing, date, pos, retries>>

\* Variant: one restart too few is allowed.
Restart_oneLess(r) ==
  /\ phase[r] = "exited"
  /\ IF retries[r] + 1 < MaxRetries
     THEN /\ retries' = [retries EXCEPT ![r] = retries[r] + 1]
          /\ attempt' = [attempt EXCEPT ![r] = 0]
          /\ Go(r, "preflight")
     ELSE Go(r, "given up") /\ UNCHANGED <<retries, attempt>>
  /\ UNCHANGED <<database, env, down, local, cause, faults>>

\* ON_FAILURE, at most MaxRetries times.
Restart(r) ==
  /\ phase[r] = "exited"
  /\ IF retries[r] < MaxRetries
     THEN /\ retries' = [retries EXCEPT ![r] = retries[r] + 1]
          /\ attempt' = [attempt EXCEPT ![r] = 0]
          /\ Go(r, "preflight")
     ELSE Go(r, "given up") /\ UNCHANGED <<retries, attempt>>
  /\ UNCHANGED <<database, env, down, local, cause, faults>>

Midnight ==
  /\ today < LastDay
  /\ today' = today + 1
  /\ UNCHANGED <<schema, rows, series, attrs, members, begun, reach, phase, retries, cause,
                 local, faults>>

Boot(r) ==
  \/ Misconfigured(r) \/ Unanswered(r) \/ Answered(r)
  \/ ReadVersion(r) \/ Upgrade(r) \/ CommitUpgrade(r)
  \/ AcquireLock(r) \/ SeedRead(r) \/ SeedWrite(r)
  \/ RegisterSelect(r) \/ RegisterInsert(r) \/ Serve(r)
  \/ Restart(r)

Next ==
  \/ \E r \in Replica : Boot(r) \/ Fault(r)
  \/ \E n \in 0..MaxDown : Outage(n)
  \/ Midnight

Spec == Init /\ [][Next]_vars

\* Every process goes on, an attempt ends by its timeout at the latest, and the
\* platform restarts what exits; nothing has to be lost.
FairSpec == Spec /\ \A r \in Replica : WF_vars(Boot(r))

-----------------------------------------------------------------------------
\* A replica serves only on a schema, reference rows and series that are at
\* least its release's.
ServingReady ==
  \A r \in Replica : phase[r] = "serving" =>
    /\ schema >= HeadOf[r]
    /\ RowsOf[r] \subseteq rows
    /\ \A i \in 1..Len(SpecsOf[r]) : series[SpecsOf[r][i]] > 0

\* db.py:60: seeds that overlap do not race on the unique constraints.
SeedNeverClashes == \A r \in Replica : cause[r] # "seed clash"

\* Registration finds the nodes of a release that lists them.
NodesFirst ==
  \A r \in Replica :
    (\A i \in 1..Len(SpecsOf[r]) : NodeOf[SpecsOf[r][i]] \in RowsOf[r])
      => cause[r] # "unknown node"

\* A by-origin series has one row, however many registrations overlap.
ByOriginOnce == \A s \in SeriesSpec \ NullPartner : series[s] <= 1

\* The forms of the environment that are complete, in no order.
Forms(e) ==
  ({e["DATABASE_URL"], e["DATABASE_PUBLIC_URL"]} \ {"unset"})
    \cup (IF \E p \in Part : e[p] = "unset" THEN {} ELSE {FromParts(e)})

\* preflight.py:3: a missing setting and an unreachable database stay apart.
\* "Not configured" is what a boot without a complete form ends with, and no
\* other; "unreachable" has used up the attempts; and whoever is past the
\* preflight was given the right database.
Diagnosed ==
  \A r \in Replica :
    /\ phase[r] \in {"exited", "given up"} =>
         /\ cause[r] = "not configured" => Forms(env[r]) = {}
         /\ Forms(env[r]) = {} => cause[r] \in {"not configured", "fault"}
         /\ cause[r] = "unreachable" => attempt[r] = MaxAttempts
         /\ cause[r] = "malformed" => "malformed" \in Forms(env[r])
    /\ phase[r] \notin {"preflight", "exited", "given up"} => "right" \in Forms(env[r])

\* The attempts and the retries cover the races and the outages a boot can
\* lose: a replica of the newest release whose first complete form is right is
\* in the end served, and stays so.  What they do not cover is a member that
\* releases add, drop and add again on one day (module Membership, SeedIsSafe).
Newest(r) == \A q \in Replica : HeadOf[q] <= HeadOf[r]

EventuallyServes ==
  \A r \in Replica :
    Newest(r) /\ Url(r) = "right" =>
      <>[](phase[r] = "serving") \/ <>(cause[r] = "member clash")
-----------------------------------------------------------------------------
(***************************************************************************)
(* The inductive invariant.                                                *)
(***************************************************************************)

\* Whoever runs DDL is alone, and ahead of the version it has read.
Upgrading ==
  \A r \in Replica :
    /\ phase[r] \in {"upgrade", "ddl"} => version[r] < HeadOf[r]
    /\ phase[r] = "ddl" =>
         /\ schema = version[r]
         /\ \A q \in Replica : phase[q] = "ddl" => q = r

\* A preflight has attempts left; a boot that is past it has found the database.
Reached ==
  \A r \in Replica :
    /\ phase[r] = "preflight" => attempt[r] < MaxAttempts
    /\ phase[r] \notin {"preflight", "exited", "given up"} => Url(r) = "right"

\* A boot that is past a command has what that command provides.
Migrated ==
  \A r \in Replica :
    phase[r] \in {"lock", "read", "write", "select", "insert", "serving"}
      => schema >= HeadOf[r]

Seeded ==
  \A r \in Replica :
    phase[r] \in {"select", "insert", "serving"} => RowsOf[r] \subseteq rows

Registered ==
  \A r \in Replica :
    /\ phase[r] \in {"select", "insert"} =>
         \A i \in 1..(pos[r] - 1) : series[SpecsOf[r][i]] > 0 \/ SpecsOf[r][i] \in mine[r]
    /\ phase[r] = "insert" => pos[r] <= Len(SpecsOf[r])

\* One seed at a time, so what it read is still so when it writes.
Serial ==
  \A r \in Replica :
    /\ phase[r] \in {"read", "write"} =>
         \A q \in Replica : phase[q] \in {"read", "write"} => q = r
    /\ phase[r] = "write" => existing[r] = rows

\* A by-origin row that is not committed is the only one of its spec.
OneInserter ==
  \A r \in Replica : \A s \in mine[r] \ NullPartner :
    /\ series[s] = 0
    /\ \A q \in Replica : s \in mine[q] => q = r

IInv ==
  /\ TypeOK /\ Upgrading /\ Migrated /\ Seeded /\ Registered /\ Serial /\ OneInserter
  /\ ServingReady /\ SeedNeverClashes /\ NodesFirst /\ ByOriginOnce /\ Diagnosed /\ Reached

(***************************************************************************)
(* What the documents say and the code does not do.                        *)
(***************************************************************************)

\* README.md:267 "It is idempotent and guarded by a Postgres advisory lock, so
\* overlapping boots across replicas cannot double-write."  db.py:51 names
\* "the bootstrap (seed + series register) critical section".  Each spec has
\* one row of series.
NoDoubleWrite == \A s \in SeriesSpec : series[s] <= 1
=============================================================================
