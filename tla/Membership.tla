----------------------------- MODULE Membership -----------------------------
(***************************************************************************)
(* Basket membership: every boot runs seeds/load.py, which reconciles the  *)
(* basket_members table with the baskets.yaml of the release that boots.   *)
(* A membership is a spell, closed with removed_at and never deleted.  A   *)
(* seed is one transaction: it reads the date once it holds the bootstrap  *)
(* lock (module Bootstrap), which it keeps to its end, and commits later,  *)
(* so midnight may fall in between and no other seed may.                  *)
(***************************************************************************)
EXTENDS Integers, FiniteSets

CONSTANTS
  Basket,      \* basket names
  Ticker,      \* tickers of securities.yaml
  Releases,    \* the baskets.yaml of every release: basket -> its members
  NotRemoved,  \* the NULL of removed_at
  LastDay,     \* bound: the last day of the calendar
  MaxSeeds     \* bound: how many seeds run

ASSUME MembershipAssumption ==
  /\ \A rel \in Releases : /\ DOMAIN rel \subseteq Basket
                           /\ \A b \in DOMAIN rel : rel[b] \subseteq Ticker
  /\ NotRemoved \notin Nat
  /\ LastDay \in Nat /\ MaxSeeds \in Nat

VARIABLES
  today,    \* date.today() of the containers
  spells,   \* the rows of basket_members
  open,     \* the seed that holds the lock, if any: its release and its date
  release,  \* what the last successful seed had in baskets.yaml
  outcome,  \* how the last seed ended
  seeds,    \* how many seeds have run
  eod       \* history: the members each day that is over was left with

vars == <<today, spells, open, release, outcome, seeds, eod>>

Day == 0..LastDay
Pair == Basket \X Ticker
Spell == [basket : Basket, ticker : Ticker, added : Day,
          removed : Day \cup {NotRemoved}]
Seeding == [release : Releases, date : Day]

TypeOK ==
  /\ today \in Day
  /\ spells \subseteq Spell
  /\ open \subseteq Seeding
  /\ DOMAIN release \subseteq Basket
  /\ \A b \in DOMAIN release : release[b] \subseteq Ticker
  /\ outcome \in {"none", "ok", "failed", "lost"}
  /\ seeds \in 0..MaxSeeds
  /\ eod \in [Day -> SUBSET Pair]

-----------------------------------------------------------------------------
\* The open spells of basket b, and the tickers they are for.
OpenSpells(b) == {s \in spells : s.basket = b /\ s.removed = NotRemoved}

\* Variant: no open spell is found, as when the NULL is compared with "=".
Roster_none(b) == {}

Roster(b) == {s.ticker : s \in OpenSpells(b)}

\* The spells that the seed x opens, from its date on.
Opened(x) ==
  {[basket |-> p[1], ticker |-> p[2], added |-> x.date, removed |-> NotRemoved] :
     p \in {q \in Pair : /\ q[1] \in DOMAIN x.release
                         /\ q[2] \in x.release[q[1]] \ Roster(q[1])}}

\* Variant: a basket whose new list is empty is skipped.
Closed_skipsEmpty(x) ==
  {s \in spells :
     /\ s.basket \in {b \in DOMAIN x.release : x.release[b] # {}}
     /\ s \in OpenSpells(s.basket) /\ s.ticker \notin x.release[s.basket]}

\* The open spells it closes: of the baskets in its release, those not listed.
Closed(x) ==
  {s \in spells :
     /\ s.basket \in DOMAIN x.release
     /\ s \in OpenSpells(s.basket) /\ s.ticker \notin x.release[s.basket]}

\* uq_basket_member_spell: basket, ticker and the day the spell began.
Collides(x) ==
  \E n \in Opened(x), s \in spells :
    s.basket = n.basket /\ s.ticker = n.ticker /\ s.added = n.added

\* The members of a set of spells, as every reader takes them (removed_at IS
\* NULL).
Live(S) == {p \in Pair : \E s \in S :
              s.basket = p[1] /\ s.ticker = p[2] /\ s.removed = NotRemoved}

-----------------------------------------------------------------------------
Init ==
  /\ today = 0
  /\ spells = {}
  /\ open = {}
  /\ release = [b \in {} |-> {}]
  /\ outcome = "none"
  /\ seeds = 0
  /\ eod = [d \in Day |-> {}]

\* A boot of release rel gets the bootstrap lock and its seed reads the date.
Start(rel) ==
  /\ open = {}
  /\ seeds < MaxSeeds
  /\ seeds' = seeds + 1
  /\ open' = {[release |-> rel, date |-> today]}
  /\ UNCHANGED <<today, spells, release, outcome, eod>>

\* Variants: a dropped name is deleted; its spell is dated by the day before,
\* its last day; it is dated by the database's clock as the seed commits.
After_deletes(x) == (spells \ Closed(x)) \cup Opened(x)
After_dayBefore(x) ==
  (spells \ Closed(x)) \cup {[s EXCEPT !.removed = x.date - 1] : s \in Closed(x)}
                       \cup Opened(x)
After_serverDate(x) ==
  (spells \ Closed(x)) \cup {[s EXCEPT !.removed = today] : s \in Closed(x)}
                       \cup Opened(x)

\* The rows as the seed x leaves them.
After(x) ==
  (spells \ Closed(x)) \cup {[s EXCEPT !.removed = x.date] : s \in Closed(x)}
                       \cup Opened(x)

\* The seed x commits.  It counts from the day it began: the days since are
\* left with the members it has set, not those they ended with.
Seed(x) ==
  /\ ~Collides(x)
  /\ open' = {}
  /\ spells' = After(x)
  /\ release' = x.release
  /\ outcome' = "ok"
  /\ eod' = [d \in Day |-> IF x.date <= d /\ d < today THEN Live(After(x)) ELSE eod[d]]
  /\ UNCHANGED <<today, seeds>>

\* An insert violates the unique constraint: the seed rolls back and the boot
\* fails.
SeedFails(x) ==
  /\ Collides(x)
  /\ open' = {}
  /\ outcome' = "failed"
  /\ UNCHANGED <<today, spells, release, seeds, eod>>

\* The container or its connection is lost before the commit: Postgres rolls
\* the seed back and frees the lock.
SeedLost(x) ==
  /\ open' = {}
  /\ outcome' = "lost"
  /\ UNCHANGED <<today, spells, release, seeds, eod>>

Midnight ==
  /\ today < LastDay
  /\ today' = today + 1
  /\ eod' = [eod EXCEPT ![today] = Live(spells)]
  /\ UNCHANGED <<spells, open, release, outcome, seeds>>

Next ==
  \/ \E rel \in Releases : Start(rel)
  \/ \E x \in open : Seed(x) \/ SeedFails(x) \/ SeedLost(x)
  \/ Midnight

Spec == Init /\ [][Next]_vars

-----------------------------------------------------------------------------
\* After a seed the members of every basket it lists are the ones it lists,
\* whatever other releases seeded before it on the same or earlier days.
MatchesRelease == \A b \in DOMAIN release : Roster(b) = release[b]

\* A ticker has at most one open spell in a basket, and two spells of it do
\* not overlap: the one has ended when the other begins.
SpellsApart ==
  \A s, u \in spells :
    (s # u /\ s.basket = u.basket /\ s.ticker = u.ticker) =>
      \/ s.removed # NotRemoved /\ s.removed <= u.added
      \/ u.removed # NotRemoved /\ u.removed <= s.added

\* Membership history is preserved (seeds/load.py:116): the spells give back,
\* for every day that is over, the members it ended with, or, if a seed that
\* had begun by then committed later, the members that seed set.  No seed
\* changes what they say of a day before the one it began on.
HeldOn(d) ==
  {p \in Pair : \E s \in spells :
     /\ s.basket = p[1] /\ s.ticker = p[2] /\ s.added <= d
     /\ s.removed = NotRemoved \/ s.removed > d}

HistoryFaithful == \A d \in Day : d < today => HeldOn(d) = eod[d]

\* No seed removes a spell or rewrites one that is closed; one that it closes
\* it dates by the day it read when it began, whatever the day is by then.
HistoryKept ==
  [][\A s \in spells :
       \/ s \in spells'
       \/ /\ s.removed = NotRemoved
          /\ \E x \in open : [s EXCEPT !.removed = x.date] \in spells']_vars

\* Seeds are serialised by the bootstrap lock.
OneSeed == \A x, y \in open : x = y

\* Every spell begins by today and by the date of a seed that is open; one
\* that is closed ends by then too, and not before it began.
Dated ==
  /\ \A x \in open : x.date <= today
  /\ \A s \in spells, d \in {today} \cup {x.date : x \in open} :
       /\ s.added <= d
       /\ s.removed # NotRemoved => s.added <= s.removed /\ s.removed <= d

\* The inductive invariant: the spells can be told apart, and the days that
\* are over read back, because a seed writes no date but the one it read at
\* its start, and no other seed has written a later one by the time it commits.
IInv ==
  /\ TypeOK
  /\ OneSeed
  /\ Dated
  /\ MatchesRelease
  /\ SpellsApart
  /\ HistoryFaithful

(***************************************************************************)
(* What the documents say and the code does not do.                        *)
(***************************************************************************)

\* seeds/load.py:3 "Re-running this is safe: existing rows are updated in
\* place and membership is reconciled rather than duplicated."
SeedIsSafe == outcome # "failed"
=============================================================================
