------------------------- MODULE Membership_proofs --------------------------
(***************************************************************************)
(* Membership history, for any baskets, tickers and releases, in whatever  *)
(* order the releases boot and wherever midnight falls.  A seed writes no  *)
(* date but the one it read at its start, and the lock keeps every other   *)
(* seed from writing a later one before it commits: so nothing it does     *)
(* reaches a day before the one it began on.  That is what IInv says.      *)
(***************************************************************************)
EXTENDS Membership, TLAPS

\* The spells a seed closes, as they are after it.
Ended(x) == {[s EXCEPT !.removed = x.date] : s \in Closed(x)}

\* What is known of a seed that is open.
LEMMA Opening ==
  ASSUME TypeOK, NEW x \in open
  PROVE  /\ x.release \in Releases /\ x.date \in Day
         /\ DOMAIN x.release \subseteq Basket
         /\ \A b \in DOMAIN x.release : x.release[b] \subseteq Ticker
         /\ x.date \in Nat /\ x.date # NotRemoved
<1>1. x.release \in Releases /\ x.date \in Day
  BY DEF TypeOK, Seeding
<1> QED BY <1>1, MembershipAssumption DEF Day

\* What a seed opens: one spell, from its date on, for each listed ticker that
\* is not a member.
LEMMA OpenedSpells ==
  ASSUME TypeOK, NEW x \in open, NEW n \in Opened(x)
  PROVE  /\ n \in Spell /\ n.added = x.date /\ n.removed = NotRemoved
         /\ n.basket \in DOMAIN x.release
         /\ n.ticker \in x.release[n.basket] /\ n.ticker \notin Roster(n.basket)
<1>1. PICK p \in Pair :
        /\ p[1] \in DOMAIN x.release /\ p[2] \in x.release[p[1]] \ Roster(p[1])
        /\ n = [basket |-> p[1], ticker |-> p[2], added |-> x.date, removed |-> NotRemoved]
  BY DEF Opened
<1>2. p[1] \in Basket /\ p[2] \in Ticker
  BY DEF Pair
<1> QED BY <1>1, <1>2, Opening DEF Spell

\* What it closes: each ends on its date and keeps who it was for and when it
\* began.
LEMMA EndedSpells ==
  ASSUME TypeOK, NEW x \in open, NEW e \in Ended(x)
  PROVE  \E s \in Closed(x) :
           /\ s \in spells /\ s.removed = NotRemoved
           /\ s.basket \in DOMAIN x.release /\ s.ticker \notin x.release[s.basket]
           /\ e = [s EXCEPT !.removed = x.date]
           /\ e \in Spell /\ e.removed = x.date /\ e.added = s.added
           /\ e.basket = s.basket /\ e.ticker = s.ticker
<1>1. PICK s \in Closed(x) : e = [s EXCEPT !.removed = x.date]
  BY DEF Ended
<1>2. /\ s \in spells /\ s.removed = NotRemoved
      /\ s.basket \in DOMAIN x.release /\ s.ticker \notin x.release[s.basket]
  BY DEF Closed, OpenSpells
<1>3. s \in Spell /\ x.date \in Day
  BY <1>2, Opening DEF TypeOK
<1> QED BY <1>1, <1>2, <1>3 DEF Spell

\* An open spell and the roster it is in.
LEMMA OpenIsMember ==
  ASSUME NEW s \in spells, s.removed = NotRemoved
  PROVE  s \in OpenSpells(s.basket) /\ s.ticker \in Roster(s.basket)
BY DEF OpenSpells, Roster

\* After a seed a basket it lists has the members it lists, and any other
\* basket the ones it had.
LEMMA SeedRosters ==
  ASSUME TypeOK, NEW x \in open, Seed(x)
  PROVE  \A b \in DOMAIN x.release : Roster(b)' = x.release[b]
<1> TAKE b \in DOMAIN x.release
<1>1. spells' = (spells \ Closed(x)) \cup Ended(x) \cup Opened(x)
  BY DEF Seed, After, Ended
<1>2. x.date # NotRemoved /\ b \in Basket /\ x.release[b] \subseteq Ticker
  BY Opening
<1>3. ASSUME NEW t \in Roster(b)'
      PROVE  t \in x.release[b]
  <2>1. PICK s \in spells' : s.basket = b /\ s.removed = NotRemoved /\ s.ticker = t
    BY <1>3 DEF Roster, OpenSpells
  <2>2. CASE s \in spells \ Closed(x)
    BY <2>1, <2>2, OpenIsMember DEF Closed
  <2>3. CASE s \in Ended(x)
    BY <1>2, <2>1, <2>3, EndedSpells
  <2>4. CASE s \in Opened(x)
    BY <2>1, <2>4, OpenedSpells
  <2> QED BY <1>1, <2>1, <2>2, <2>3, <2>4
<1>4. ASSUME NEW t \in x.release[b]
      PROVE  t \in Roster(b)'
  <2>1. CASE t \in Roster(b)
    <3>1. PICK s \in spells : s.basket = b /\ s.removed = NotRemoved /\ s.ticker = t
      BY <2>1 DEF Roster, OpenSpells
    <3>2. s \notin Closed(x)
      BY <3>1 DEF Closed
    <3> QED BY <1>1, <3>1, <3>2 DEF Roster, OpenSpells
  <2>2. CASE t \notin Roster(b)
    <3> DEFINE n == [basket |-> b, ticker |-> t, added |-> x.date, removed |-> NotRemoved]
    <3>1. <<b, t>> \in Pair
      BY <1>2, <1>4 DEF Pair
    <3>2. n \in Opened(x)
      BY <1>4, <2>2, <3>1 DEF Opened
    <3>3. n.basket = b /\ n.ticker = t /\ n.removed = NotRemoved
      OBVIOUS
    <3> HIDE DEF n
    <3> QED BY <1>1, <3>2, <3>3 DEF Roster, OpenSpells
  <2> QED BY <2>1, <2>2
<1> QED BY <1>3, <1>4

-----------------------------------------------------------------------------
LEMMA InitInv == Init => IInv
<1> SUFFICES ASSUME Init PROVE IInv
  OBVIOUS
<1>1. TypeOK
  BY MembershipAssumption DEF Init, TypeOK, Day
<1>2. OneSeed /\ Dated /\ SpellsApart /\ MatchesRelease
  BY DEF Init, OneSeed, Dated, SpellsApart, MatchesRelease
<1>3. HistoryFaithful
  BY MembershipAssumption DEF Init, HistoryFaithful, Day
<1> QED BY <1>1, <1>2, <1>3 DEF IInv

LEMMA SeedInv ==
  ASSUME IInv, NEW x \in open, Seed(x)
  PROVE  IInv'
<1>1. /\ TypeOK /\ SpellsApart /\ HistoryFaithful
      /\ x.date <= today /\ today \in Nat /\ LastDay \in Nat
      /\ \A s \in spells : /\ s.added <= x.date
                           /\ s.removed # NotRemoved => /\ s.added <= s.removed
                                                        /\ s.removed <= x.date
  BY MembershipAssumption DEF IInv, TypeOK, Dated, Day
<1>0. /\ x.date \in Nat /\ x.date # NotRemoved /\ x.release \in Releases
      /\ \A s \in spells : s.added \in Nat /\ (s.removed \in Nat \/ s.removed = NotRemoved)
  BY <1>1, Opening DEF TypeOK, Spell, Day
<1>2. /\ spells' = (spells \ Closed(x)) \cup Ended(x) \cup Opened(x)
      /\ spells' = After(x) /\ open' = {}
      /\ release' = x.release /\ UNCHANGED today
      /\ eod' = [d \in Day |-> IF x.date <= d /\ d < today THEN Live(After(x)) ELSE eod[d]]
  BY DEF Seed, After, Ended
<1>3. TypeOK'
  <2>1. Ended(x) \subseteq Spell /\ Opened(x) \subseteq Spell
    BY <1>1, EndedSpells, OpenedSpells
  <2>2. DOMAIN x.release \subseteq Basket /\ \A b \in DOMAIN x.release : x.release[b] \subseteq Ticker
    BY <1>1, Opening
  <2>3. eod' \in [Day -> SUBSET Pair]
    BY <1>1, <1>2 DEF TypeOK, Live
  <2> QED BY <1>1, <1>2, <2>1, <2>2, <2>3 DEF Seed, TypeOK
<1>4. OneSeed' /\ Dated'
  <2> SUFFICES ASSUME NEW s \in spells'
               PROVE  /\ s.added <= today
                      /\ s.removed # NotRemoved => s.added <= s.removed /\ s.removed <= today
    BY <1>2 DEF OneSeed, Dated
  <2>1. CASE s \in spells
    BY <1>0, <1>1, <2>1
  <2>2. CASE s \in Ended(x)
    BY <1>0, <1>1, <2>2, EndedSpells
  <2>3. CASE s \in Opened(x)
    BY <1>0, <1>1, <2>3, OpenedSpells
  <2> QED BY <1>2, <2>1, <2>2, <2>3
<1>5. MatchesRelease'
  BY <1>1, <1>2, SeedRosters DEF MatchesRelease
<1>6. SpellsApart'
  \* Every spell after the seed is a spell from before it, perhaps ended on the
  \* seed's date, or opens on it for a ticker all of whose spells had ended.
  <2> DEFINE Apart(s, u) == \/ s.removed # NotRemoved /\ s.removed <= u.added
                            \/ u.removed # NotRemoved /\ u.removed <= s.added
             Same(s, u) == s.basket = u.basket /\ s.ticker = u.ticker
  <2>1. ASSUME NEW s \in (spells \ Closed(x)) \cup Ended(x), NEW n \in Opened(x), Same(s, n)
        PROVE  Apart(s, n)
    <3>1. n.added = x.date /\ n.ticker \notin Roster(n.basket)
      BY <1>1, OpenedSpells
    <3>2. CASE s \in spells
      <4>1. s.removed # NotRemoved
        BY <2>1, <3>1, <3>2, OpenIsMember
      <4> QED BY <1>1, <3>1, <3>2, <4>1
    <3>3. CASE s \in Ended(x)
      BY <1>0, <1>1, <3>1, <3>3, EndedSpells
    <3> QED BY <2>1, <3>2, <3>3
  <2>2. ASSUME NEW n \in Opened(x), NEW m \in Opened(x), Same(n, m)
        PROVE  n = m
    BY <1>1, <2>2, OpenedSpells DEF Spell
  <2>3. ASSUME NEW s \in spells, NEW e \in Ended(x), Same(s, e), s \notin Closed(x)
        PROVE  Apart(s, e)
    <3>1. PICK u \in Closed(x) : /\ u \in spells /\ u.removed = NotRemoved
                                   /\ e.added = u.added /\ Same(u, e)
      BY <1>1, EndedSpells
    <3>2. s # u
      BY <2>3, <3>1
    <3>3. s.removed # NotRemoved /\ s.removed <= u.added
      BY <1>1, <2>3, <3>1, <3>2 DEF SpellsApart
    <3> QED BY <3>1, <3>3
  <2>4. ASSUME NEW e \in Ended(x), NEW f \in Ended(x), Same(e, f)
        PROVE  e = f
    <3>1. PICK s \in Closed(x) : /\ s \in spells /\ s.removed = NotRemoved
                                   /\ e = [s EXCEPT !.removed = x.date] /\ Same(s, e)
      BY <1>1, EndedSpells
    <3>2. PICK u \in Closed(x) : /\ u \in spells /\ u.removed = NotRemoved
                                   /\ f = [u EXCEPT !.removed = x.date] /\ Same(u, f)
      BY <1>1, EndedSpells
    <3>3. s = u
      BY <1>1, <2>4, <3>1, <3>2 DEF SpellsApart
    <3> QED BY <3>1, <3>2, <3>3
  <2> SUFFICES ASSUME NEW s \in spells', NEW u \in spells', s # u, Same(s, u)
               PROVE  Apart(s, u)
    BY <1>2 DEF SpellsApart
  <2>5. CASE s \in Opened(x) \/ u \in Opened(x)
    BY <1>2, <2>1, <2>2, <2>5
  <2>6. CASE s \in spells \ Closed(x) /\ u \in spells \ Closed(x)
    BY <1>1, <2>6 DEF SpellsApart
  <2>7. CASE \/ s \in spells \ Closed(x) /\ u \in Ended(x)
             \/ u \in spells \ Closed(x) /\ s \in Ended(x)
    BY <2>3, <2>7
  <2>8. CASE s \in Ended(x) /\ u \in Ended(x)
    BY <2>4, <2>8
  <2> QED BY <1>2, <2>5, <2>6, <2>7, <2>8
<1>7. HistoryFaithful'
  <2> SUFFICES ASSUME NEW d \in Day, d < today
               PROVE  HeldOn(d)' = eod'[d]
    BY <1>2 DEF HistoryFaithful
  <2> DEFINE In(s) == s.added <= d /\ (s.removed = NotRemoved \/ s.removed > d)
  <2>0. d \in Nat
    BY <1>1 DEF Day
  <2>1. HeldOn(d) = {p \in Pair : \E s \in spells :
                       s.basket = p[1] /\ s.ticker = p[2] /\ In(s)}
    BY DEF HeldOn
  <2>2. HeldOn(d)' = {p \in Pair : \E s \in spells' :
                       s.basket = p[1] /\ s.ticker = p[2] /\ In(s)}
    BY DEF HeldOn
  \* A day before the seed's date: the same spells cover it.
  <2>3. CASE d < x.date
    <3>1. \A n \in Opened(x) : ~In(n)
      BY <1>0, <1>1, <2>0, <2>3, OpenedSpells
    <3>2. \A e \in Ended(x) : \E s \in spells :
            s.basket = e.basket /\ s.ticker = e.ticker /\ (In(e) => In(s))
      BY <1>0, <1>1, <2>0, <2>3, EndedSpells
    <3>3. \A s \in Closed(x) : \E e \in Ended(x) :
            s.basket = e.basket /\ s.ticker = e.ticker /\ (In(s) => In(e))
      <4> TAKE s \in Closed(x)
      <4>1. s \in spells /\ s \in Spell
        BY <1>1 DEF Closed, TypeOK
      <4>2. [s EXCEPT !.removed = x.date] \in Ended(x)
        BY DEF Ended
      <4> WITNESS [s EXCEPT !.removed = x.date] \in Ended(x)
      <4> QED BY <1>0, <1>1, <2>0, <2>3, <4>1 DEF Spell
    <3>4. eod'[d] = HeldOn(d)
      BY <1>0, <1>1, <1>2, <2>0, <2>3 DEF HistoryFaithful
    <3> HIDE DEF In
    <3> QED BY <1>2, <2>1, <2>2, <3>1, <3>2, <3>3, <3>4
  \* A day since: every date is on it or before it, and the open spells cover it.
  <2>4. CASE x.date <= d
    <3>1. \A s \in spells' : s.added <= d /\ (s.removed = NotRemoved \/ ~(s.removed > d))
      <4> TAKE s \in spells'
      <4>1. CASE s \in spells
        BY <1>0, <1>1, <2>0, <2>4, <4>1
      <4>2. CASE s \in Ended(x)
        BY <1>0, <1>1, <2>0, <2>4, <4>2, EndedSpells
      <4>3. CASE s \in Opened(x)
        BY <1>0, <1>1, <2>0, <2>4, <4>3, OpenedSpells
      <4> QED BY <1>2, <4>1, <4>2, <4>3
    <3>2. eod'[d] = Live(spells')
      BY <1>2, <2>4
    <3> QED BY <2>2, <3>1, <3>2 DEF Live
  <2> QED BY <1>0, <2>0, <2>3, <2>4
<1> QED BY <1>3, <1>4, <1>5, <1>6, <1>7 DEF IInv

\* A day that ends is remembered as its roster: no spell lies in the future.
LEMMA MidnightInv ==
  ASSUME IInv, Midnight
  PROVE  IInv'
<1>1. /\ TypeOK /\ OneSeed /\ Dated /\ MatchesRelease /\ SpellsApart /\ HistoryFaithful
      /\ today \in Nat /\ today' = today + 1 /\ today < LastDay /\ LastDay \in Nat
      /\ UNCHANGED <<spells, open, release>>
  BY MembershipAssumption DEF IInv, TypeOK, Day, Midnight
<1>2. TypeOK'
  <2>1. today' \in Day
    BY <1>1 DEF Day
  <2>2. eod' \in [Day -> SUBSET Pair]
    BY <1>1 DEF Midnight, Live, TypeOK
  <2> QED BY <1>1, <2>1, <2>2 DEF Midnight, TypeOK
<1>3. /\ \A s \in spells : s.added \in Nat /\ (s.removed \in Nat \/ s.removed = NotRemoved)
      /\ \A x \in open : x.date \in Nat
  BY <1>1, Opening DEF TypeOK, Spell, Day
<1>4. OneSeed' /\ Dated'
  BY <1>1, <1>3 DEF OneSeed, Dated
<1>5. MatchesRelease' /\ SpellsApart'
  BY <1>1 DEF MatchesRelease, SpellsApart, Roster, OpenSpells
<1>6. HeldOn(today) = Live(spells)
  BY <1>1, <1>3 DEF HeldOn, Live, Dated
<1>7. HistoryFaithful'
  <2> SUFFICES ASSUME NEW d \in Day, d < today'
               PROVE  HeldOn(d)' = eod'[d]
    BY DEF HistoryFaithful
  <2>1. HeldOn(d)' = HeldOn(d)
    BY <1>1 DEF HeldOn
  <2>2. d \in Nat /\ today \in Day
    BY <1>1 DEF Day
  <2>3. CASE d = today
    BY <1>1, <1>6, <2>1, <2>2, <2>3 DEF Midnight, TypeOK
  <2>4. CASE d < today
    BY <1>1, <2>1, <2>2, <2>4 DEF Midnight, TypeOK, HistoryFaithful
  <2> QED BY <1>1, <2>2, <2>3, <2>4
<1> QED BY <1>1, <1>2, <1>4, <1>5, <1>7 DEF IInv

\* A seed that starts has today's date, and every date in the table is by then.
LEMMA StartInv ==
  ASSUME IInv, NEW rel \in Releases, Start(rel)
  PROVE  IInv'
<1> DEFINE x == [release |-> rel, date |-> today]
<1>1. /\ TypeOK /\ Dated /\ open' = {x} /\ today \in Day /\ today \in Nat
      /\ UNCHANGED <<today, spells, release, eod>>
  BY MembershipAssumption DEF IInv, TypeOK, Day, Start
<1>2. TypeOK'
  <2>1. seeds' \in 0..MaxSeeds
    BY <1>1, MembershipAssumption DEF Start, TypeOK
  <2>2. x \in Seeding
    BY <1>1 DEF Seeding
  <2> QED BY <1>1, <2>1, <2>2 DEF Start, TypeOK
<1>3. x.date = today
  OBVIOUS
<1>4. OneSeed' /\ Dated'
  BY <1>1, <1>3 DEF OneSeed, Dated
<1>5. MatchesRelease' /\ SpellsApart' /\ HistoryFaithful'
  BY <1>1 DEF IInv, MatchesRelease, SpellsApart, HistoryFaithful, HeldOn, Roster, OpenSpells
<1> QED BY <1>2, <1>4, <1>5 DEF IInv

\* A seed that fails or is lost leaves the table as it was.
LEMMA RolledBackInv ==
  ASSUME IInv, open' = {}, outcome' \in {"failed", "lost"},
         UNCHANGED <<today, spells, release, seeds, eod>>
  PROVE  IInv'
<1>1. TypeOK'
  BY DEF IInv, TypeOK
<1>2. OneSeed' /\ Dated'
  BY DEF IInv, OneSeed, Dated
<1>3. MatchesRelease' /\ SpellsApart' /\ HistoryFaithful'
  BY DEF IInv, MatchesRelease, SpellsApart, HistoryFaithful, HeldOn, Roster, OpenSpells
<1> QED BY <1>1, <1>2, <1>3 DEF IInv

LEMMA NextInv == IInv /\ [Next]_vars => IInv'
<1> SUFFICES ASSUME IInv, [Next]_vars PROVE IInv'
  OBVIOUS
<1>1. CASE UNCHANGED vars
  BY <1>1 DEF vars, IInv, TypeOK, OneSeed, Dated, MatchesRelease, SpellsApart,
              HistoryFaithful, HeldOn, Roster, OpenSpells
<1>2. ASSUME NEW x \in open, SeedFails(x) \/ SeedLost(x)
      PROVE  IInv'
  BY <1>2, RolledBackInv DEF SeedFails, SeedLost
<1> QED BY <1>1, <1>2, StartInv, SeedInv, MidnightInv DEF Next

-----------------------------------------------------------------------------
\* Whatever releases boot, in whatever order, and wherever midnight falls, the
\* spells stay well dated, apart and true to the days that are over.
THEOREM Invariant == Spec => []IInv
BY InitInv, NextInv, PTL DEF Spec

\* Every variable keeps its type (models/equity.py: BasketMember).
THEOREM TypeCorrect == Spec => []TypeOK
<1>1. IInv => TypeOK
  BY DEF IInv
<1> QED BY <1>1, Invariant, PTL

\* After a seed the members of a listed basket are those listed (seed_baskets).
THEOREM Reconciled == Spec => []MatchesRelease
<1>1. IInv => MatchesRelease
  BY DEF IInv
<1> QED BY <1>1, Invariant, PTL

\* Two spells of one ticker in one basket never overlap (seed_baskets).
THEOREM NoOverlap == Spec => []SpellsApart
<1>1. IInv => SpellsApart
  BY DEF IInv
<1> QED BY <1>1, Invariant, PTL

\* The spells give back, for every past day, the members it ended with or a
\* seed begun by then and committed later has set: "Membership history is
\* preserved" (seeds/load.py:116).
THEOREM HistoryReadsBack == Spec => []HistoryFaithful
<1>1. IInv => HistoryFaithful
  BY DEF IInv
<1> QED BY <1>1, Invariant, PTL

\* No boot removes a spell or rewrites one that is closed (seed_baskets).
THEOREM SpellsKept == Spec => HistoryKept
<1> DEFINE A == \A s \in spells :
                  \/ s \in spells'
                  \/ /\ s.removed = NotRemoved
                     /\ \E x \in open : [s EXCEPT !.removed = x.date] \in spells'
<1>1. ASSUME [Next]_vars PROVE [A]_vars
  <2>1. ASSUME NEW x \in open, Seed(x) PROVE A
    BY <2>1 DEF Seed, After, Closed, OpenSpells
  <2> QED BY <1>1, <2>1 DEF Next, Start, SeedFails, SeedLost, Midnight, vars
<1> QED BY <1>1, PTL DEF Spec, HistoryKept
=============================================================================
